------------------------------- MODULE Reload -------------------------------
(***************************************************************************)
(* The parent process and its proxy processes: how a configuration is      *)
(* distributed over the imsg pipes, acknowledged and replaced on SIGHUP,   *)
(* and how the whole program goes down when the parent is told to or when  *)
(* any process dies.                                                       *)
(*                                                                         *)
(* A pipe is a FIFO of messages; what the sender has queued and what is in *)
(* the kernel are not told apart, except when the parent closes its end.   *)
(* proc_dispatch handles the messages that have arrived in a loop; here    *)
(* every message is a step of its own.                                     *)
(***************************************************************************)
EXTENDS Naturals, Sequences, FiniteSets

CONSTANTS
    Workers,    \* the proxy processes (ps_instances[PROC_PROXY])
    Files       \* the successive contents of the configuration file

(* A file says how many proxy processes to run and declares some proxies.  *)
ASSUME ReloadAssumption ==
    /\ Files \in Seq([prefork : Nat, proxies : Nat])
    /\ Len(Files) > 0

VARIABLES
    mode,       \* "foreground" if galileo was started with -d, or "daemon"
    parent,     \* "run", "kill" (proc_kill waits for the children) or "gone"
    file,       \* the file of the last successful parse_config
    reload,     \* sc_reload
    sigs,       \* signals raised and not yet handled by the parent
    toW,        \* messages on their way to each worker
    toP,        \* messages on their way back
    up,         \* the workers that are running
    conf,       \* sc_proxies of each worker: a file and a position in it each
    sock        \* the file of the listening socket, and whether it is watched

vars == <<mode, parent, file, reload, sigs, toW, toP, up, conf, sock>>

NoSock == [file |-> 0, on |-> FALSE]

Msg(t, f, n) == [type |-> t, file |-> f, n |-> n]

(* The workers are children of the process that main started.  Unless -d   *)
(* is given daemon(3) forks once more, after proc_init: the process that   *)
(* goes on as the parent then has no children at all.                      *)
Children == IF mode = "foreground" THEN up ELSE {}

-----------------------------------------------------------------------------
(* The parent.                                                             *)

(* parent_configure: config_setproxy for each proxy, config_setsock, then  *)
(* IMSG_CFG_DONE.                                                          *)
ParentConfigure(f) ==
    [n \in 1..Files[f].proxies |-> Msg("CFG_SRV", f, n)]
        \o <<Msg("CFG_SOCK", f, 0), Msg("CFG_DONE", f, 0)>>

(* Mutant: the configuration is sent without a reset.                      *)
ConfigureNoReset(f) == ParentConfigure(f)

(* config_setreset, then parent_configure.                                 *)
ResetConfigure(f) == <<Msg("CTL_RESET", f, 0)>> \o ParentConfigure(f)

(* Mutant: the new file is read, then not sent if a reload is in progress. *)
ReloadSkipsBusy ==
    /\ parent = "run"
    /\ "HUP" \in sigs
    /\ sigs' = sigs \ {"HUP"}
    /\ file < Len(Files)
    /\ up = Workers
    /\ file' = file + 1
    /\ reload' = IF reload # 0 THEN reload ELSE Files[file + 1].prefork
    /\ toW' = IF reload # 0 THEN toW
              ELSE [w \in Workers |-> toW[w] \o ResetConfigure(file + 1)]
    /\ UNCHANGED <<mode, parent, toP, up, conf, sock>>

(* parent_reload: a reload in progress is only logged.  A file that does   *)
(* not parse leaves the workers alone.                                     *)
ParentReload ==
    /\ parent = "run"
    /\ "HUP" \in sigs
    /\ sigs' = sigs \ {"HUP"}
    /\ \/ UNCHANGED <<file, reload, toW>>
       \/ /\ file < Len(Files)
          /\ up = Workers
          /\ file' = file + 1
          /\ reload' = Files[file + 1].prefork
          /\ toW' = [w \in Workers |-> toW[w] \o ResetConfigure(file + 1)]
    /\ UNCHANGED <<mode, parent, toP, up, conf, sock>>

(* Mutant: an acknowledgement nobody waits for starts a new count.         *)
ConfigureDoneWraps(w) ==
    /\ parent = "run"
    /\ toP[w] # <<>>
    /\ toP' = [toP EXCEPT ![w] = Tail(@)]
    /\ reload' = IF reload = 0 THEN Cardinality(Workers) ELSE reload - 1
    /\ UNCHANGED <<mode, parent, file, sigs, toW, up, conf, sock>>

(* parent_configure_done: IMSG_CFG_DONE came back from a worker.           *)
ParentConfigureDone(w) ==
    /\ parent = "run"
    /\ toP[w] # <<>>
    /\ toP' = [toP EXCEPT ![w] = Tail(@)]
    /\ reload' = IF reload = 0 THEN 0 ELSE reload - 1
    /\ toW' = IF reload = 1
              THEN [v \in Workers |-> Append(toW[v], Msg("CTL_START", 0, 0))]
              ELSE toW
    /\ UNCHANGED <<mode, parent, file, sigs, up, conf, sock>>

(* What the pipes may still deliver once the parent is gone: imsg_clear    *)
(* drops the messages that were queued and not written.                    *)
Prefixes(q) == {SubSeq(q, 1, n) : n \in 0..Len(q)}

Cuts == {c \in [Workers -> UNION {Prefixes(toW[w]) : w \in Workers}] :
            \A w \in Workers : c[w] \in Prefixes(toW[w])}

(* Mutant: a dead pipe does not end the event loop.                        *)
ShutdownSignalsOnly ==
    /\ parent = "run"
    /\ {"TERM", "CHLD"} \cap sigs # {}
    /\ parent' = "kill"
    /\ UNCHANGED <<mode, file, reload, sigs, toW, toP, up, conf, sock>>

(* parent_shutdown, for SIGTERM, SIGINT and SIGCHLD, and when the pipe of  *)
(* a worker is dead (proc_dispatch leaves the event loop).  proc_kill      *)
(* closes the pipes first.                                                 *)
ParentShutdown ==
    /\ parent = "run"
    /\ {"TERM", "CHLD"} \cap sigs # {} \/ up # Workers
    /\ parent' = "kill"
    /\ toW' \in Cuts
    /\ UNCHANGED <<mode, file, reload, sigs, toP, up, conf, sock>>

(* proc_kill: waitpid finds no child that is still running.                *)
ParentExit ==
    /\ parent = "kill"
    /\ Children = {}
    /\ parent' = "gone"
    /\ UNCHANGED <<mode, file, reload, sigs, toW, toP, up, conf, sock>>

(* fatal: during a reload the socket cannot be set up, or the pipe of a    *)
(* dead worker cannot be written to.  The parent exits at once; some of    *)
(* the workers were sent the new configuration up to the socket, which     *)
(* config_setsock flushes.                                                 *)
ParentFatal ==
    /\ parent = "run"
    /\ ("HUP" \in sigs /\ file < Len(Files)) \/ up # Workers
    /\ parent' = "gone"
    /\ \E c \in Cuts, new \in SUBSET up :
          /\ new # {} => "HUP" \in sigs /\ file < Len(Files)
          /\ toW' = [w \in Workers |->
                IF w \in new
                THEN toW[w] \o SubSeq(ResetConfigure(file + 1), 1, 2 + Files[file + 1].proxies)
                ELSE c[w]]
    /\ UNCHANGED <<mode, file, reload, sigs, toP, up, conf, sock>>

-----------------------------------------------------------------------------
(* A worker.                                                               *)

(* proxy_dispatch_parent: config_purge, config_getproxy, config_getsock,   *)
(* or config_getcfg and proxy_launch; IMSG_CTL_START does nothing.         *)
ProxyDispatchParent(w, m) ==
    /\ conf' = [conf EXCEPT ![w] =
           CASE m.type = "CTL_RESET" -> <<>>
             [] m.type = "CFG_SRV" -> Append(@, <<m.file, m.n>>)
             [] OTHER -> @]
    /\ sock' = [sock EXCEPT ![w] =
           CASE m.type = "CTL_RESET" -> NoSock
             [] m.type = "CFG_SOCK" -> [file |-> m.file, on |-> FALSE]
             [] m.type = "CFG_DONE" -> [file |-> @.file, on |-> TRUE]
             [] OTHER -> @]
    /\ toP' = [toP EXCEPT ![w] = IF m.type = "CFG_DONE" THEN Append(@, m) ELSE @]

WorkerReceive(w) ==
    /\ w \in up
    /\ toW[w] # <<>>
    /\ ProxyDispatchParent(w, Head(toW[w]))
    /\ toW' = [toW EXCEPT ![w] = Tail(@)]
    /\ UNCHANGED <<mode, parent, file, reload, sigs, up>>

(* proc_shutdown and exit: the worker w is gone, its pipe with it.         *)
WorkerExits(w) ==
    /\ up' = up \ {w}
    /\ sigs' = IF w \in Children THEN sigs \cup {"CHLD"} ELSE sigs
    /\ sock' = [sock EXCEPT ![w] = NoSock]
    /\ conf' = [conf EXCEPT ![w] = <<>>]
    /\ toP' = [toP EXCEPT ![w] = <<>>]
    /\ toW' = [toW EXCEPT ![w] = <<>>]
    /\ UNCHANGED <<mode, parent, file, reload>>

(* The parent closed the pipe: proc_dispatch reads end of file.            *)
WorkerEof(w) ==
    /\ w \in up
    /\ parent # "run"
    /\ toW[w] = <<>>
    /\ WorkerExits(w)

(* The worker gets a SIGTERM or SIGINT of its own, or a fatal error.       *)
WorkerDies(w) ==
    /\ w \in up
    /\ WorkerExits(w)

-----------------------------------------------------------------------------
(* The administrator sends a signal to the parent.                         *)
Signal(s) ==
    /\ parent = "run"
    /\ sigs' = sigs \cup {s}
    /\ UNCHANGED <<mode, parent, file, reload, toW, toP, up, conf, sock>>

(* The workers were just forked and main has called parent_configure.      *)
Init ==
    /\ mode \in {"foreground", "daemon"}
    /\ parent = "run"
    /\ file = 1
    /\ reload = Files[1].prefork
    /\ sigs = {}
    /\ toW = [w \in Workers |-> ParentConfigure(1)]
    /\ toP = [w \in Workers |-> <<>>]
    /\ up = Workers
    /\ conf = [w \in Workers |-> <<>>]
    /\ sock = [w \in Workers |-> NoSock]

Next ==
    \/ ParentReload \/ ParentShutdown \/ ParentExit \/ ParentFatal
    \/ \E s \in {"HUP", "TERM"} : Signal(s)
    \/ \E w \in Workers : \/ ParentConfigureDone(w)
                          \/ WorkerReceive(w)
                          \/ WorkerEof(w)
                          \/ WorkerDies(w)

Spec == Init /\ [][Next]_vars

(* Every process runs its event loop: what it can handle it handles.  A    *)
(* signal that was raised is handled; none has to be sent, and no process  *)
(* has to die.                                                             *)
Fairness ==
    /\ WF_vars(ParentReload) /\ WF_vars(ParentShutdown) /\ WF_vars(ParentExit)
    /\ \A w \in Workers : /\ WF_vars(ParentConfigureDone(w))
                          /\ WF_vars(WorkerReceive(w))
                          /\ WF_vars(WorkerEof(w))

FairSpec == Spec /\ Fairness

-----------------------------------------------------------------------------
MsgType == [type : {"CTL_RESET", "CFG_SRV", "CFG_SOCK", "CFG_DONE", "CTL_START"},
            file : Nat, n : Nat]

TypeOK ==
    /\ mode \in {"foreground", "daemon"}
    /\ parent \in {"run", "kill", "gone"}
    /\ file \in 1..Len(Files)
    /\ reload \in Nat
    /\ sigs \subseteq {"HUP", "TERM", "CHLD"}
    /\ toW \in [Workers -> Seq(MsgType)]
    /\ toP \in [Workers -> Seq(MsgType)]
    /\ up \subseteq Workers
    /\ conf \in [Workers -> Seq(Nat \X Nat)]
    /\ sock \in [Workers -> [file : Nat, on : BOOLEAN]]

(* The proxies file f declares, as a worker that loaded all of it has them. *)
Declared(f) == [n \in 1..Files[f].proxies |-> <<f, n>>]

Serves(w, f) == sock[w] = [file |-> f, on |-> TRUE]

(* A worker that accepts connections has exactly the proxies of one file,  *)
(* each once and in order, the file its socket came with: a reload, even   *)
(* one that overtakes another, never lets proxy_match see a mixture or a   *)
(* part of a configuration.                                                *)
WholeConfig ==
    \A w \in Workers : sock[w].on => conf[w] = Declared(sock[w].file)

IsDone(m) == m.type = "CFG_DONE"

(* A worker to which no IMSG_CFG_DONE is under way any more serves the     *)
(* file that the parent loaded last, however many SIGHUPs came in between. *)
AckedServes ==
    parent = "run" => \A w \in up :
        (\A i \in 1..Len(toW[w]) : ~IsDone(toW[w][i])) => Serves(w, file)

(* A file that was loaded is served by every worker, unless a newer one is *)
(* loaded or the program goes down.                                        *)
ReloadCompletes ==
    \A f \in 1..Len(Files) :
        file = f ~> \/ file # f
                    \/ parent # "run"
                    \/ \A w \in Workers : Serves(w, f)

(* sc_reload returns to zero, or the program goes down.                    *)
ReloadFinishes == reload # 0 ~> (reload = 0 \/ parent # "run")

(* No process survives the others: when one is gone, all of them go.       *)
AllGoDown == (up # Workers \/ parent # "run") ~> (up = {} /\ parent = "gone")
=============================================================================

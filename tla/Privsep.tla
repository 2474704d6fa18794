------------------------------ MODULE Privsep -------------------------------
(***************************************************************************)
(* The start of the processes (proc_init, proc_exec, daemon, proc_run) and *)
(* how the end of one of them reaches the others.  A worker and the parent *)
(* learn of each other's death from the end of file on the socket pair     *)
(* between them, which comes only once nobody holds a descriptor of the    *)
(* other end: descriptors are copied by fork, dropped by exec unless they  *)
(* were made to survive, and lost when a process ends.                     *)
(*                                                                         *)
(* What is said over the socket pairs is in Imsg and Reload.               *)
(***************************************************************************)
EXTENDS Naturals

CONSTANT N      \* sc_prefork: the number of workers

ASSUME PrivsepAssumption == N \in Nat \ {0}

VARIABLES
    pc,         \* where each process is
    tab,        \* its descriptors: what each one refers to
    pp,         \* pp_pipes: the two descriptors of each worker's socket pair
    k           \* the loop counters of proc_init and proc_exec

vars == <<pc, tab, pp, k>>

Workers == 1..N

(* galileo as it was started, and the process daemon(3) makes of it.       *)
Main == 0
Daemon == N + 1
Parents == {Main, Daemon}
Procs == Parents \cup Workers

ParentEnd(i) == <<"parent", i>>
WorkerEnd(i) == <<"worker", i>>
Peer(e) == IF e[1] = "parent" THEN WorkerEnd(e[2]) ELSE ParentEnd(e[2])

(* PROC_PARENT_SOCK_FILENO                                                 *)
ParentSock == 3

MaxFd == ParentSock + 2 * N

NoFds == <<>>
Dup(t, f, e) == [g \in DOMAIN t \cup {f} |-> IF g = f THEN e ELSE t[g]]
Keep(t, fds) == [f \in DOMAIN t \cap fds |-> t[f]]
Without(t, fds) == [f \in DOMAIN t \ fds |-> t[f]]

Holders(e) == {p \in Procs : \E f \in DOMAIN tab[p] : tab[p][f] = e}

(* Reading descriptor f gives end of file.                                 *)
Eof(p, f) == f \in DOMAIN tab[p] /\ Holders(Peer(tab[p][f])) = {}

(* A new descriptor is the lowest one that is free; 0, 1 and 2 never are.  *)
Lowest(t) == CHOOSE f \in ParentSock..MaxFd :
                 f \notin DOMAIN t /\ \A g \in ParentSock..MaxFd : g < f => g \in DOMAIN t

-----------------------------------------------------------------------------

(* proc_init: a socket pair for each worker.                               *)
Socketpair ==
    LET f == Lowest(tab[Main])
        one == Dup(tab[Main], f, ParentEnd(k + 1))
        g == Lowest(one)
    IN  /\ pc[Main] = "pairs"
        /\ tab' = [tab EXCEPT ![Main] = Dup(one, g, WorkerEnd(k + 1))]
        /\ pp' = [pp EXCEPT ![k + 1] = [parent |-> f, worker |-> g]]
        /\ k' = (k + 1) % N
        /\ pc' = [pc EXCEPT ![Main] = IF k + 1 = N THEN "fork" ELSE @]

(* proc_exec: fork.  The child has a copy of every descriptor.             *)
Fork ==
    /\ pc[Main] = "fork"
    /\ pc' = [pc EXCEPT ![Main] = "close", ![k + 1] = "forked"]
    /\ tab' = [tab EXCEPT ![k + 1] = tab[Main]]
    /\ UNCHANGED <<pp, k>>

(* Mutant: the parent keeps the worker's end.                              *)
KeepWorkerEnd ==
    /\ pc[Main] = "close"
    /\ k' = (k + 1) % N
    /\ pc' = [pc EXCEPT ![Main] = IF k + 1 = N THEN "daemon" ELSE "fork"]
    /\ UNCHANGED <<tab, pp>>

(* proc_exec in the parent: "Close child end."                             *)
CloseWorkerEnd ==
    /\ pc[Main] = "close"
    /\ tab' = [tab EXCEPT ![Main] = Without(@, {pp[k + 1].worker})]
    /\ k' = (k + 1) % N
    /\ pc' = [pc EXCEPT ![Main] = IF k + 1 = N THEN "daemon" ELSE "fork"]
    /\ UNCHANGED pp

(* proc_exec in the child: "Prepare parent socket."  Whatever descriptor   *)
(* ParentSock was before, it is now the worker's end, and survives exec.   *)
ParentSocket(i) ==
    /\ pc[i] = "forked"
    /\ tab' = [tab EXCEPT ![i] = Dup(@, ParentSock, @[pp[i].worker])]
    /\ pc' = [pc EXCEPT ![i] = "ready"]
    /\ UNCHANGED <<pp, k>>

(* execvp: the other descriptors are all close-on-exec.                    *)
Exec(i) ==
    /\ pc[i] = "ready"
    /\ tab' = [tab EXCEPT ![i] = Keep(@, {ParentSock})]
    /\ pc' = [pc EXCEPT ![i] = "exec"]
    /\ UNCHANGED <<pp, k>>

(* main, proc_init and proc_run in the worker, up to event_dispatch.       *)
ProcRun(i) ==
    /\ pc[i] = "exec"
    /\ pc' = [pc EXCEPT ![i] = "run"]
    /\ UNCHANGED <<tab, pp, k>>

(* main after proc_init, with -d: no daemon(3), only proc_connect.         *)
Foreground ==
    /\ pc[Main] = "daemon"
    /\ pc' = [pc EXCEPT ![Main] = "run"]
    /\ UNCHANGED <<tab, pp, k>>

(* Without -d: daemon(3), then proc_connect.  The process that forked the  *)
(* workers is no more.                                                     *)
Daemonise ==
    /\ pc[Main] = "daemon"
    /\ pc' = [pc EXCEPT ![Main] = "dead", ![Daemon] = "run"]
    /\ tab' = [tab EXCEPT ![Main] = NoFds, ![Daemon] = tab[Main]]
    /\ UNCHANGED <<pp, k>>

-----------------------------------------------------------------------------

Exit(p) ==
    /\ pc' = [pc EXCEPT ![p] = "dead"]
    /\ tab' = [tab EXCEPT ![p] = NoFds]
    /\ UNCHANGED <<pp, k>>

(* parent_shutdown up to waitpid: proc_close.                              *)
ParentShutdown(p) ==
    /\ pc[p] = "run"
    /\ pc' = [pc EXCEPT ![p] = "wait"]
    /\ tab' = [tab EXCEPT ![p] = Without(@, {pp[i].parent : i \in Workers})]
    /\ UNCHANGED <<pp, k>>

(* Mutant: the daemon relies on a SIGCHLD instead of the end of file.      *)
ParentNoEof(p, i) ==
    /\ p = Main
    /\ Eof(p, pp[i].parent)
    /\ ParentShutdown(p)

(* proc_dispatch in the parent: "this pipe is dead".                       *)
ParentEof(p, i) ==
    /\ Eof(p, pp[i].parent)
    /\ ParentShutdown(p)

(* parent_sig_handler: SIGCHLD goes to the process that forked the worker, *)
(* and SIGINT and SIGTERM to whoever runs.                                 *)
ParentSignal(p) == ParentShutdown(p)

SigChld == \E i \in Workers : pc[i] = "dead" /\ ParentSignal(Main)

(* proc_kill: waitpid until there are no children.  The daemon has none.   *)
ProcKill(p) ==
    /\ pc[p] = "wait"
    /\ p = Main => \A i \in Workers : pc[i] \in {"none", "dead"}
    /\ Exit(p)

(* proc_dispatch in the worker, then proc_shutdown.                        *)
WorkerEof(i) ==
    /\ pc[i] = "run"
    /\ Eof(i, ParentSock)
    /\ Exit(i)

(* A process ends early: fork, exec, chroot or whatever else failed (every *)
(* failure of these functions is fatal), a worker got SIGTERM, or a crash. *)
Dies(p) ==
    /\ pc[p] \notin {"none", "dead"}
    /\ Exit(p)

(* With -P descriptor 3 is the pid file's, otherwise it is free.           *)
Init ==
    /\ pc = [p \in Procs |-> IF p = Main THEN "pairs" ELSE "none"]
    /\ \E fds \in {NoFds, Dup(NoFds, ParentSock, <<"pidfile", 0>>)} :
          tab = [p \in Procs |-> IF p = Main THEN fds ELSE NoFds]
    /\ pp = [i \in Workers |-> [parent |-> 0, worker |-> 0]]
    /\ k = 0

StartParent == Socketpair \/ Fork \/ CloseWorkerEnd \/ Foreground \/ Daemonise

WorkerStep(i) == ParentSocket(i) \/ Exec(i) \/ ProcRun(i) \/ WorkerEof(i)

Next ==
    \/ StartParent
    \/ SigChld
    \/ \E i \in Workers : WorkerStep(i)
    \/ \E p \in Parents : ParentSignal(p) \/ ProcKill(p) \/ (\E i \in Workers : ParentEof(p, i))
    \/ \E p \in Procs : Dies(p)

Spec == Init /\ [][Next]_vars

(* A process that can go on does, and an event loop handles every event    *)
(* that is pending; nobody has to die, and a signal may come too early.    *)
FairSpec ==
    /\ Spec
    /\ WF_vars(StartParent)
    /\ \A i \in Workers : WF_vars(WorkerStep(i))
    /\ \A p \in Parents : WF_vars(ProcKill(p)) /\ WF_vars(\E i \in Workers : ParentEof(p, i))

-----------------------------------------------------------------------------
(* Properties.                                                             *)

(* A worker runs with its own end of its own socket pair as the parent     *)
(* socket, and with nothing else it may have inherited: neither the ends   *)
(* of other workers, whatever numbers they had, nor the pid file.  Once    *)
(* everybody has started, each end is held by the process it is for and by *)
(* nobody else, so that the end of that process is the end of file.        *)
NoStrayHolder ==
    /\ \A i \in Workers : pc[i] = "run" => tab[i] = Dup(NoFds, ParentSock, WorkerEnd(i))
    /\ \A p \in Parents :
          pc[p] = "run" /\ (\A i \in Workers : pc[i] \in {"exec", "run", "dead"}) =>
              \A i \in Workers : Holders(WorkerEnd(i)) \subseteq {i} /\ Holders(ParentEnd(i)) = {p}

Gone == \A p \in Procs : pc[p] \in {"none", "dead"}

(* When the parent ends, in whatever way and however far the start has     *)
(* come, no worker stays behind; and when one worker ends everything ends: *)
(* the parent never waits for ever for a worker that waits for the parent. *)
(* In the background SIGCHLD does not come, and only the end of file tells.*)
GoDownTogether ==
    ((\A p \in Parents : pc[p] \in {"none", "dead"}) \/ \E i \in Workers : pc[i] = "dead") ~> Gone
=============================================================================

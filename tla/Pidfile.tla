------------------------------ MODULE Pidfile -------------------------------
(***************************************************************************)
(* The pid file (galileo -P): several instances that are started, killed   *)
(* and stopped with the same path.  The lock belongs to the process that   *)
(* takes it: fork does not pass it on, and it goes with the process.       *)
(***************************************************************************)
EXTENDS Naturals

CONSTANTS
    Instances,  \* attempts to start galileo: each does at most once
    Foreground  \* the ones with -d

ASSUME PidfileAssumption == Foreground \subseteq Instances /\ 0 \notin Instances

VARIABLES
    pc,         \* where each instance is
    path,       \* the file the path names, 0 for none
    pidfd,      \* the file each instance has open, 0 for none
    lock,       \* which instance holds the lock on each file, 0 for none
    text        \* whose pid each file contains, 0 for none

pidVars == <<pc, path, pidfd, lock, text>>

(* Each instance creates one file at most, which is called after it.       *)
PidFiles == Instances

(* Mutant: the file itself is the lock (O_EXCL).                           *)
OpenExclusive(p) ==
    /\ pc[p] = "idle"
    /\ pc' = [pc EXCEPT ![p] = IF path = 0 THEN "opened" ELSE "refused"]
    /\ path' = IF path = 0 THEN p ELSE path
    /\ pidfd' = [pidfd EXCEPT ![p] = path']
    /\ UNCHANGED <<lock, text>>

(* open_pidfile: open with O_CREAT.                                        *)
Open(p) ==
    /\ pc[p] = "idle"
    /\ pc' = [pc EXCEPT ![p] = "opened"]
    /\ path' = IF path = 0 THEN p ELSE path
    /\ pidfd' = [pidfd EXCEPT ![p] = path']
    /\ UNCHANGED <<lock, text>>

(* Mutant: the file is emptied before the lock is tried.                   *)
LockAfterTruncate(p) ==
    /\ pc[p] = "opened"
    /\ text' = [text EXCEPT ![pidfd[p]] = 0]
    /\ lock' = IF lock[pidfd[p]] = 0 THEN [lock EXCEPT ![pidfd[p]] = p] ELSE lock
    /\ pc' = [pc EXCEPT ![p] = IF lock[pidfd[p]] = 0 THEN "locked" ELSE "refused"]
    /\ UNCHANGED <<path, pidfd>>

(* Mutant: a lock somebody else has is reported and no more.               *)
LockOrWarn(p) ==
    /\ pc[p] = "opened"
    /\ lock' = IF lock[pidfd[p]] = 0 THEN [lock EXCEPT ![pidfd[p]] = p] ELSE lock
    /\ pc' = [pc EXCEPT ![p] = "locked"]
    /\ UNCHANGED <<path, pidfd, text>>

(* open_pidfile: F_SETLK.  "already running?": fatalx.                     *)
Lock(p) ==
    /\ pc[p] = "opened"
    /\ IF lock[pidfd[p]] = 0
       THEN /\ lock' = [lock EXCEPT ![pidfd[p]] = p]
            /\ pc' = [pc EXCEPT ![p] = "locked"]
            /\ UNCHANGED pidfd
       ELSE /\ pc' = [pc EXCEPT ![p] = "refused"]
            /\ pidfd' = [pidfd EXCEPT ![p] = 0]
            /\ UNCHANGED lock
    /\ UNCHANGED <<path, text>>

(* open_pidfile: ftruncate, and then atexit(rmpidfile).                    *)
Truncate(p) ==
    /\ pc[p] = "locked"
    /\ text' = [text EXCEPT ![pidfd[p]] = 0]
    /\ pc' = [pc EXCEPT ![p] = "starting"]
    /\ UNCHANGED <<path, pidfd, lock>>

(* proc_exec: a forked child fails before it is another program.  Its exit *)
(* runs rmpidfile too, although the instance goes on.                      *)
ChildFails(p) ==
    /\ pc[p] = "starting"
    /\ path' = 0
    /\ UNCHANGED <<pc, pidfd, lock, text>>

Release(p) == [f \in PidFiles |-> IF lock[f] = p THEN 0 ELSE lock[f]]

(* daemon(3), unless debugging: the process that has the lock ends.        *)
Daemonise(p) ==
    /\ pc[p] = "starting"
    /\ pc' = [pc EXCEPT ![p] = "daemon"]
    /\ lock' = IF p \in Foreground THEN lock ELSE Release(p)
    /\ UNCHANGED <<path, pidfd, text>>

(* "after daemon(3) the pid could have changed"                            *)
WritePid(p) ==
    /\ pc[p] = "daemon"
    /\ text' = [text EXCEPT ![pidfd[p]] = p]
    /\ pc' = [pc EXCEPT ![p] = "running"]
    /\ UNCHANGED <<path, pidfd, lock>>

(* rmpidfile, run by exit: at the end, or after a fatal error on the way.  *)
Unlink(p) ==
    /\ pc[p] \in {"starting", "daemon", "running"}
    /\ path' = 0
    /\ pc' = [pc EXCEPT ![p] = "exiting"]
    /\ UNCHANGED <<pidfd, lock, text>>

(* A process ends: the close of rmpidfile, or a kill that leaves the file. *)
End(p) ==
    /\ pc[p] \notin {"idle", "refused", "gone"}
    /\ pc' = [pc EXCEPT ![p] = "gone"]
    /\ lock' = Release(p)
    /\ pidfd' = [pidfd EXCEPT ![p] = 0]
    /\ UNCHANGED <<path, text>>

PidInit ==
    /\ pc = [p \in Instances |-> "idle"]
    /\ path = 0
    /\ pidfd = [p \in Instances |-> 0]
    /\ lock = [f \in PidFiles |-> 0]
    /\ text = [f \in PidFiles |-> 0]

PidNext == \E p \in Instances :
            \/ Open(p) \/ Lock(p) \/ Truncate(p) \/ ChildFails(p) \/ Daemonise(p)
            \/ WritePid(p) \/ Unlink(p) \/ End(p)

PidSpec == PidInit /\ [][PidNext]_pidVars

-----------------------------------------------------------------------------
(* Properties.                                                             *)

Alive(p) == pc[p] \notin {"idle", "refused", "gone"}

PidTypeOK ==
    /\ path \in PidFiles \cup {0}
    /\ pidfd \in [Instances -> PidFiles \cup {0}]
    /\ lock \in [PidFiles -> Instances \cup {0}]
    /\ text \in [PidFiles -> Instances \cup {0}]
    /\ \A p \in Instances : Alive(p) => pidfd[p] # 0

(* A file left behind by an instance that was killed is no obstacle: an    *)
(* instance refuses to start only if another one is alive at that moment,  *)
(* and it has not touched that one's file.                                 *)
StaleFileHarmless ==
    [][\A p \in Instances : pc[p] # "refused" /\ pc'[p] = "refused" =>
           (\E q \in Instances \ {p} : Alive(q)) /\ UNCHANGED <<path, text>>]_pidVars

(* The file of a running instance that stayed in the foreground shows its  *)
(* pid, whatever other instances try.  Only one that became a daemon, and  *)
(* lost the lock it took, may write its pid over it.                       *)
PidShown ==
    \A p \in Foreground :
        pc[p] = "running" => text[pidfd[p]] \in {p} \cup (Instances \ Foreground)

(* What the lock can promise of "prevents multiple instances from running" *)
(* (galileo.8): two instances in the foreground do not run with one file.  *)
(* If both run, the file of one of them was unlinked in between.           *)
LocksApart ==
    \A p, q \in Foreground :
        pc[p] = "running" /\ pc[q] = "running" /\ p # q => pidfd[p] # pidfd[q]
=============================================================================

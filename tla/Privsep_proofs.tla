--------------------------- MODULE Privsep_proofs ---------------------------
(***************************************************************************)
(* For any number of workers, and whoever dies during the start: a worker  *)
(* runs with nothing but its own end of its own socket pair, and when all  *)
(* have started nobody holds an end that is not for it.  The invariant     *)
(* follows the parent's descriptors through proc_init and proc_exec.       *)
(***************************************************************************)
EXTENDS Privsep, TLAPS

(* Descriptor f of the table t refers to e.                                *)
Has(t, f, e) == f \in DOMAIN t /\ t[f] = e

TypeOK ==
    /\ pc \in [Procs -> {"none", "pairs", "fork", "close", "daemon", "forked", "ready",
                         "exec", "run", "wait", "dead"}]
    /\ tab = [p \in Procs |-> tab[p]]
    /\ pp \in [Workers -> [parent : Nat, worker : Nat]]
    /\ k \in 0..(N - 1)

(* The table t of the parent when it has made the pairs S and closed the   *)
(* worker's end of the pairs C among them.                                 *)
Table(t, S, C) ==
    /\ \A i \in S : Has(t, pp[i].parent, ParentEnd(i))
    /\ \A i \in S \ C : Has(t, pp[i].worker, WorkerEnd(i))
    /\ \A i \in Workers, f \in DOMAIN t :
          t[f] = WorkerEnd(i) => i \in S \ C /\ f = pp[i].worker

(* proc_init hands out descriptors without a gap, from 3 or after the pid  *)
(* file's.                                                                 *)
Dense(t) == \E c \in {0, 1} : DOMAIN t = ParentSock..(ParentSock + c + 2 * k - 1)

ParentOK ==
    /\ pc[Main] = "pairs" => /\ Dense(tab[Main])
                             /\ Table(tab[Main], 1..k, {})
                             /\ \A p \in Procs \ {Main} : pc[p] = "none"
    /\ pc[Main] \in {"fork", "close"} => Table(tab[Main], Workers, 1..k)
    /\ pc[Main] = "daemon" => Table(tab[Main], Workers, Workers)
    /\ \A p \in Parents : pc[p] = "run" => Table(tab[p], Workers, Workers)
    /\ pc[Daemon] # "none" => pc[Main] = "dead"

WorkerOK(i) ==
    /\ pc[i] = "forked" => Has(tab[i], pp[i].worker, WorkerEnd(i))
    /\ pc[i] = "ready" => Has(tab[i], ParentSock, WorkerEnd(i))
    /\ pc[i] \in {"exec", "run"} => tab[i] = Dup(NoFds, ParentSock, WorkerEnd(i))
    /\ pc[i] \in {"none", "forked", "ready", "exec", "run", "dead"}

IInv ==
    /\ TypeOK
    /\ ParentOK
    /\ \A i \in Workers : WorkerOK(i)
    /\ \A p \in Procs : pc[p] \in {"none", "dead"} => tab[p] = NoFds

-----------------------------------------------------------------------------
LEMMA Ends ==
  /\ \A i, j : ParentEnd(i) # WorkerEnd(j)
  /\ \A i, j : WorkerEnd(i) = WorkerEnd(j) => i = j
  /\ \A i, j : ParentEnd(i) = ParentEnd(j) => i = j
  /\ \A i : <<"pidfile", 0>> # WorkerEnd(i)
  BY DEF ParentEnd, WorkerEnd

(* A descriptor is set, whether it was open before or not.                 *)
LEMMA DupSets ==
  ASSUME NEW t, NEW f, NEW e
  PROVE  /\ DOMAIN Dup(t, f, e) = DOMAIN t \cup {f}
         /\ Dup(t, f, e)[f] = e
         /\ \A g \in DOMAIN t \ {f} : Dup(t, f, e)[g] = t[g]
  BY DEF Dup

LEMMA NoFdsEmpty == DOMAIN NoFds = {}
  BY DEF NoFds

LEMMA LowestFree ==
  ASSUME NEW t, NEW m \in ParentSock..MaxFd, DOMAIN t = ParentSock..(m - 1)
  PROVE  Lowest(t) = m
<1> DEFINE P(f) == f \notin DOMAIN t /\ \A g \in ParentSock..MaxFd : g < f => g \in DOMAIN t
<1>1. MaxFd \in Nat
  BY PrivsepAssumption DEF MaxFd, ParentSock
<1>2. P(m)
  BY <1>1 DEF ParentSock
<1>3. ASSUME NEW f \in ParentSock..MaxFd, P(f) PROVE f = m
  BY <1>1, <1>3 DEF ParentSock
<1>4. Lowest(t) \in ParentSock..MaxFd /\ P(Lowest(t))
  BY <1>2 DEF Lowest
<1> QED
  BY <1>3, <1>4
LEMMA Distinct ==
  /\ Main \in Procs /\ Daemon \in Procs /\ Main # Daemon
  /\ Main \notin Workers /\ Daemon \notin Workers
  /\ Parents \subseteq Procs /\ Workers \subseteq Procs
  BY PrivsepAssumption DEF Main, Daemon, Workers, Procs, Parents

LEMMA InitIInv == Init => IInv
<1> SUFFICES ASSUME Init PROVE IInv
  OBVIOUS
<1>1. pc[Main] = "pairs" /\ \A p \in Procs \ {Main} : pc[p] = "none" /\ tab[p] = NoFds
  BY Distinct DEF Init
<1>2. TypeOK
  BY PrivsepAssumption DEF Init, TypeOK, Workers
<1>3. 1..k = {} /\ k = 0
  BY DEF Init
<1>4. PICK fds \in {NoFds, Dup(NoFds, ParentSock, <<"pidfile", 0>>)} : tab[Main] = fds
  BY Distinct DEF Init
<1>5. Dense(tab[Main]) /\ Table(tab[Main], 1..k, {})
  <2>1. CASE fds = NoFds
    <3>1. DOMAIN tab[Main] = {}
      BY <1>4, <2>1, NoFdsEmpty
    <3>2. DOMAIN tab[Main] = ParentSock..(ParentSock + 0 + 2 * k - 1)
      BY <1>3, <3>1 DEF ParentSock
    <3> QED
      BY <1>3, <3>1, <3>2 DEF Dense, Table
  <2>2. CASE fds = Dup(NoFds, ParentSock, <<"pidfile", 0>>)
    <3> DEFINE e == <<"pidfile", 0>>
    <3>0. tab[Main] = Dup(NoFds, ParentSock, e)
      BY <1>4, <2>2
    <3>1. DOMAIN tab[Main] = {ParentSock} /\ tab[Main][ParentSock] = e
      <4> HIDE DEF e
      <4> QED
        BY <3>0, NoFdsEmpty DEF Dup
    <3>2. DOMAIN tab[Main] = ParentSock..(ParentSock + 1 + 2 * k - 1)
      BY <1>3, <3>1 DEF ParentSock
    <3>3. Dense(tab[Main])
      BY <3>2 DEF Dense
    <3> QED
      BY <1>3, <3>1, <3>3, Ends DEF Table
  <2> QED
    BY <2>1, <2>2
<1>6. ParentOK
  BY <1>1, <1>5, Distinct DEF ParentOK, Parents
<1>7. \A i \in Workers : WorkerOK(i)
  BY <1>1, Distinct DEF WorkerOK
<1> QED
  BY <1>1, <1>2, <1>6, <1>7 DEF IInv

-----------------------------------------------------------------------------
(* The steps of one process that leave the pipes and the counters alone.   *)

(* Whoever ends has no descriptors any more.                               *)
LEMMA ExitKeeps ==
  ASSUME IInv, NEW p \in Procs, pc[p] # "none", Exit(p)
  PROVE  IInv'
<1>1. /\ pc' = [pc EXCEPT ![p] = "dead"] /\ tab' = [tab EXCEPT ![p] = NoFds]
      /\ pp' = pp /\ k' = k
  BY DEF Exit
<1>2. /\ pc'[p] = "dead" /\ tab'[p] = NoFds
      /\ \A q \in Procs \ {p} : pc'[q] = pc[q] /\ tab'[q] = tab[q]
  BY <1>1 DEF IInv, TypeOK
<1>3. TypeOK'
  BY <1>1 DEF IInv, TypeOK
<1>4. ParentOK'
  <2>1. /\ pc[Main] # "dead" => p = Main \/ pc'[Main] = pc[Main]
        /\ pc'[Main] \in {pc[Main], "dead"}
        /\ pc'[Main] # "dead" => tab'[Main] = tab[Main]
    BY <1>2, Distinct
  <2>2. \A q \in Parents : pc'[q] = "run" => pc[q] = "run" /\ tab'[q] = tab[q]
    BY <1>2, Distinct
  <2>3. ASSUME pc'[Main] = "pairs"
        PROVE  pc[Main] = "pairs" /\ \A q \in Procs \ {Main} : pc'[q] = "none"
    BY <1>2, <2>1, <2>3, Distinct DEF IInv, ParentOK
  <2>4. pc'[Daemon] # "none" => pc'[Main] = "dead"
    BY <1>2, Distinct DEF IInv, ParentOK
  <2> QED
    BY <1>1, <2>1, <2>2, <2>3, <2>4 DEF IInv, ParentOK, Table, Dense, Has
<1>5. ASSUME NEW i \in Workers PROVE WorkerOK(i)'
  BY <1>1, <1>2, Distinct DEF IInv, WorkerOK, Has
<1>6. \A q \in Procs : pc'[q] \in {"none", "dead"} => tab'[q] = NoFds
  BY <1>2 DEF IInv
<1> QED
  BY <1>3, <1>4, <1>5, <1>6 DEF IInv

(* A worker that exists goes on to s with the table t.                     *)
LEMMA WorkerMoves ==
  ASSUME IInv, NEW i \in Workers, pc[i] # "none", NEW s \in {"ready", "exec", "run"}, NEW t,
         pc' = [pc EXCEPT ![i] = s], tab' = [tab EXCEPT ![i] = t], pp' = pp, k' = k,
         s = "ready" => Has(t, ParentSock, WorkerEnd(i)),
         s \in {"exec", "run"} => t = Dup(NoFds, ParentSock, WorkerEnd(i))
  PROVE  IInv'
<1>1. /\ pc'[i] = s /\ tab'[i] = t
      /\ \A q \in Procs \ {i} : pc'[q] = pc[q] /\ tab'[q] = tab[q]
  BY Distinct DEF IInv, TypeOK
<1>2. TypeOK'
  BY DEF IInv, TypeOK
<1>3. ParentOK'
  <2>1. \A q \in Parents : pc'[q] = pc[q] /\ tab'[q] = tab[q]
    BY <1>1, Distinct DEF Parents
  <2>2. Main \in Parents /\ Daemon \in Parents
    BY DEF Parents
  <2>3. pc[Main] # "pairs"
    BY Distinct DEF IInv, ParentOK
  <2> QED
    BY <2>1, <2>2, <2>3 DEF IInv, ParentOK, Table, Has
<1>4. ASSUME NEW j \in Workers PROVE WorkerOK(j)'
  BY <1>1, Distinct DEF IInv, WorkerOK, Has
<1>5. \A q \in Procs : pc'[q] \in {"none", "dead"} => tab'[q] = NoFds
  BY <1>1 DEF IInv
<1> QED
  BY <1>2, <1>3, <1>4, <1>5 DEF IInv

LEMMA WorkerStepKeeps ==
  ASSUME IInv, NEW i \in Workers, WorkerStep(i)
  PROVE  IInv'
<1>1. i \in Procs /\ WorkerOK(i) /\ tab = [p \in Procs |-> tab[p]]
  BY Distinct DEF IInv, TypeOK
<1>2. CASE ParentSocket(i)
  <2> DEFINE t == Dup(tab[i], ParentSock, tab[i][pp[i].worker])
  <2>1. Has(t, ParentSock, WorkerEnd(i))
    <3>1. tab[i][pp[i].worker] = WorkerEnd(i)
      BY <1>1, <1>2 DEF ParentSocket, WorkerOK, Has
    <3> QED
      BY <3>1 DEF Has, Dup
  <2>2. tab' = [tab EXCEPT ![i] = t]
    BY <1>2 DEF ParentSocket
  <2> HIDE DEF t
  <2> QED
    BY <1>2, <2>1, <2>2, WorkerMoves DEF ParentSocket
<1>3. CASE Exec(i)
  <2> DEFINE t == Keep(tab[i], {ParentSock})
  <2>1. Has(tab[i], ParentSock, WorkerEnd(i))
    BY <1>1, <1>3 DEF Exec, WorkerOK
  <2>2. t = Dup(NoFds, ParentSock, WorkerEnd(i))
    BY <2>1, NoFdsEmpty DEF Keep, Dup, Has
  <2>3. tab' = [tab EXCEPT ![i] = t]
    BY <1>3 DEF Exec
  <2> HIDE DEF t
  <2> QED
    BY <1>3, <2>2, <2>3, WorkerMoves DEF Exec
<1>4. CASE ProcRun(i)
  <2>1. tab' = [tab EXCEPT ![i] = tab[i]]
    BY <1>1, <1>4 DEF ProcRun
  <2>2. tab[i] = Dup(NoFds, ParentSock, WorkerEnd(i))
    BY <1>1, <1>4 DEF ProcRun, WorkerOK
  <2>3. pc[i] # "none" /\ pc' = [pc EXCEPT ![i] = "run"] /\ pp' = pp /\ k' = k
    BY <1>4 DEF ProcRun
  <2> QED
    BY <2>1, <2>2, <2>3, WorkerMoves
<1>5. CASE WorkerEof(i)
  BY <1>1, <1>5, ExitKeeps DEF WorkerEof
<1> QED
  BY <1>2, <1>3, <1>4, <1>5 DEF WorkerStep

-----------------------------------------------------------------------------
(* The parent's steps.                                                     *)

LEMMA Wrap ==
  ASSUME NEW n \in 0..(N - 1)
  PROVE  (n + 1) % N = IF n + 1 = N THEN 0 ELSE n + 1
  BY PrivsepAssumption

LEMMA SocketpairKeeps ==
  ASSUME IInv, Socketpair
  PROVE  IInv'
<1> DEFINE t == tab[Main]
           f == Lowest(t)
           one == Dup(t, f, ParentEnd(k + 1))
           g == Lowest(one)
           two == Dup(one, g, WorkerEnd(k + 1))
<1>1. /\ k \in 0..(N - 1) /\ N \in Nat \ {0} /\ k + 1 \in Workers
      /\ k' = IF k + 1 = N THEN 0 ELSE k + 1
  BY PrivsepAssumption, Wrap DEF IInv, TypeOK, Socketpair, Workers
<1>2. /\ pc[Main] = "pairs" /\ Dense(t) /\ Table(t, 1..k, {})
      /\ \A p \in Procs \ {Main} : pc[p] = "none"
  BY DEF Socketpair, IInv, ParentOK
<1>3. PICK c \in {0, 1} : DOMAIN t = ParentSock..(ParentSock + c + 2 * k - 1)
  BY <1>2 DEF Dense
<1>4. f = ParentSock + c + 2 * k /\ f \in Nat
  <2> DEFINE m == ParentSock + c + 2 * k
  <2>1. m \in ParentSock..MaxFd
    BY <1>1 DEF ParentSock, MaxFd
  <2>2. DOMAIN t = ParentSock..(m - 1)
    BY <1>1, <1>3 DEF ParentSock
  <2> QED
    BY <2>1, <2>2, LowestFree DEF ParentSock
<1>5. DOMAIN one = ParentSock..f /\ f \notin DOMAIN t
  <2>1. DOMAIN one = DOMAIN t \cup {f}
    BY DupSets
  <2> HIDE DEF f, one, t
  <2> QED
    BY <1>1, <1>3, <1>4, <2>1 DEF ParentSock
<1>6. g = f + 1 /\ g \in Nat
  <2>1. f + 1 \in ParentSock..MaxFd
    BY <1>1, <1>4 DEF ParentSock, MaxFd
  <2>2. DOMAIN one = ParentSock..((f + 1) - 1)
    BY <1>4, <1>5
  <2> HIDE DEF f, one
  <2> QED
    BY <2>1, <2>2, LowestFree, <1>4
<1>7. DOMAIN two = ParentSock..g /\ g \notin DOMAIN one /\ f # g
  <2>1. DOMAIN two = DOMAIN one \cup {g}
    BY DupSets
  <2> HIDE DEF f, g, one, two
  <2> QED
    BY <1>1, <1>4, <1>5, <1>6, <2>1 DEF ParentSock
<1>8. /\ two[f] = ParentEnd(k + 1) /\ two[g] = WorkerEnd(k + 1)
      /\ \A h \in DOMAIN t : two[h] = t[h] /\ h # f /\ h # g
      /\ DOMAIN two = DOMAIN t \cup {f, g}
  <2>1. DOMAIN one = DOMAIN t \cup {f} /\ DOMAIN two = DOMAIN one \cup {g}
    BY DupSets
  <2> QED
    BY <1>5, <1>7, <2>1 DEF Dup
<1>9. /\ tab' = [tab EXCEPT ![Main] = two]
      /\ pp' = [pp EXCEPT ![k + 1] = [parent |-> f, worker |-> g]]
      /\ pc' = [pc EXCEPT ![Main] = IF k + 1 = N THEN "fork" ELSE "pairs"]
  BY <1>2 DEF Socketpair
<1> HIDE DEF f, g, one, two
<1>10. TypeOK'
  <2>1. k' \in 0..(N - 1)
    BY <1>1
  <2>2. [parent |-> f, worker |-> g] \in [parent : Nat, worker : Nat]
    BY <1>4, <1>6
  <2>3. pp' \in [Workers -> [parent : Nat, worker : Nat]]
    BY <1>1, <1>9, <2>2 DEF IInv, TypeOK
  <2> QED
    BY <1>9, <2>1, <2>3 DEF IInv, TypeOK
<1>11. /\ tab'[Main] = two /\ pc'[Main] = IF k + 1 = N THEN "fork" ELSE "pairs"
       /\ \A p \in Procs \ {Main} : pc'[p] = "none" /\ tab'[p] = NoFds
  BY <1>2, <1>9, Distinct DEF IInv, TypeOK
<1>12. /\ pp'[k + 1].parent = f /\ pp'[k + 1].worker = g
       /\ \A i \in 1..k : i \in Workers /\ i # k + 1 /\ pp'[i] = pp[i]
  BY <1>1, <1>9 DEF IInv, TypeOK, Workers
<1>13. /\ \A i \in 1..(k + 1) : Has(two, pp'[i].parent, ParentEnd(i))
       /\ \A i \in 1..(k + 1) : Has(two, pp'[i].worker, WorkerEnd(i))
  <2> SUFFICES ASSUME NEW i \in 1..(k + 1)
               PROVE  Has(two, pp'[i].parent, ParentEnd(i)) /\ Has(two, pp'[i].worker, WorkerEnd(i))
    OBVIOUS
  <2>1. CASE i = k + 1
    BY <1>8, <1>12, <2>1 DEF Has
  <2>2. CASE i \in 1..k
    <3>1. Has(t, pp[i].parent, ParentEnd(i)) /\ Has(t, pp[i].worker, WorkerEnd(i))
      BY <1>2, <2>2 DEF Table
    <3> QED
      BY <1>8, <1>12, <2>2, <3>1 DEF Has
  <2> QED
    BY <1>1, <2>1, <2>2
<1>14. ASSUME NEW i \in Workers, NEW h \in DOMAIN two, two[h] = WorkerEnd(i)
       PROVE  i \in 1..(k + 1) /\ h = pp'[i].worker
  <2>1. CASE h = f
    BY <1>8, <1>14, <2>1, Ends
  <2>2. CASE h = g
    <3>1. i = k + 1
      BY <1>8, <1>14, <2>2, Ends
    <3> QED
      BY <1>1, <1>12, <2>2, <3>1
  <2>3. CASE h \in DOMAIN t
    <3>1. i \in 1..k /\ h = pp[i].worker
      BY <1>2, <1>8, <1>14, <2>3 DEF Table
    <3> QED
      BY <1>1, <1>12, <3>1
  <2> QED
    BY <1>8, <2>1, <2>2, <2>3
<1>15. ParentOK'
  <2>1. CASE k + 1 = N
    <3>1. 1..(k + 1) = Workers /\ k' = 0 /\ 1..k' = {} /\ pc'[Main] = "fork"
      BY <1>1, <1>11, <2>1 DEF Workers
    <3>2. Table(tab[Main], Workers, 1..k)'
      BY <1>11, <1>13, <1>14, <3>1 DEF Table, Has
    <3> QED
      BY <1>11, <3>1, <3>2, Distinct DEF ParentOK, Parents
  <2>2. CASE k + 1 # N
    <3>1. k' = k + 1 /\ pc'[Main] = "pairs"
      BY <1>1, <1>11, <2>2
    <3>2. Table(tab[Main], 1..k, {})'
      BY <1>11, <1>13, <1>14, <3>1 DEF Table, Has
    <3>3. DOMAIN two = ParentSock..(ParentSock + c + 2 * k' - 1)
      BY <1>1, <1>4, <1>6, <1>7, <3>1 DEF ParentSock
    <3>4. Dense(tab[Main])'
      BY <1>11, <3>3 DEF Dense
    <3> QED
      BY <1>11, <3>1, <3>2, <3>4, Distinct DEF ParentOK, Parents
  <2> QED
    BY <2>1, <2>2
<1>16. \A i \in Workers : WorkerOK(i)'
  BY <1>11, Distinct DEF WorkerOK
<1> QED
  BY <1>10, <1>11, <1>15, <1>16 DEF IInv

LEMMA ForkKeeps ==
  ASSUME IInv, Fork
  PROVE  IInv'
<1> DEFINE i == k + 1
<1>1. i \in Workers /\ i \in Procs /\ i \notin 1..k /\ i # Main /\ i # Daemon
  BY PrivsepAssumption, Distinct DEF IInv, TypeOK, Workers
<1>2. /\ pc[Main] = "fork" /\ pp' = pp /\ k' = k
      /\ pc' = [pc EXCEPT ![Main] = "close", ![i] = "forked"]
      /\ tab' = [tab EXCEPT ![i] = tab[Main]]
  BY DEF Fork
<1> HIDE DEF i
<1>3. /\ pc'[Main] = "close" /\ pc'[i] = "forked" /\ tab'[i] = tab[Main] /\ tab'[Main] = tab[Main]
      /\ \A q \in Procs \ {Main, i} : pc'[q] = pc[q] /\ tab'[q] = tab[q]
  BY <1>1, <1>2, Distinct DEF IInv, TypeOK
<1>4. TypeOK'
  BY <1>2 DEF IInv, TypeOK
<1>5. Table(tab[Main], Workers, 1..k)
  BY <1>2 DEF IInv, ParentOK
<1>6. ParentOK'
  <2>1. pc'[Daemon] = "none"
    BY <1>1, <1>2, <1>3, Distinct DEF IInv, ParentOK
  <2> QED
    BY <1>2, <1>3, <1>5, <2>1 DEF ParentOK, Parents, Table, Has
<1>7. ASSUME NEW j \in Workers PROVE WorkerOK(j)'
  <2>1. CASE j = i
    BY <1>1, <1>2, <1>3, <1>5, <2>1 DEF WorkerOK, Table, Has
  <2>2. CASE j # i
    BY <1>2, <1>3, <2>2, Distinct DEF IInv, WorkerOK, Has
  <2> QED
    BY <2>1, <2>2
<1>8. \A q \in Procs : pc'[q] \in {"none", "dead"} => tab'[q] = NoFds
  BY <1>3 DEF IInv
<1> QED
  BY <1>4, <1>6, <1>7, <1>8 DEF IInv

LEMMA CloseWorkerEndKeeps ==
  ASSUME IInv, CloseWorkerEnd
  PROVE  IInv'
<1> DEFINE t == tab[Main]
           i == k + 1
           u == Without(t, {pp[i].worker})
<1>1. /\ i \in Workers /\ i \notin 1..k /\ k \in 0..(N - 1) /\ N \in Nat \ {0}
      /\ k' = IF i = N THEN 0 ELSE i
  BY PrivsepAssumption, Wrap DEF IInv, TypeOK, Workers, CloseWorkerEnd
<1>2. /\ pc[Main] = "close" /\ pp' = pp
      /\ pc' = [pc EXCEPT ![Main] = IF i = N THEN "daemon" ELSE "fork"]
      /\ tab' = [tab EXCEPT ![Main] = u]
  BY DEF CloseWorkerEnd
<1>3. Table(t, Workers, 1..k)
  BY <1>2 DEF IInv, ParentOK
<1>4. DOMAIN u = DOMAIN t \ {pp[i].worker} /\ \A f \in DOMAIN u : u[f] = t[f]
  BY DEF Without
<1>5. Table(u, Workers, 1..i)
  <2>1. Has(t, pp[i].worker, WorkerEnd(i))
    BY <1>1, <1>3 DEF Table
  <2>2. 1..i = 1..k \cup {i}
    BY <1>1
  <2> HIDE DEF t, i, u
  <2>3. ASSUME NEW j \in Workers PROVE Has(u, pp[j].parent, ParentEnd(j))
    <3>1. Has(t, pp[j].parent, ParentEnd(j))
      BY <1>3 DEF Table
    <3> QED
      BY <1>4, <2>1, <3>1, Ends DEF Has
  <2>4. ASSUME NEW j \in Workers \ 1..i PROVE Has(u, pp[j].worker, WorkerEnd(j))
    <3>1. Has(t, pp[j].worker, WorkerEnd(j)) /\ j # i
      BY <1>3, <2>2 DEF Table
    <3> QED
      BY <1>4, <2>1, <3>1, Ends DEF Has
  <2>5. ASSUME NEW j \in Workers, NEW f \in DOMAIN u, u[f] = WorkerEnd(j)
        PROVE  j \in Workers \ 1..i /\ f = pp[j].worker
    BY <1>3, <1>4, <2>2, <2>5 DEF Table
  <2> QED
    BY <2>3, <2>4, <2>5 DEF Table
<1>6. /\ pc'[Main] = (IF i = N THEN "daemon" ELSE "fork") /\ tab'[Main] = u
      /\ \A q \in Procs \ {Main} : pc'[q] = pc[q] /\ tab'[q] = tab[q]
  BY <1>2, Distinct DEF IInv, TypeOK
<1>7. TypeOK'
  <2>1. k' \in 0..(N - 1)
    BY <1>1
  <2> HIDE DEF u
  <2> QED
    BY <1>2, <2>1 DEF IInv, TypeOK
<1> HIDE DEF u
<1>8. ParentOK'
  <2>1. pc'[Daemon] = "none"
    BY <1>2, <1>6, Distinct DEF IInv, ParentOK
  <2>2. CASE i = N
    <3>1. pc'[Main] = "daemon" /\ 1..i = Workers
      BY <1>6, <2>2 DEF Workers
    <3>2. Table(tab[Main], Workers, Workers)'
      BY <1>2, <1>5, <1>6, <3>1 DEF Table, Has
    <3> QED
      BY <2>1, <3>1, <3>2 DEF ParentOK, Parents
  <2>3. CASE i # N
    <3>1. pc'[Main] = "fork" /\ k' = i
      BY <1>1, <1>6, <2>3
    <3>2. Table(tab[Main], Workers, 1..k)'
      BY <1>2, <1>5, <1>6, <3>1 DEF Table, Has
    <3> QED
      BY <2>1, <3>1, <3>2 DEF ParentOK, Parents
  <2> QED
    BY <2>2, <2>3
<1>9. ASSUME NEW j \in Workers PROVE WorkerOK(j)'
  BY <1>2, <1>6, Distinct DEF IInv, WorkerOK, Has
<1>10. \A q \in Procs : pc'[q] \in {"none", "dead"} => tab'[q] = NoFds
  BY <1>6 DEF IInv
<1> QED
  BY <1>7, <1>8, <1>9, <1>10 DEF IInv

LEMMA ForegroundKeeps ==
  ASSUME IInv, Foreground
  PROVE  IInv'
<1>1. /\ pc[Main] = "daemon" /\ tab' = tab /\ pp' = pp /\ k' = k
      /\ pc' = [pc EXCEPT ![Main] = "run"]
  BY DEF Foreground
<1>2. pc'[Main] = "run" /\ \A q \in Procs \ {Main} : pc'[q] = pc[q]
  BY <1>1, Distinct DEF IInv, TypeOK
<1>3. TypeOK'
  BY <1>1 DEF IInv, TypeOK
<1>4. ParentOK'
  <2>1. pc'[Daemon] = "none"
    BY <1>1, <1>2, Distinct DEF IInv, ParentOK
  <2>2. Table(tab[Main], Workers, Workers)'
    BY <1>1 DEF IInv, ParentOK, Table, Has
  <2> QED
    BY <1>2, <2>1, <2>2 DEF ParentOK, Parents
<1>5. ASSUME NEW j \in Workers PROVE WorkerOK(j)'
  BY <1>1, <1>2, Distinct DEF IInv, WorkerOK, Has
<1>6. \A q \in Procs : pc'[q] \in {"none", "dead"} => tab'[q] = NoFds
  BY <1>1, <1>2 DEF IInv
<1> QED
  BY <1>3, <1>4, <1>5, <1>6 DEF IInv

LEMMA DaemoniseKeeps ==
  ASSUME IInv, Daemonise
  PROVE  IInv'
<1>1. /\ pc[Main] = "daemon" /\ pp' = pp /\ k' = k
      /\ pc' = [pc EXCEPT ![Main] = "dead", ![Daemon] = "run"]
      /\ tab' = [tab EXCEPT ![Main] = NoFds, ![Daemon] = tab[Main]]
  BY DEF Daemonise
<1>2. /\ pc'[Main] = "dead" /\ tab'[Main] = NoFds /\ pc'[Daemon] = "run" /\ tab'[Daemon] = tab[Main]
      /\ \A q \in Procs \ Parents : pc'[q] = pc[q] /\ tab'[q] = tab[q]
  BY <1>1, Distinct DEF IInv, TypeOK, Parents
<1>3. TypeOK'
  BY <1>1 DEF IInv, TypeOK
<1>4. ParentOK'
  <2>0. Table(tab[Main], Workers, Workers)
    BY <1>1 DEF IInv, ParentOK
  <2>1. Table(tab[Daemon], Workers, Workers)'
    <3>1. pp' = pp /\ tab'[Daemon] = tab[Main]
      BY <1>1, <1>2
    <3> QED
      BY <2>0, <3>1 DEF Table, Has
  <2> QED
    BY <1>2, <2>1 DEF ParentOK, Parents
<1>5. ASSUME NEW j \in Workers PROVE WorkerOK(j)'
  BY <1>1, <1>2, Distinct DEF IInv, WorkerOK, Has, Parents
<1>6. \A q \in Procs : pc'[q] \in {"none", "dead"} => tab'[q] = NoFds
  BY <1>2 DEF IInv, Parents
<1> QED
  BY <1>3, <1>4, <1>5, <1>6 DEF IInv

LEMMA ParentShutdownKeeps ==
  ASSUME IInv, NEW p \in Parents, ParentShutdown(p)
  PROVE  IInv'
<1> DEFINE u == Without(tab[p], {pp[i].parent : i \in Workers})
<1>1. /\ pc[p] = "run" /\ pp' = pp /\ k' = k
      /\ pc' = [pc EXCEPT ![p] = "wait"]
      /\ tab' = [tab EXCEPT ![p] = u]
  BY DEF ParentShutdown
<1> HIDE DEF u
<1>2. /\ pc'[p] = "wait"
      /\ \A q \in Procs \ {p} : pc'[q] = pc[q] /\ tab'[q] = tab[q]
  BY <1>1, Distinct DEF IInv, TypeOK
<1>3. TypeOK'
  BY <1>1 DEF IInv, TypeOK
<1>4. ParentOK'
  <2>1. pc[Main] # "pairs"
    BY <1>1, Distinct DEF IInv, ParentOK, Parents
  <2>2. pc'[Main] \in {pc[Main], "wait"} /\ (pc'[Main] = pc[Main] => tab'[Main] = tab[Main])
    BY <1>1, <1>2, Distinct
  <2>3. pc'[Daemon] # "none" => pc'[Main] = "dead"
    BY <1>1, <1>2, Distinct DEF IInv, ParentOK, Parents
  <2>4. \A q \in Parents : pc'[q] = "run" => pc[q] = "run" /\ tab'[q] = tab[q]
    BY <1>2, Distinct
  <2>5. pp' = pp /\ k' = k
    BY <1>1
  <2>6. \A q \in Parents : pc'[q] = "run" => Table(tab[q], Workers, Workers)'
    <3> SUFFICES ASSUME NEW q \in Parents, pc'[q] = "run" PROVE Table(tab[q], Workers, Workers)'
      OBVIOUS
    <3>1. Table(tab[q], Workers, Workers) /\ tab'[q] = tab[q]
      BY <2>4 DEF IInv, ParentOK
    <3> QED
      BY <2>5, <3>1 DEF Table, Has
  <2>7. pc'[Main] \in {"fork", "close"} => Table(tab[Main], Workers, 1..k)'
    <3> SUFFICES ASSUME pc'[Main] \in {"fork", "close"} PROVE Table(tab[Main], Workers, 1..k)'
      OBVIOUS
    <3>1. Table(tab[Main], Workers, 1..k) /\ tab'[Main] = tab[Main]
      BY <2>2 DEF IInv, ParentOK
    <3> QED
      BY <2>5, <3>1 DEF Table, Has
  <2>8. pc'[Main] = "daemon" => Table(tab[Main], Workers, Workers)'
    <3> SUFFICES ASSUME pc'[Main] = "daemon" PROVE Table(tab[Main], Workers, Workers)'
      OBVIOUS
    <3>1. Table(tab[Main], Workers, Workers) /\ tab'[Main] = tab[Main]
      BY <2>2 DEF IInv, ParentOK
    <3> QED
      BY <2>5, <3>1 DEF Table, Has
  <2> QED
    BY <2>1, <2>2, <2>3, <2>6, <2>7, <2>8 DEF ParentOK
<1>5. ASSUME NEW j \in Workers PROVE WorkerOK(j)'
  BY <1>1, <1>2, Distinct DEF IInv, WorkerOK, Has, Parents
<1>6. \A q \in Procs : pc'[q] \in {"none", "dead"} => tab'[q] = NoFds
  BY <1>2 DEF IInv
<1> QED
  BY <1>3, <1>4, <1>5, <1>6 DEF IInv

LEMMA NextIInv == IInv /\ [Next]_vars => IInv'
<1> SUFFICES ASSUME IInv, [Next]_vars PROVE IInv'
  OBVIOUS
<1>1. CASE StartParent
  BY <1>1, SocketpairKeeps, ForkKeeps, CloseWorkerEndKeeps, ForegroundKeeps, DaemoniseKeeps DEF StartParent
<1>2. CASE SigChld
  BY <1>2, ParentShutdownKeeps DEF SigChld, ParentSignal, Parents
<1>3. ASSUME NEW i \in Workers, WorkerStep(i) PROVE IInv'
  BY <1>3, WorkerStepKeeps
<1>4. ASSUME NEW p \in Parents, ParentSignal(p) \/ \E i \in Workers : ParentEof(p, i) PROVE IInv'
  BY <1>4, ParentShutdownKeeps DEF ParentSignal, ParentEof
<1>5. ASSUME NEW p \in Parents, ProcKill(p) PROVE IInv'
  BY <1>5, ExitKeeps, Distinct DEF ProcKill
<1>6. ASSUME NEW p \in Procs, Dies(p) PROVE IInv'
  BY <1>6, ExitKeeps DEF Dies
<1>7. CASE UNCHANGED vars
  <2>1. pc' = pc /\ tab' = tab /\ pp' = pp /\ k' = k
    BY <1>7 DEF vars
  <2>2. TypeOK'
    BY <2>1 DEF IInv, TypeOK
  <2>3. ParentOK'
    <3>1. \A q : Table(tab[q], Workers, Workers)' <=> Table(tab[q], Workers, Workers)
      BY <2>1 DEF Table, Has
    <3>2. Table(tab[Main], Workers, 1..k)' <=> Table(tab[Main], Workers, 1..k)
      BY <2>1 DEF Table, Has
    <3>3. Table(tab[Main], 1..k, {})' <=> Table(tab[Main], 1..k, {})
      BY <2>1 DEF Table, Has
    <3>4. Dense(tab[Main])' <=> Dense(tab[Main])
      BY <2>1 DEF Dense
    <3> QED
      BY <2>1, <3>1, <3>2, <3>3, <3>4 DEF IInv, ParentOK
  <2>4. \A i \in Workers : WorkerOK(i)'
    BY <2>1 DEF IInv, WorkerOK, Has
  <2> QED
    BY <2>1, <2>2, <2>3, <2>4 DEF IInv
<1> QED
  BY <1>1, <1>2, <1>3, <1>4, <1>5, <1>6, <1>7 DEF Next

-----------------------------------------------------------------------------

LEMMA IInvNoStray == IInv => NoStrayHolder
<1> SUFFICES ASSUME IInv PROVE NoStrayHolder
  OBVIOUS
<1>1. \A i \in Workers : pc[i] = "run" => tab[i] = Dup(NoFds, ParentSock, WorkerEnd(i))
  BY DEF IInv, WorkerOK
<1>2. ASSUME NEW p \in Parents, pc[p] = "run",
             \A i \in Workers : pc[i] \in {"exec", "run", "dead"}, NEW i \in Workers
      PROVE  Holders(WorkerEnd(i)) \subseteq {i} /\ Holders(ParentEnd(i)) = {p}
  <2>1. Table(tab[p], Workers, Workers)
    BY <1>2 DEF IInv, ParentOK
  <2>2. ASSUME NEW q \in Procs, q # p, NEW f \in DOMAIN tab[q]
        PROVE  q \in Workers /\ tab[q][f] = WorkerEnd(q)
    <3>1. tab[q] # NoFds
      BY <2>2, NoFdsEmpty
    <3>2. q \in Workers
      BY <1>2, <2>2, <3>1, Distinct DEF IInv, ParentOK, Procs, Parents
    <3>3. tab[q] = Dup(NoFds, ParentSock, WorkerEnd(q))
      BY <1>2, <3>1, <3>2, Distinct DEF IInv, WorkerOK
    <3> QED
      BY <2>2, <3>2, <3>3, NoFdsEmpty DEF Dup
  <2>3. \A f \in DOMAIN tab[p] : tab[p][f] # WorkerEnd(i)
    BY <2>1 DEF Table
  <2>4. p \in Holders(ParentEnd(i))
    BY <2>1, Distinct DEF Table, Has, Holders
  <2>5. Holders(WorkerEnd(i)) \subseteq {i}
    BY <2>2, <2>3, Ends DEF Holders
  <2>6. Holders(ParentEnd(i)) \subseteq {p}
    BY <2>2, Ends DEF Holders
  <2> QED
    BY <2>4, <2>5, <2>6
<1> QED
  BY <1>1, <1>2 DEF NoStrayHolder

(* With any number of workers, whether descriptor 3 is free at the start   *)
(* or not, and whoever dies at any point: proc_exec leaves each worker     *)
(* with its own end and nothing else, and nobody but the parent and that   *)
(* worker ever holds an end of its pair once all have executed.            *)
THEOREM EndsHeldByTheirOwners == Spec => []NoStrayHolder
<1>1. Spec => []IInv
  BY InitIInv, NextIInv, PTL DEF Spec
<1> QED
  BY <1>1, IInvNoStray, PTL
=============================================================================

--------------------------- MODULE Upstream_proofs ---------------------------
(***************************************************************************)
(* For every size of the request, of the send buffer and of the records of *)
(* the reply: the query is released once, no wake-up is lost, and the      *)
(* whole reply is read.  What the socket carries determines how far the    *)
(* handshake and the reply are; that is the invariant of the TLS part.     *)
(***************************************************************************)
EXTENDS Upstream, SequenceTheorems, TLAPS

Messages == [type : {"hello", "finished", "answer", "data", "eof"}, size : Nat]
TlsStates == [hs : {"hello", "wait", "finished", "done"}, plain : Nat]
Socks == [inq : Seq(Messages), outq : Seq(Messages), room : Nat]
Servers == [reply : Replies, next : Nat \ {0}, seen : Nat, early : BOOLEAN]

TypeOK ==
    /\ tls \in TlsStates
    /\ sock \in Socks
    /\ bev \in [rd : BOOLEAN, wr : BOOLEAN, out : Nat]
    /\ server \in Servers
    /\ got \in [data : Seq(Nat), why : {"none", "eof", "error"}]

(* The resolver's structures in the life of a request: they exist while it *)
(* resolves, and clt_evasr is set exactly then.                            *)
Phase ==
    \/ client = "new" /\ evasr = "null" /\ eva = "none" /\ event = "none" /\ query = "none"
    \/ client = "resolving" /\ evasr = "set" /\ eva = "live" /\ event # "none" /\ query = "open"
    \/ /\ client \in {"connecting", "tls"} /\ evasr = "null" /\ eva = "freed"
       /\ event = "none" /\ query = "done"
    \/ /\ client = "gone" /\ evasr = "null" /\ eva \in {"none", "freed"}
       /\ event = "none" /\ query \in {"none", "aborted", "done"}

(* A call of tls_read empties any record that can be waiting.              *)
Fits(t, s) == /\ t.plain = 0
              /\ \A i \in 1..Len(s.inq) : s.inq[i].size <= ReadSize

(* What SendReply sends as its jth message.                                *)
ReplyRecord(j) == IF j > Len(server.reply) THEN Message("eof", 0)
                  ELSE Message("data", server.reply[j])

(* The data d that was read and the messages q that have arrived are what  *)
(* the capsule has sent of its reply.                                      *)
ReplySoFar(q, d) ==
    /\ Len(d) + Len(q) = server.next - 1
    /\ Len(d) <= Len(server.reply)
    /\ \A i \in 1..Len(d) : d[i] = server.reply[i]
    /\ \A i \in 1..Len(q) : q[i] = ReplyRecord(Len(d) + i)

(* Where the handshake is, both ways: the capsule answers a hello once,    *)
(* and nothing else arrives before its end.                                *)
InStep(t, s) ==
    /\ t.hs # "done" => server.next = 1 /\ server.seen = 0 /\ got.data = <<>>
    /\ t.hs \in {"hello", "finished"} => s.inq = <<>> /\ s.outq = <<>>
    /\ t.hs = "wait" => \/ s.inq = <<>> /\ s.outq = <<Message("hello", 0)>>
                        \/ s.inq = <<Message("answer", 0)>> /\ s.outq = <<>>
    /\ t.hs = "done" => /\ \A i \in 1..Len(s.outq) : s.outq[i].type # "hello"
                        /\ ReplySoFar(s.inq, got.data)

Events == /\ client = "tls" => bev.rd /\ (bev.out > 0 => bev.wr)
          /\ client # "gone" => got.why = "none"

IInv ==
    /\ TypeOK
    /\ Phase
    /\ Events
    /\ Fits(tls, sock)
    /\ ~server.early => InStep(tls, sock)
    /\ WholeReply

LEMMA InitIInv == Init => IInv
<1> SUFFICES ASSUME Init PROVE IInv
  OBVIOUS
<1> USE UpstreamAssumption
<1>1. TypeOK
  <2>1. <<>> \in Seq(Messages) /\ <<>> \in Seq(Nat)
    OBVIOUS
  <2>2. sock \in Socks
    BY <2>1 DEF Init, Socks
  <2>3. server \in Servers
    <3>1. PICK r \in Replies :
             server = [reply |-> r, next |-> 1, seen |-> 0, early |-> FALSE]
      BY DEF Init
    <3> QED
      BY <3>1 DEF Servers
  <2>4. tls \in TlsStates /\ bev \in [rd : BOOLEAN, wr : BOOLEAN, out : Nat]
    BY DEF Init, TlsStates
  <2>5. got \in [data : Seq(Nat), why : {"none", "eof", "error"}]
    BY <2>1 DEF Init
  <2> QED
    BY <2>2, <2>3, <2>4, <2>5 DEF TypeOK
<1>2. Phase /\ Events /\ WholeReply
  BY DEF Init, Phase, Events, WholeReply
<1>3. Fits(tls, sock)
  BY DEF Init, Fits
<1>4. InStep(tls, sock)
  BY DEF Init, InStep
<1> QED
  BY <1>1, <1>2, <1>3, <1>4 DEF IInv

-----------------------------------------------------------------------------
(* The resolver.                                                           *)

Resolver == StartFails \/ EventAsrRun \/ RequestEnds \/ Dispatch

LEMMA ResolverKeeps == IInv /\ Resolver => IInv'
<1> SUFFICES ASSUME IInv, Resolver PROVE IInv'
  OBVIOUS
<1>1. UNCHANGED tlsvars /\ client # "gone" /\ client' # "tls"
  BY DEF Resolver, StartFails, EventAsrRun, RequestEnds, Dispatch, DispatchAgain,
         DispatchDone, IInv, Phase
<1>2. Phase'
  BY DEF Resolver, StartFails, EventAsrRun, RequestEnds, Dispatch, DispatchAgain,
         DispatchDone, IInv, Phase, Freed, AbortedQuery, EventAsrAbort, ProxyClientFree,
         CallbackPointer
<1>3. TypeOK' /\ Events' /\ WholeReply'
  BY <1>1 DEF tlsvars, IInv, TypeOK, Events, WholeReply
<1>4. Fits(tls, sock)'
  BY <1>1 DEF tlsvars, IInv, Fits
<1>5. (~server.early => InStep(tls, sock))'
  BY <1>1 DEF tlsvars, IInv, InStep, ReplySoFar, ReplyRecord
<1> QED
  BY <1>2, <1>3, <1>4, <1>5 DEF IInv

-----------------------------------------------------------------------------
(* What changes in the socket.                                             *)

LEMMA Arrives ==
  ASSUME NEW s \in Socks, NEW q \in Seq(Messages)
  PROVE  /\ [s EXCEPT !.inq = q] \in Socks
         /\ [s EXCEPT !.inq = q].inq = q
         /\ [s EXCEPT !.inq = q].outq = s.outq
         /\ [s EXCEPT !.inq = q].room = s.room
  BY DEF Socks

-----------------------------------------------------------------------------
(* The handshake.                                                          *)

Calls == [t : TlsStates, s : Socks, want : {"ok", "in", "out", "error"}, n : {0}]

CallOK(r) == /\ r \in Calls
             /\ Fits(r.t, r.s)
             /\ ~server.early => InStep(r.t, r.s)

(* The step of the handshake that follows h.                               *)
After(h) == CASE h = "hello" -> "wait" [] h = "wait" -> "finished" [] OTHER -> "done"

LEMMA CallType ==
  ASSUME NEW t \in TlsStates, NEW s \in Socks
  PROVE  /\ Call(t, s) \in Calls
         /\ Call(t, s).t = t /\ Call(t, s).s = s /\ Call(t, s).want = "ok"
  BY DEF Call, Calls

LEMMA StepKeeps ==
  ASSUME IInv, NEW r, CallOK(r)
  PROVE  /\ CallOK(HandshakeStep(r))
         /\ HandshakeStep(r).want = "ok" =>
               r.want = "ok" /\ HandshakeStep(r).t.hs = After(r.t.hs)
<1> DEFINE t == r.t
           s == r.s
<1>1. r \in Calls /\ t \in TlsStates /\ s \in Socks
  BY DEF CallOK, Calls
<1>2. CASE r.want # "ok" \/ t.hs = "done"
  BY <1>2 DEF HandshakeStep, After
<1>3. ASSUME NEW w \in {"in", "out", "error"}, HandshakeStep(r) = [r EXCEPT !.want = w]
      PROVE  CallOK(HandshakeStep(r)) /\ HandshakeStep(r).want # "ok"
  <2>1. /\ HandshakeStep(r) \in Calls /\ HandshakeStep(r).want = w
        /\ HandshakeStep(r).t = t /\ HandshakeStep(r).s = s
    BY <1>1, <1>3 DEF Calls
  <2> QED
    BY <2>1 DEF CallOK
<1>4. CASE r.want = "ok" /\ t.hs = "wait" /\ s.inq # <<>> /\ Head(s.inq).type = "answer"
  <2> DEFINE u == [t EXCEPT !.hs = "finished"]
             v == [s EXCEPT !.inq = Tail(s.inq)]
  <2>1. HandshakeStep(r) = Call(u, v)
    BY <1>4 DEF HandshakeStep
  <2>2. u \in TlsStates /\ u.hs = "finished" /\ u.plain = t.plain
    BY <1>1 DEF TlsStates
  <2>3. v \in Socks /\ v.inq = Tail(s.inq) /\ v.outq = s.outq
    <3>1. s.inq \in Seq(Messages)
      BY <1>1 DEF Socks
    <3>2. Tail(s.inq) \in Seq(Messages)
      BY <1>4, <3>1
    <3> QED
      BY <1>1, <3>2, Arrives
  <2> HIDE DEF u, v
  <2>4. Fits(u, v)
    BY <1>1, <1>4, <2>2, <2>3 DEF CallOK, Fits, Socks
  <2>5. ~server.early => InStep(u, v)
    <3> SUFFICES ASSUME ~server.early PROVE InStep(u, v)
      OBVIOUS
    <3>1. InStep(t, s)
      BY DEF CallOK
    <3>2. s.inq = <<Message("answer", 0)>> /\ s.outq = <<>>
      BY <1>4, <3>1 DEF InStep
    <3>3. v.inq = <<>> /\ v.outq = <<>>
      BY <2>3, <3>2
    <3> QED
      BY <1>4, <2>2, <3>1, <3>3 DEF InStep
  <2> QED
    BY <1>4, <2>1, <2>2, <2>3, <2>4, <2>5, CallType DEF CallOK, After
<1>5. CASE r.want = "ok" /\ t.hs \in {"hello", "finished"} /\ s.room # 0
  <2> DEFINE u == [t EXCEPT !.hs = IF t.hs = "hello" THEN "wait" ELSE "done"]
             m == Message(t.hs, 0)
             n == s.room - 1
             q == Append(s.outq, m)
             v == [s EXCEPT !.room = n, !.outq = q]
  <2>1. HandshakeStep(r) = Call(u, v)
    BY <1>5 DEF HandshakeStep
  <2>2. u \in TlsStates /\ u.hs = After(t.hs) /\ u.plain = t.plain
    BY <1>1, <1>5 DEF TlsStates, After
  <2>3. m \in Messages
    BY <1>5 DEF Message, Messages
  <2>4. m.type = t.hs
    BY DEF Message
  <2> HIDE DEF m
  <2>5. v \in Socks /\ v.inq = s.inq /\ v.outq = q
    <3>1. s.outq \in Seq(Messages) /\ s.room \in Nat
      BY <1>1 DEF Socks
    <3>2. q \in Seq(Messages) /\ n \in Nat
      BY <1>5, <2>3, <3>1
    <3> HIDE DEF n, q, s
    <3> QED
      BY <1>1, <3>2 DEF Socks
  <2> HIDE DEF u, v
  <2>6. Fits(u, v)
    BY <2>2, <2>5 DEF CallOK, Fits
  <2>7. ~server.early => InStep(u, v)
    <3> SUFFICES ASSUME ~server.early PROVE InStep(u, v)
      OBVIOUS
    <3>1. InStep(t, s)
      BY DEF CallOK
    <3>2. /\ s.inq = <<>> /\ s.outq = <<>> /\ server.next = 1 /\ server.seen = 0
          /\ got.data = <<>>
      BY <1>5, <3>1 DEF InStep
    <3>3. v.inq = <<>> /\ v.outq = <<m>>
      BY <2>5, <3>2
    <3>4. CASE t.hs = "hello"
      BY <2>2, <3>2, <3>3, <3>4 DEF InStep, After, m
    <3>5. CASE t.hs = "finished"
      <4>1. \A i \in 1..Len(v.outq) : v.outq[i].type # "hello"
        BY <2>4, <3>3, <3>5
      <4>2. ReplySoFar(v.inq, got.data)
        BY <3>2, <3>3 DEF ReplySoFar, IInv, TypeOK, Servers
      <4>3. u.hs = "done"
        BY <2>2, <3>5 DEF After
      <4> QED
        BY <4>1, <4>2, <4>3 DEF InStep
    <3> QED
      BY <1>5, <3>4, <3>5
  <2> QED
    BY <1>5, <2>1, <2>2, <2>5, <2>6, <2>7, CallType DEF CallOK
<1>6. \/ r.want # "ok" \/ t.hs = "done"
      \/ \E w \in {"in", "out", "error"} : HandshakeStep(r) = [r EXCEPT !.want = w]
      \/ r.want = "ok" /\ t.hs = "wait" /\ s.inq # <<>> /\ Head(s.inq).type = "answer"
      \/ r.want = "ok" /\ t.hs \in {"hello", "finished"} /\ s.room # 0
  BY <1>1 DEF HandshakeStep, TlsStates
<1> QED
  BY <1>2, <1>3, <1>4, <1>5, <1>6

(* A call that got through the handshake finds it done.                    *)
LEMMA HandshakeKeeps ==
  ASSUME IInv
  PROVE  /\ CallOK(Handshake(tls, sock))
         /\ Handshake(tls, sock).want = "ok" => Handshake(tls, sock).t.hs = "done"
<1> DEFINE a == Call(tls, sock)
           b == HandshakeStep(a)
           c == HandshakeStep(b)
           d == HandshakeStep(c)
<1>1. CallOK(a) /\ a.t.hs \in {"hello", "wait", "finished", "done"}
  BY CallType DEF IInv, TypeOK, CallOK, TlsStates
<1>2. Handshake(tls, sock) = d
  BY DEF Handshake
<1> HIDE DEF a
<1>3. CallOK(b) /\ (b.want = "ok" => b.t.hs = After(a.t.hs))
  BY <1>1, StepKeeps
<1> HIDE DEF b
<1>4. CallOK(c) /\ (c.want = "ok" => b.want = "ok" /\ c.t.hs = After(b.t.hs))
  BY <1>3, StepKeeps
<1> HIDE DEF c
<1>5. CallOK(d) /\ (d.want = "ok" => c.want = "ok" /\ d.t.hs = After(c.t.hs))
  BY <1>4, StepKeeps
<1> HIDE DEF d
<1>6. \A x \in {"hello", "wait", "finished", "done"} : After(After(After(x))) = "done"
  BY DEF After
<1> QED
  BY <1>1, <1>2, <1>3, <1>4, <1>5, <1>6
-----------------------------------------------------------------------------
(* Reading the reply.                                                      *)

LEMMA ReplyType ==
  ASSUME IInv
  PROVE  /\ server.reply \in Seq(1..ReadSize) /\ server.reply \in Seq(Nat)
         /\ server.next \in Nat /\ got.data \in Seq(Nat) /\ ReadSize \in Nat
<1>1. /\ server.reply \in Seq(1..ReadSize)
      /\ server.next \in Nat /\ got.data \in Seq(Nat) /\ ReadSize \in Nat
  BY UpstreamAssumption DEF IInv, TypeOK, Servers
<1>2. 1..ReadSize \subseteq Nat
  BY <1>1
<1> QED
  BY <1>1, <1>2, SeqMonotonic

(* tls_read returned the next record of the reply.                         *)
LEMMA ReadsOn ==
  ASSUME IInv, NEW q \in Seq(Messages), ReplySoFar(q, got.data),
         q # <<>>, Head(q).size # 0
  PROVE  ReplySoFar(Tail(q), Append(got.data, Head(q).size))
<1> DEFINE d == got.data
           n == Head(q).size
           e == Append(d, n)
           reply == server.reply
<1>1. d \in Seq(Nat) /\ reply \in Seq(1..ReadSize) /\ server.next \in Nat
  BY ReplyType
<1>2. Len(q) \in Nat /\ Len(q) >= 1 /\ Head(q) = q[1] /\ n \in Nat
  <2>1. Head(q) \in Messages
    BY HeadTailProperties
  <2> QED
    BY <2>1 DEF Messages
<1>3. q[1] = ReplyRecord(Len(d) + 1)
  BY <1>2 DEF ReplySoFar
<1>4. Len(d) + 1 <= Len(reply) /\ n = reply[Len(d) + 1]
  BY <1>1, <1>2, <1>3 DEF ReplyRecord, Message
<1>5. /\ Len(Tail(q)) = Len(q) - 1
      /\ \A i \in 1..(Len(q) - 1) : Tail(q)[i] = q[i + 1]
  BY <1>2
<1> HIDE DEF n
<1>6. Len(e) = Len(d) + 1 /\ \A i \in 1..Len(e) : e[i] = IF i = Len(d) + 1 THEN n ELSE d[i]
  BY <1>1, <1>2
<1> HIDE DEF e, d
<1>7. Len(d) \in Nat
  BY <1>1
<1>8. Len(e) + Len(Tail(q)) = server.next - 1 /\ Len(e) <= Len(reply)
  BY <1>1, <1>2, <1>4, <1>5, <1>6, <1>7 DEF ReplySoFar, d
<1>9. \A i \in 1..Len(e) : e[i] = reply[i]
  BY <1>4, <1>6, <1>7 DEF ReplySoFar, d
<1>10. \A i \in 1..Len(Tail(q)) : Tail(q)[i] = ReplyRecord(Len(e) + i)
  <2> SUFFICES ASSUME NEW i \in 1..Len(Tail(q)) PROVE Tail(q)[i] = ReplyRecord(Len(e) + i)
    OBVIOUS
  <2>1. i + 1 \in 1..Len(q) /\ Tail(q)[i] = q[i + 1] /\ i \in Nat
    BY <1>2, <1>5
  <2>2. q[i + 1] = ReplyRecord(Len(d) + (i + 1))
    BY <2>1 DEF ReplySoFar, d
  <2>3. Len(d) + (i + 1) = Len(e) + i
    BY <1>6, <1>7, <2>1
  <2> QED
    BY <2>1, <2>2, <2>3
<1> QED
  BY <1>8, <1>9, <1>10 DEF ReplySoFar, e, d, n

(* Nothing but the end has no bytes, and it comes after all the records.   *)
LEMMA AtEnd ==
  ASSUME IInv, NEW q \in Seq(Messages), ReplySoFar(q, got.data),
         q # <<>>, Head(q).size = 0
  PROVE  got.data = server.reply
<1> DEFINE d == got.data
           reply == server.reply
<1>1. d \in Seq(Nat) /\ reply \in Seq(1..ReadSize) /\ ReadSize \in Nat
  BY ReplyType
<1>2. Len(q) \in Nat /\ Len(q) >= 1 /\ Head(q) = q[1]
  OBVIOUS
<1>3. q[1] = ReplyRecord(Len(d) + 1)
  BY <1>2 DEF ReplySoFar
<1>4. Len(d) + 1 > Len(reply)
  <2> SUFFICES ASSUME Len(d) + 1 <= Len(reply) PROVE FALSE
    BY <1>1
  <2>1. Head(q).size = reply[Len(d) + 1]
    BY <1>1, <1>2, <1>3 DEF ReplyRecord, Message
  <2>2. reply[Len(d) + 1] \in 1..ReadSize
    <3>1. Len(d) + 1 \in 1..Len(reply)
      BY <1>1
    <3> QED
      BY <1>1, <3>1, ElementOfSeq
  <2> QED
    BY <1>1, <2>1, <2>2
<1>5. Len(d) = Len(reply) /\ \A i \in 1..Len(d) : d[i] = reply[i]
  BY <1>1, <1>4 DEF ReplySoFar
<1> QED
  BY <1>5, ReplyType, SeqEqual
(* A call that moved no data, or met the end of the reply.                 *)
NoData(r) ==
    /\ r.t \in TlsStates /\ r.s \in Socks /\ r.n = 0
    /\ r.want \in {"in", "out", "error", "eof"}
    /\ Fits(r.t, r.s)
    /\ ~server.early => InStep(r.t, r.s)
    /\ r.want = "eof" => r.t.hs = "done" /\ r.s.inq # <<>> /\ Head(r.s.inq).size = 0

(* A tls_read that returned the first record the socket s had.             *)
ReadFrom(r, s) ==
    /\ r.t \in TlsStates /\ s \in Socks /\ s.inq # <<>>
    /\ r.want = "ok" /\ r.n = Head(s.inq).size /\ r.n # 0
    /\ r.s = [s EXCEPT !.inq = Tail(s.inq)]
    /\ r.t.hs = "done"
    /\ Fits(r.t, s)
    /\ ~server.early => InStep(r.t, s)

LEMMA ReadOutcome ==
  ASSUME IInv, NEW r, r = TlsRead(Howmuch)
  PROVE  NoData(r) \/ \E s : ReadFrom(r, s)
<1> DEFINE h == Handshake(tls, sock)
           t == h.t
           s == h.s
           m == Head(s.inq).size
<1>1. CallOK(h) /\ (h.want = "ok" => t.hs = "done")
  BY HandshakeKeeps
<1>2. /\ h \in Calls /\ t \in TlsStates /\ s \in Socks /\ h.n = 0 /\ t.plain = 0
      /\ h.want \in {"ok", "in", "out", "error"}
      /\ Fits(t, s) /\ (~server.early => InStep(t, s))
  BY <1>1 DEF CallOK, Calls, Fits
<1>3. CASE h.want # "ok"
  <2>1. r = h
    BY <1>3 DEF TlsRead
  <2> HIDE DEF h
  <2> QED
    BY <1>2, <1>3, <2>1 DEF NoData
<1>4. CASE h.want = "ok" /\ (s.inq = <<>> \/ m = 0)
  <2>1. r = [t |-> t, s |-> s, want |-> IF s.inq = <<>> THEN "in" ELSE "eof", n |-> 0]
    BY <1>2, <1>4 DEF TlsRead
  <2>2. /\ r.t = t /\ r.s = s /\ r.n = 0
        /\ r.want = IF s.inq = <<>> THEN "in" ELSE "eof"
    BY <2>1
  <2> HIDE DEF h
  <2> QED
    BY <1>1, <1>2, <1>4, <2>2 DEF NoData
<1>5. CASE h.want = "ok" /\ s.inq # <<>> /\ m # 0
  <2>1. s.inq \in Seq(Messages)
    BY <1>2 DEF Socks
  <2>2. m \in Nat /\ m <= ReadSize
    <3>1. Head(s.inq) \in Messages /\ Head(s.inq) = s.inq[1] /\ 1 \in 1..Len(s.inq)
      BY <1>5, <2>1, HeadTailProperties, EmptySeq
    <3>2. m \in Nat
      BY <3>1 DEF Messages
    <3> QED
      BY <1>2, <3>1, <3>2 DEF Fits
  <2>3. Least(m, Howmuch) = m /\ m - m = 0 /\ m > 0
    BY <1>5, <2>2, UpstreamAssumption DEF Least, Howmuch
  <2>4. r = [t |-> [t EXCEPT !.plain = m - m], s |-> [s EXCEPT !.inq = Tail(s.inq)],
             want |-> "ok", n |-> m]
    <3> DEFINE pending == IF t.plain > 0 \/ s.inq = <<>> THEN t.plain ELSE m
               next == IF t.plain > 0 \/ pending = 0 THEN s.inq ELSE Tail(s.inq)
               n == Least(pending, Howmuch)
    <3>1. r = IF h.want # "ok" THEN h
              ELSE IF pending > 0
              THEN [t |-> [t EXCEPT !.plain = pending - n], s |-> [s EXCEPT !.inq = next],
                    want |-> "ok", n |-> n]
              ELSE [t |-> t, s |-> s, want |-> IF s.inq = <<>> THEN "in" ELSE "eof", n |-> 0]
      BY DEF TlsRead
    <3> HIDE DEF h
    <3>2. pending = m
      BY <1>2, <1>5
    <3>3. next = Tail(s.inq) /\ n = m
      BY <1>2, <1>5, <2>3, <3>2
    <3> HIDE DEF pending, next, n, m, s, t
    <3> QED
      BY <1>5, <2>3, <3>1, <3>2, <3>3
  <2>5. [t EXCEPT !.plain = m - m] = t
    BY <1>2, <2>3 DEF TlsStates
  <2>6. r.t = t /\ r.s = [s EXCEPT !.inq = Tail(s.inq)] /\ r.want = "ok" /\ r.n = m
    BY <2>4, <2>5
  <2> HIDE DEF h
  <2>7. ReadFrom(r, s)
    BY <1>1, <1>2, <1>5, <2>6 DEF ReadFrom
  <2> QED
    BY <2>7
<1> QED
  BY <1>3, <1>4, <1>5

LEMMA InStepSame ==
  ASSUME server' = server, got'.data = got.data, NEW t, NEW s, InStep(t, s),
         tls' = t, sock' = s
  PROVE  InStep(tls, sock)'
  BY DEF InStep, ReplySoFar, ReplyRecord

LEMMA ReadcbKeeps == IInv /\ ProxyTlsReadcb => IInv'
<1> SUFFICES ASSUME IInv, ProxyTlsReadcb PROVE IInv'
  OBVIOUS
<1> DEFINE r == TlsRead(Howmuch)
           again == ReadAgain(r)
<1>1. /\ client = "tls" /\ tls' = r.t /\ sock' = r.s /\ server' = server
      /\ bev' = [bev EXCEPT !.rd = again]
      /\ UNCHANGED <<evasr, eva, event, query, rounds>>
  BY DEF ProxyTlsReadcb
<1>2. IF r.want \in {"eof", "error"} THEN client' = "gone" /\ got' = [got EXCEPT !.why = r.want]
      ELSE client' = client /\ got' = [got EXCEPT !.data = Received(r)]
  BY DEF ProxyTlsReadcb, TlsError
<1>3. NoData(r) \/ \E s : ReadFrom(r, s)
  BY ReadOutcome
<1> HIDE DEF r
<1>4. again \in BOOLEAN /\ (r.want \in {"in", "out", "ok"} => again)
  BY DEF ReadAgain
<1> HIDE DEF again
<1>5. /\ bev' \in [rd : BOOLEAN, wr : BOOLEAN, out : Nat]
      /\ bev'.rd = again /\ bev'.wr = bev.wr /\ bev'.out = bev.out
  BY <1>1, <1>4 DEF IInv, TypeOK
<1>6. Phase'
  BY <1>1, <1>2 DEF IInv, Phase
<1>7. got.why = "none" /\ bev.rd /\ (bev.out > 0 => bev.wr)
  BY <1>1 DEF IInv, Events
<1>8. CASE NoData(r)
  <2>0. Received(r) = got.data
    BY <1>8 DEF NoData, Received
  <2>1. /\ got'.data = got.data
        /\ got' \in [data : Seq(Nat), why : {"none", "eof", "error"}]
        /\ got'.why = IF r.want \in {"eof", "error"} THEN r.want ELSE got.why
    BY <1>2, <2>0 DEF IInv, TypeOK
  <2>2. TypeOK'
    BY <1>1, <1>5, <1>8, <2>1 DEF NoData, IInv, TypeOK
  <2>3. Events'
    <3>1. CASE r.want \in {"eof", "error"}
      BY <1>2, <3>1 DEF Events
    <3>2. CASE r.want \in {"in", "out"}
      BY <1>4, <1>5, <1>7, <2>1, <3>2 DEF Events
    <3> QED
      BY <1>8, <3>1, <3>2 DEF NoData
  <2>4. Fits(tls, sock)'
    BY <1>1, <1>8 DEF NoData, Fits
  <2>5. (~server.early => InStep(tls, sock))'
    BY <1>1, <1>8, <2>1, InStepSame DEF NoData
  <2>6. WholeReply'
    <3> SUFFICES ASSUME got'.why = "eof", ~server.early PROVE got.data = server.reply
      BY <1>1, <2>1 DEF WholeReply
    <3>1. r.want = "eof"
      BY <1>7, <2>1
    <3>2. ReplySoFar(r.s.inq, got.data) /\ r.s.inq # <<>> /\ Head(r.s.inq).size = 0
      BY <1>8, <3>1 DEF NoData, InStep
    <3>3. r.s.inq \in Seq(Messages)
      BY <1>8 DEF NoData, Socks
    <3> QED
      BY <3>2, <3>3, AtEnd
  <2> QED
    BY <1>6, <2>2, <2>3, <2>4, <2>5, <2>6 DEF IInv
<1>9. ASSUME NEW s, ReadFrom(r, s) PROVE IInv'
  <2> DEFINE q == Tail(s.inq)
  <2>1. s.inq \in Seq(Messages) /\ s.inq # <<>> /\ s \in Socks
    BY <1>9 DEF ReadFrom, Socks
  <2>2. q \in Seq(Messages) /\ r.n \in Nat
    <3>1. q \in Seq(Messages) /\ Head(s.inq) \in Messages
      BY <2>1, HeadTailProperties
    <3> QED
      BY <1>9, <3>1 DEF ReadFrom, Messages
  <2>3. client' = client /\ got' = [got EXCEPT !.data = Append(got.data, r.n)]
    BY <1>2, <1>9 DEF Received, ReadFrom
  <2>4. /\ got'.data = Append(got.data, r.n) /\ got'.why = got.why
        /\ got' \in [data : Seq(Nat), why : {"none", "eof", "error"}]
    <3>1. Append(got.data, r.n) \in Seq(Nat)
      BY <2>2 DEF IInv, TypeOK
    <3> QED
      BY <2>3, <3>1 DEF IInv, TypeOK
  <2>5. sock' \in Socks /\ sock'.inq = q /\ sock'.outq = s.outq
    <3>1. sock' = [s EXCEPT !.inq = q]
      BY <1>1, <1>9 DEF ReadFrom
    <3> HIDE DEF q
    <3> QED
      BY <2>1, <2>2, <3>1, Arrives
  <2>6. TypeOK'
    BY <1>1, <1>5, <1>9, <2>4, <2>5 DEF ReadFrom, IInv, TypeOK
  <2>7. Events'
    <3>1. again
      BY <1>4, <1>9 DEF ReadFrom
    <3> QED
      BY <1>5, <1>7, <2>4, <3>1 DEF Events
  <2>8. Fits(tls, sock)'
    <3>1. \A i \in 1..Len(q) : q[i].size <= ReadSize
      BY <1>9, <2>1 DEF ReadFrom, Fits
    <3> QED
      BY <1>1, <1>9, <2>5, <3>1 DEF ReadFrom, Fits
  <2>9. (~server.early => InStep(tls, sock))'
    <3> SUFFICES ASSUME ~server.early PROVE InStep(tls, sock)'
      BY <1>1
    <3>1. ReplySoFar(s.inq, got.data) /\ \A i \in 1..Len(s.outq) : s.outq[i].type # "hello"
      BY <1>9 DEF ReadFrom, InStep
    <3>2. ReplySoFar(q, Append(got.data, r.n))
      BY <1>9, <2>1, <3>1, ReadsOn DEF ReadFrom
    <3>3. ReplySoFar(sock.inq, got.data)'
      BY <1>1, <2>4, <2>5, <3>2 DEF ReplySoFar, ReplyRecord
    <3> QED
      BY <1>1, <1>9, <2>5, <3>1, <3>3 DEF InStep, ReadFrom
  <2>10. WholeReply'
    BY <1>7, <2>4 DEF WholeReply
  <2> QED
    BY <1>6, <2>6, <2>7, <2>8, <2>9, <2>10 DEF IInv
<1> QED
  BY <1>3, <1>8, <1>9
-----------------------------------------------------------------------------
(* Writing the request.                                                    *)

(* A tls_write that took n bytes of the output buffer.                     *)
Wrote(r) ==
    /\ r.t \in TlsStates /\ r.s \in Socks
    /\ r.want = "ok" /\ r.n \in 1..bev.out
    /\ Fits(r.t, r.s)
    /\ ~server.early => InStep(r.t, r.s)

LEMMA WriteOutcome ==
  ASSUME IInv, NEW r, r = TlsWrite
  PROVE  (NoData(r) /\ r.want # "eof") \/ Wrote(r)
<1> DEFINE h == Handshake(tls, sock)
           t == h.t
           s == h.s
           n == Least(bev.out, s.room)
           m == Message("data", n)
           q == Append(s.outq, m)
           room == s.room - n
           v == [s EXCEPT !.room = room, !.outq = q]
<1>1. CallOK(h) /\ (h.want = "ok" => t.hs = "done")
  BY HandshakeKeeps
<1>2. r = IF h.want # "ok" THEN h
          ELSE IF n = 0 THEN [t |-> t, s |-> s, want |-> "out", n |-> 0]
          ELSE [t |-> t, s |-> v, want |-> "ok", n |-> n]
  BY DEF TlsWrite
<1> HIDE DEF h
<1>3. /\ h \in Calls /\ t \in TlsStates /\ s \in Socks /\ h.n = 0
      /\ h.want \in {"ok", "in", "out", "error"}
      /\ Fits(t, s) /\ (~server.early => InStep(t, s))
  BY <1>1 DEF CallOK, Calls
<1>4. CASE h.want # "ok"
  <2>1. r = h
    BY <1>2, <1>4
  <2> QED
    BY <1>3, <1>4, <2>1 DEF NoData
<1>5. CASE h.want = "ok" /\ n = 0
  <2>1. r.t = t /\ r.s = s /\ r.n = 0 /\ r.want = "out"
    BY <1>2, <1>5
  <2> QED
    BY <1>3, <2>1 DEF NoData
<1>6. CASE h.want = "ok" /\ n # 0
  <2>1. bev.out \in Nat /\ s.room \in Nat /\ s.outq \in Seq(Messages)
    BY <1>3 DEF IInv, TypeOK, Socks
  <2>2. n \in 1..bev.out /\ room \in Nat
    BY <1>6, <2>1 DEF Least
  <2>3. r.t = t /\ r.s = v /\ r.n = n /\ r.want = "ok"
    BY <1>2, <1>6
  <2> HIDE DEF n, room
  <2>4. m \in Messages /\ m.type = "data"
    BY <2>2 DEF Message, Messages
  <2> HIDE DEF m
  <2>5. q \in Seq(Messages)
    BY <2>1, <2>4
  <2> HIDE DEF q, s
  <2>6. v \in Socks /\ v.inq = s.inq /\ v.outq = q
    BY <1>3, <2>2, <2>5 DEF Socks
  <2> HIDE DEF v
  <2>7. Fits(t, v)
    BY <1>3, <2>6 DEF Fits
  <2>8. ASSUME ~server.early PROVE InStep(t, v)
    <3>1. t.hs = "done" /\ InStep(t, s)
      BY <1>1, <1>3, <1>6, <2>8
    <3>2. /\ \A i \in 1..Len(s.outq) : s.outq[i].type # "hello"
          /\ ReplySoFar(s.inq, got.data)
      BY <3>1 DEF InStep
    <3>3. \A i \in 1..Len(q) : q[i].type # "hello"
      <4>1. \A i \in 1..Len(q) : q[i] = m \/ (i \in 1..Len(s.outq) /\ q[i] = s.outq[i])
        BY <2>1, <2>4 DEF q
      <4> QED
        BY <2>4, <3>2, <4>1
    <3> QED
      BY <2>6, <3>1, <3>2, <3>3 DEF InStep
  <2> QED
    BY <1>3, <2>2, <2>3, <2>6, <2>7, <2>8 DEF Wrote
<1> QED
  BY <1>4, <1>5, <1>6

LEMMA WritecbKeeps == IInv /\ ProxyTlsWritecb => IInv'
<1> SUFFICES ASSUME IInv, ProxyTlsWritecb PROVE IInv'
  OBVIOUS
<1> DEFINE r == TlsWrite
           again == WriteAgain(r)
           left == bev.out - r.n
<1>1. /\ client = "tls" /\ tls' = r.t /\ sock' = r.s /\ server' = server
      /\ bev' = [bev EXCEPT !.wr = again, !.out = left]
      /\ UNCHANGED <<evasr, eva, event, query, rounds>>
  BY DEF ProxyTlsWritecb
<1>2. IF r.want = "error" THEN client' = "gone" /\ got' = [got EXCEPT !.why = "error"]
      ELSE client' = client /\ got' = got
  BY DEF ProxyTlsWritecb, TlsError
<1>3. (NoData(r) /\ r.want # "eof") \/ Wrote(r)
  BY WriteOutcome
<1> HIDE DEF r
<1>4. again \in BOOLEAN /\ left \in Nat
  <2>1. bev.out \in Nat
    BY DEF IInv, TypeOK
  <2>2. r.n = 0 \/ r.n \in 1..bev.out
    BY <1>3 DEF NoData, Wrote
  <2> QED
    BY <2>1, <2>2 DEF WriteAgain
<1>5. r.want # "error" /\ left > 0 => again
  <2>1. CASE r.want \in {"in", "out"}
    BY <2>1 DEF WriteAgain
  <2>2. CASE Wrote(r)
    <3>1. bev.out \in Nat
      BY DEF IInv, TypeOK
    <3> QED
      BY <2>2, <3>1 DEF WriteAgain, Wrote
  <2> QED
    BY <1>3, <2>1, <2>2 DEF NoData
<1> HIDE DEF again, left
<1>6. /\ bev' \in [rd : BOOLEAN, wr : BOOLEAN, out : Nat]
      /\ bev'.rd = bev.rd /\ bev'.wr = again /\ bev'.out = left
  BY <1>1, <1>4 DEF IInv, TypeOK
<1>7. /\ got'.data = got.data /\ got'.why \in {got.why, "error"}
      /\ got' \in [data : Seq(Nat), why : {"none", "eof", "error"}]
  BY <1>2 DEF IInv, TypeOK
<1>8. /\ r.t \in TlsStates /\ r.s \in Socks /\ Fits(r.t, r.s)
      /\ ~server.early => InStep(r.t, r.s)
  BY <1>3 DEF NoData, Wrote
<1>9. TypeOK'
  BY <1>1, <1>6, <1>7, <1>8 DEF IInv, TypeOK
<1>10. Phase'
  BY <1>1, <1>2 DEF IInv, Phase
<1>11. Events'
  <2>1. CASE r.want = "error"
    BY <1>2, <2>1 DEF Events
  <2>2. CASE r.want # "error"
    BY <1>1, <1>2, <1>5, <1>6, <2>2 DEF IInv, Events
  <2> QED
    BY <2>1, <2>2
<1>12. Fits(tls, sock)'
  BY <1>1, <1>8 DEF Fits
<1>13. (~server.early => InStep(tls, sock))'
  BY <1>1, <1>7, <1>8, InStepSame
<1>14. WholeReply'
  BY <1>1, <1>7 DEF IInv, WholeReply
<1> QED
  BY <1>9, <1>10, <1>11, <1>12, <1>13, <1>14 DEF IInv

LEMMA ConnectedKeeps == IInv /\ ProxyConnected => IInv'
<1> SUFFICES ASSUME IInv, ProxyConnected PROVE IInv'
  OBVIOUS
<1>1. UNCHANGED <<tls, sock, server, got>> /\ client = "connecting" /\ client' = "tls"
  BY DEF ProxyConnected
<1>2. bev' = [rd |-> TRUE, wr |-> TRUE, out |-> Request] /\ Request \in Nat
  BY UpstreamAssumption DEF ProxyConnected
<1>3. TypeOK'
  BY <1>1, <1>2 DEF IInv, TypeOK
<1>4. Phase'
  BY DEF ProxyConnected, IInv, Phase
<1>5. Fits(tls, sock)' /\ WholeReply'
  BY <1>1 DEF IInv, Fits, WholeReply
<1>6. (~server.early => InStep(tls, sock))'
  BY <1>1, InStepSame DEF IInv
<1>7. Events'
  BY <1>1, <1>2 DEF IInv, Events
<1> QED
  BY <1>3, <1>4, <1>5, <1>6, <1>7 DEF IInv
-----------------------------------------------------------------------------
(* The capsule.                                                            *)

(* A step of the capsule changes the socket and its own state.             *)
LEMMA CapsuleKeeps ==
  ASSUME IInv, client = "tls",
         UNCHANGED <<client, evasr, eva, event, query, rounds, tls, bev, got>>,
         sock' \in Socks, server' \in Servers, server'.reply = server.reply,
         \A i \in 1..Len(sock'.inq) : sock'.inq[i].size <= ReadSize,
         ~server'.early => ~server.early /\ InStep(tls, sock)'
  PROVE  IInv'
<1>1. TypeOK'
  BY DEF IInv, TypeOK
<1>2. Phase' /\ Events'
  BY DEF IInv, Phase, Events
<1>3. Fits(tls, sock)'
  BY DEF IInv, Fits
<1>4. WholeReply'
  BY DEF IInv, Events, WholeReply
<1> QED
  BY <1>1, <1>2, <1>3, <1>4 DEF IInv

LEMMA ReceiveKeeps == IInv /\ Receive => IInv'
<1> SUFFICES ASSUME IInv, Receive PROVE IInv'
  OBVIOUS
<1> DEFINE m == Head(sock.outq)
           out == Tail(sock.outq)
           room == sock.room + (IF m.type = "data" THEN m.size ELSE 1)
           answer == Message("answer", 0)
           in == IF m.type = "hello" THEN Append(sock.inq, answer) ELSE sock.inq
           seen == server.seen + m.size
<1>1. sock.inq \in Seq(Messages) /\ sock.outq \in Seq(Messages) /\ sock.room \in Nat
  BY DEF IInv, TypeOK, Socks
<1>2. server.seen \in Nat
  BY DEF IInv, TypeOK, Servers
<1>3. /\ client = "tls" /\ sock.outq # <<>>
      /\ sock' = [sock EXCEPT !.outq = out, !.room = room, !.inq = in]
      /\ server' = [server EXCEPT !.seen = seen]
      /\ UNCHANGED <<client, evasr, eva, event, query, rounds, tls, bev, got>>
  BY DEF Receive
<1>4. m \in Messages /\ out \in Seq(Messages)
  BY <1>1, <1>3, HeadTailProperties
<1>5. m.size \in Nat
  BY <1>4 DEF Messages
<1>6. answer \in Messages /\ answer.size = 0
  BY DEF Message, Messages
<1> HIDE DEF answer
<1>7. in \in Seq(Messages) /\ room \in Nat /\ seen \in Nat
  <2>1. in \in Seq(Messages)
    BY <1>1, <1>6
  <2>2. seen \in Nat
    BY <1>2, <1>5
  <2> HIDE DEF m
  <2>3. room \in Nat
    BY <1>1, <1>5
  <2> QED
    BY <2>1, <2>2, <2>3
<1>8. \A i \in 1..Len(in) : in[i].size <= ReadSize
  <2>1. ReadSize \in Nat /\ \A i \in 1..Len(sock.inq) : sock.inq[i].size <= ReadSize
    BY UpstreamAssumption DEF IInv, Fits
  <2>2. \A i \in 1..Len(in) : in[i] = answer \/ (i \in 1..Len(sock.inq) /\ in[i] = sock.inq[i])
    BY <1>1, <1>6
  <2> QED
    BY <1>6, <2>1, <2>2
<1> HIDE DEF in, out, room, seen
<1>9. sock' \in Socks /\ sock'.inq = in /\ sock'.outq = out
  BY <1>3, <1>4, <1>7 DEF IInv, TypeOK, Socks
<1>10. /\ server' \in Servers /\ server'.reply = server.reply /\ server'.seen = seen
       /\ server'.next = server.next /\ server'.early = server.early
  BY <1>3, <1>7 DEF IInv, TypeOK, Servers
<1>11. ASSUME ~server.early PROVE InStep(tls, sock)'
  <2>1. InStep(tls, sock)
    BY <1>11 DEF IInv
  <2>2. CASE tls.hs = "wait"
    <3>1. sock.inq = <<>> /\ sock.outq = <<Message("hello", 0)>>
      BY <1>3, <2>1, <2>2 DEF InStep
    <3>2. m = Message("hello", 0) /\ out = <<>>
      BY <3>1 DEF out
    <3>3. m.type = "hello" /\ m.size = 0
      BY <3>2 DEF Message
    <3>4. in = <<answer>> /\ seen = server.seen
      BY <1>2, <3>1, <3>3 DEF in, seen
    <3> QED
      BY <1>3, <1>9, <1>10, <2>1, <2>2, <3>2, <3>4 DEF InStep, answer
  <2>3. CASE tls.hs = "done"
    <3>1. /\ \A i \in 1..Len(sock.outq) : sock.outq[i].type # "hello"
          /\ ReplySoFar(sock.inq, got.data)
      BY <2>1, <2>3 DEF InStep
    <3>2. m.type # "hello" /\ \A i \in 1..Len(out) : out[i].type # "hello"
      <4>1. Len(sock.outq) \in Nat \ {0} /\ m = sock.outq[1]
        BY <1>1, <1>3
      <4>2. Len(out) = Len(sock.outq) - 1 /\ \A i \in 1..Len(out) : out[i] = sock.outq[i + 1]
        BY <1>1, <1>3, HeadTailProperties DEF out
      <4> QED
        BY <3>1, <4>1, <4>2
    <3>3. in = sock.inq
      BY <3>2 DEF in
    <3>4. ReplySoFar(sock.inq, got.data)'
      BY <1>3, <1>9, <1>10, <3>1, <3>3 DEF ReplySoFar, ReplyRecord
    <3> QED
      BY <1>3, <1>9, <2>3, <3>2, <3>4 DEF InStep
  <2>4. tls.hs \notin {"hello", "finished"}
    BY <1>3, <2>1 DEF InStep
  <2> QED
    BY <2>2, <2>3, <2>4 DEF IInv, TypeOK, TlsStates
<1> QED
  BY <1>3, <1>8, <1>9, <1>10, <1>11, CapsuleKeeps

LEMMA SendReplyKeeps == IInv /\ SendReply => IInv'
<1> SUFFICES ASSUME IInv, SendReply PROVE IInv'
  OBVIOUS
<1> DEFINE m == ReplyRecord(server.next)
           in == Append(sock.inq, m)
           next == server.next + 1
<1>1. /\ client = "tls" /\ server.seen = Request
      /\ server.next <= Len(server.reply) + 1
      /\ sock' = [sock EXCEPT !.inq = in]
      /\ server' = [server EXCEPT !.next = next]
      /\ UNCHANGED <<client, evasr, eva, event, query, rounds, tls, bev, got>>
  BY DEF SendReply, ReplyRecord
<1>2. sock \in Socks /\ sock.inq \in Seq(Messages) /\ server.next \in Nat \ {0}
  BY DEF IInv, TypeOK, Socks, Servers
<1>3. m \in Messages /\ m.size <= ReadSize
  <2>1. CASE server.next > Len(server.reply)
    BY <2>1, UpstreamAssumption DEF ReplyRecord, Message, Messages
  <2>2. CASE server.next \in 1..Len(server.reply)
    <3>1. server.reply[server.next] \in 1..ReadSize
      BY <2>2, ReplyType, ElementOfSeq
    <3>2. m = Message("data", server.reply[server.next])
      BY <2>2, ReplyType DEF ReplyRecord
    <3> QED
      BY <3>1, <3>2, ReplyType DEF Message, Messages
  <2> QED
    BY <1>2, <2>1, <2>2, ReplyType
<1> HIDE DEF m
<1>4. in \in Seq(Messages) /\ next \in Nat \ {0}
  BY <1>2, <1>3
<1>5. \A i \in 1..Len(in) : in[i] = IF i = Len(sock.inq) + 1 THEN m ELSE sock.inq[i]
  BY <1>2, <1>3
<1>6. Len(in) = Len(sock.inq) + 1 /\ Len(sock.inq) \in Nat /\ Len(in) \in Nat
  BY <1>2, <1>3
<1> HIDE DEF in, next
<1>7. sock' \in Socks /\ sock'.inq = in /\ sock'.outq = sock.outq
  BY <1>1, <1>2, <1>4, Arrives
<1>8. /\ server' \in Servers /\ server'.reply = server.reply /\ server'.next = next
      /\ server'.seen = server.seen /\ server'.early = server.early
  BY <1>1, <1>4 DEF IInv, TypeOK, Servers
<1>9. \A i \in 1..Len(in) : in[i].size <= ReadSize
  BY <1>3, <1>5, <1>6 DEF IInv, Fits
<1>10. ASSUME ~server.early PROVE InStep(tls, sock)'
  <2>1. tls.hs = "done" /\ InStep(tls, sock)
    BY <1>1, <1>10, UpstreamAssumption DEF IInv, InStep
  <2>2. /\ \A i \in 1..Len(sock.outq) : sock.outq[i].type # "hello"
        /\ ReplySoFar(sock.inq, got.data)
    BY <2>1 DEF InStep
  <2>3. /\ Len(got.data) \in Nat /\ Len(got.data) + Len(in) = next - 1
        /\ Len(got.data) + (Len(sock.inq) + 1) = server.next
    <3>1. Len(got.data) \in Nat
      BY ReplyType
    <3>2. Len(got.data) + Len(sock.inq) = server.next - 1
      BY <2>2 DEF ReplySoFar
    <3>3. server.next \in Nat /\ next = server.next + 1
      BY <1>2 DEF next
    <3> DEFINE a == Len(got.data)
               b == Len(sock.inq)
               c == Len(in)
    <3>4. a \in Nat /\ b \in Nat /\ c = b + 1 /\ a + b = server.next - 1
      BY <1>6, <3>1, <3>2
    <3> HIDE DEF a, b, c
    <3>5. a + c = next - 1 /\ a + (b + 1) = server.next
      BY <3>3, <3>4
    <3> QED
      BY <3>1, <3>5 DEF a, b, c
  <2>4. \A i \in 1..Len(in) : in[i] = ReplyRecord(Len(got.data) + i)
    <3> SUFFICES ASSUME NEW i \in 1..Len(in) PROVE in[i] = ReplyRecord(Len(got.data) + i)
      OBVIOUS
    <3>1. CASE i = Len(sock.inq) + 1
      <4>1. Len(got.data) + i = server.next
        BY <2>3, <3>1
      <4> QED
        BY <1>5, <3>1, <4>1 DEF m
    <3>2. CASE i \in 1..Len(sock.inq)
      BY <1>5, <1>6, <2>2, <3>2 DEF ReplySoFar
    <3> QED
      BY <1>6, <3>1, <3>2
  <2>5. ReplySoFar(sock.inq, got.data)'
    BY <1>1, <1>7, <1>8, <2>2, <2>3, <2>4 DEF ReplySoFar, ReplyRecord
  <2> QED
    BY <1>1, <1>7, <2>1, <2>2, <2>5 DEF InStep
<1> QED
  BY <1>1, <1>7, <1>8, <1>9, <1>10, CapsuleKeeps

LEMMA ClosesKeeps == IInv /\ ServerCloses => IInv'
<1> SUFFICES ASSUME IInv, ServerCloses PROVE IInv'
  OBVIOUS
<1> DEFINE m == Message("eof", 0)
           in == Append(sock.inq, m)
           next == Len(server.reply) + 2
<1>1. /\ client = "tls"
      /\ sock' = [sock EXCEPT !.inq = in]
      /\ server' = [server EXCEPT !.next = next, !.early = TRUE]
      /\ UNCHANGED <<client, evasr, eva, event, query, rounds, tls, bev, got>>
  BY DEF ServerCloses
<1>2. sock \in Socks /\ sock.inq \in Seq(Messages) /\ next \in Nat \ {0}
  BY ReplyType DEF IInv, TypeOK, Socks
<1>3. m \in Messages /\ m.size = 0 /\ ReadSize \in Nat
  BY UpstreamAssumption DEF Message, Messages
<1> HIDE DEF m
<1>4. /\ in \in Seq(Messages)
      /\ \A i \in 1..Len(in) : in[i] = m \/ (i \in 1..Len(sock.inq) /\ in[i] = sock.inq[i])
  BY <1>2, <1>3
<1> HIDE DEF in, next
<1>5. sock' \in Socks /\ sock'.inq = in
  BY <1>1, <1>2, <1>4, Arrives
<1>6. server' \in Servers /\ server'.reply = server.reply /\ server'.early = TRUE
  BY <1>1, <1>2 DEF IInv, TypeOK, Servers
<1>7. \A i \in 1..Len(in) : in[i].size <= ReadSize
  BY <1>3, <1>4 DEF IInv, Fits
<1> QED
  BY <1>1, <1>5, <1>6, <1>7, CapsuleKeeps
-----------------------------------------------------------------------------
LEMMA NextIInv == IInv /\ [Next]_vars => IInv'
<1> SUFFICES ASSUME IInv, [Next]_vars PROVE IInv'
  OBVIOUS
<1>1. CASE UNCHANGED vars
  <2>1. UNCHANGED <<client, evasr, eva, event, query, tls, sock, bev, server, got>>
    BY <1>1 DEF vars, tlsvars
  <2>2. TypeOK' /\ Phase' /\ Events' /\ Fits(tls, sock)' /\ WholeReply'
    BY <2>1 DEF IInv, TypeOK, Phase, Events, Fits, WholeReply
  <2>3. (~server.early => InStep(tls, sock))'
    BY <2>1, InStepSame DEF IInv
  <2> QED
    BY <2>2, <2>3 DEF IInv
<1> QED
  BY <1>1, ResolverKeeps, ReadcbKeeps, WritecbKeeps, ConnectedKeeps, ReceiveKeeps,
     SendReplyKeeps, ClosesKeeps DEF Next, Resolver

LEMMA AlwaysIInv == Spec => []IInv
  BY InitIInv, NextIInv, PTL DEF Spec

(* However a request ends, even inside the callback event_asr_dispatch     *)
(* makes, its event_asr is freed once and its query is not touched again.  *)
THEOREM ResolverReleasedOnce == Spec => []ResolverSafe
<1>1. IInv => ResolverSafe
  BY DEF IInv, Phase, ResolverSafe
<1> QED
  BY <1>1, AlwaysIInv, PTL

(* proxy_tls_readcb and proxy_tls_writecb always leave the event in the    *)
(* loop that the exchange needs next, for every size of the records up to  *)
(* IBUF_READ_SIZE, of the request and of the send buffer.                  *)
THEOREM WakeupsKept == Spec => []NoLostWakeup
<1>1. IInv => NoLostWakeup
  BY DEF IInv, Events, Fits, NoLostWakeup
<1> QED
  BY <1>1, AlwaysIInv, PTL

(* proxy_error hears of the end of a reply only after proxy_read has had   *)
(* every record of it, in order.                                           *)
THEOREM RepliesWhole == Spec => []WholeReply
<1>1. IInv => WholeReply
  BY DEF IInv
<1> QED
  BY <1>1, AlwaysIInv, PTL
==============================================================================

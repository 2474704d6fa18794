---------------------------- MODULE Daemon_proofs ----------------------------
(***************************************************************************)
(* The proofs about how the daemon is run: Reload (the configuration of    *)
(* the workers), Accept (the connections a worker admits) and Pidfile (the *)
(* instances that are started).  The three share nothing; each has its own *)
(* invariant, in its own section.                                          *)
(***************************************************************************)
EXTENDS Reload, Accept, Pidfile, SequenceTheorems, TLAPS

-----------------------------------------------------------------------------
(***************************************************************************)
(* For any number of workers and any sequence of files: a worker that      *)
(* accepts connections has one whole configuration, and when nothing is    *)
(* under way to it that is the configuration of the file loaded last.      *)
(*                                                                         *)
(* The argument is about the stream of messages to a worker.  It is made   *)
(* of configurations sent one after the other, each begun by a reset, so   *)
(* that which message may follow which is a relation between neighbours;   *)
(* and the next message to be received is one that fits what the worker    *)
(* has loaded so far.                                                      *)
(***************************************************************************)

(* The first k proxies of file f.                                          *)
Loaded(f, k) == [n \in 1..k |-> <<f, n>>]

(* The message b may come right after a.                                   *)
Follows(a, b) ==
    \/ b.type \in {"CTL_RESET", "CTL_START"}
    \/ /\ b.type = "CFG_SRV"
       /\ a.file = b.file
       /\ a.type \in {"CTL_RESET", "CFG_SRV"}
       /\ b.n = a.n + 1
    \/ /\ b.type = "CFG_SOCK"
       /\ a.file = b.file
       /\ a.type \in {"CTL_RESET", "CFG_SRV"}
       /\ a.n = Files[b.file].proxies
    \/ /\ b.type = "CFG_DONE"
       /\ a.file = b.file
       /\ a.type = "CFG_SOCK"

Linked(q) == \A i \in 1..(Len(q) - 1) : Follows(q[i], q[i + 1])

(* A worker that has the proxies c and the socket s can take message m.    *)
Accepts(c, s, m) ==
    \/ m.type = "CTL_RESET" /\ m.n = 0
    \/ m.type = "CTL_START"
    \/ m.type = "CFG_SRV" /\ ~s.on /\ m.n > 0 /\ c = Loaded(m.file, m.n - 1)
    \/ m.type = "CFG_SOCK" /\ ~s.on /\ c = Loaded(m.file, Files[m.file].proxies)
    \/ /\ m.type = "CFG_DONE"
       /\ s = [file |-> m.file, on |-> FALSE]
       /\ c = Loaded(m.file, Files[m.file].proxies)

(* A reset carries no number.                                              *)
ResetsPlain(q) == \A i \in 1..Len(q) : q[i].type = "CTL_RESET" => q[i].n = 0

Stream(q) == Linked(q) /\ ResetsPlain(q)

Fits(w) == toW[w] # <<>> => Accepts(conf[w], sock[w], toW[w][1])

OnlyStarts(q) == \A j \in 1..Len(q) : q[j].type = "CTL_START"

EndsDone(q, f) ==
    \E i \in 1..Len(q) : /\ q[i] = Msg("CFG_DONE", f, 0)
                         /\ \A j \in (i + 1)..Len(q) : q[j].type = "CTL_START"

(* The stream to w leaves it serving file f.                               *)
EndsWith(w, f) == EndsDone(toW[w], f) \/ (OnlyStarts(toW[w]) /\ Serves(w, f))

IInv ==
    /\ TypeOK
    /\ \A w \in Workers : Stream(toW[w]) /\ Fits(w)
    /\ WholeConfig
    /\ parent = "run" => \A w \in up : EndsWith(w, file)

-----------------------------------------------------------------------------
(* Facts about streams of messages.                                        *)

LEMMA FilesTyped ==
    ASSUME NEW f \in 1..Len(Files)
    PROVE  f \in Nat /\ Files[f].proxies \in Nat /\ Files[f].prefork \in Nat
<1>1. Files \in Seq([prefork : Nat, proxies : Nat])
  BY ReloadAssumption
<1>2. Len(Files) \in Nat
  BY <1>1
<1>3. Files[f] \in [prefork : Nat, proxies : Nat]
  BY <1>1, ElementOfSeq, Zenon
<1> QED
  BY <1>2, <1>3

LEMMA MsgFields ==
    ASSUME NEW t, NEW f, NEW n
    PROVE  Msg(t, f, n).type = t /\ Msg(t, f, n).file = f /\ Msg(t, f, n).n = n
BY DEF Msg

LEMMA MsgIsTyped ==
    ASSUME NEW t \in {"CTL_RESET", "CFG_SRV", "CFG_SOCK", "CFG_DONE", "CTL_START"},
           NEW f \in Nat, NEW n \in Nat
    PROVE  Msg(t, f, n) \in MsgType
BY DEF Msg, MsgType

(* parent_configure sends the proxies in order, the socket, the end.       *)
LEMMA ConfigureIs ==
    ASSUME NEW f \in 1..Len(Files)
    PROVE  LET p == Files[f].proxies
               q == ParentConfigure(f)
           IN  /\ p \in Nat
               /\ q \in Seq(MsgType)
               /\ Len(q) = p + 2
               /\ \A i \in 1..p : q[i] = Msg("CFG_SRV", f, i)
               /\ q[p + 1] = Msg("CFG_SOCK", f, 0)
               /\ q[p + 2] = Msg("CFG_DONE", f, 0)
<1> DEFINE p == Files[f].proxies
           a == [n \in 1..p |-> Msg("CFG_SRV", f, n)]
           b == <<Msg("CFG_SOCK", f, 0), Msg("CFG_DONE", f, 0)>>
<1>1. p \in Nat /\ f \in Nat
  BY FilesTyped
<1>2. \A n \in 1..p : Msg("CFG_SRV", f, n) \in MsgType
  BY <1>1, MsgIsTyped
<1>3. a \in Seq(MsgType) /\ Len(a) = p
  BY <1>1, <1>2
<1>4. /\ b \in Seq(MsgType) /\ Len(b) = 2
      /\ b[1] = Msg("CFG_SOCK", f, 0) /\ b[2] = Msg("CFG_DONE", f, 0)
  BY <1>1, MsgIsTyped
<1>5. \A n \in 1..p : a[n] = Msg("CFG_SRV", f, n)
  OBVIOUS
<1>6. ParentConfigure(f) = a \o b
  BY DEF ParentConfigure
<1> HIDE DEF a, b, p
<1>cat. /\ a \o b \in Seq(MsgType)
        /\ Len(a \o b) = Len(a) + Len(b)
        /\ \A i \in 1..Len(a) + Len(b) : (a \o b)[i] = IF i <= Len(a) THEN a[i] ELSE b[i - Len(a)]
  BY <1>3, <1>4, ConcatProperties, Zenon
<1>7. /\ a \o b \in Seq(MsgType)
      /\ Len(a \o b) = p + 2
      /\ \A i \in 1..p + 2 : (a \o b)[i] = IF i <= p THEN a[i] ELSE b[i - p]
  BY <1>3, <1>4, <1>cat, Zenon
<1>8. /\ \A i \in 1..p : (a \o b)[i] = a[i]
      /\ (a \o b)[p + 1] = b[1]
      /\ (a \o b)[p + 2] = b[2]
  BY <1>1, <1>7
<1> QED
  BY <1>1, <1>4, <1>5, <1>6, <1>7, <1>8, SMTT(20) DEF p

(* With the reset in front, every message fits the one before it.          *)
LEMMA ResetConfigureIs ==
    ASSUME NEW f \in 1..Len(Files)
    PROVE  LET p == Files[f].proxies
               q == ResetConfigure(f)
           IN  /\ p \in Nat
               /\ q \in Seq(MsgType)
               /\ Len(q) = p + 3
               /\ q[1] = Msg("CTL_RESET", f, 0)
               /\ \A i \in 2..(p + 1) : q[i] = Msg("CFG_SRV", f, i - 1)
               /\ q[p + 2] = Msg("CFG_SOCK", f, 0)
               /\ q[p + 3] = Msg("CFG_DONE", f, 0)
<1> DEFINE p == Files[f].proxies
           a == <<Msg("CTL_RESET", f, 0)>>
           b == ParentConfigure(f)
<1>1. p \in Nat /\ f \in Nat
  BY FilesTyped
<1>2. /\ b \in Seq(MsgType)
      /\ Len(b) = p + 2
      /\ \A i \in 1..p : b[i] = Msg("CFG_SRV", f, i)
      /\ b[p + 1] = Msg("CFG_SOCK", f, 0)
      /\ b[p + 2] = Msg("CFG_DONE", f, 0)
  BY ConfigureIs
<1>3. a \in Seq(MsgType) /\ Len(a) = 1 /\ a[1] = Msg("CTL_RESET", f, 0)
  BY <1>1, MsgIsTyped
<1>4. ResetConfigure(f) = a \o b
  BY DEF ResetConfigure
<1> HIDE DEF a, b, p
<1>cat. /\ a \o b \in Seq(MsgType)
        /\ Len(a \o b) = Len(a) + Len(b)
        /\ \A i \in 1..Len(a) + Len(b) : (a \o b)[i] = IF i <= Len(a) THEN a[i] ELSE b[i - Len(a)]
  BY <1>2, <1>3, ConcatProperties, Zenon
<1>5. /\ a \o b \in Seq(MsgType)
      /\ Len(a \o b) = 1 + (p + 2)
      /\ \A i \in 1..1 + (p + 2) : (a \o b)[i] = IF i <= 1 THEN a[i] ELSE b[i - 1]
  BY <1>2, <1>3, <1>cat, Zenon
<1>6. \A i \in 2..(p + 1) : (a \o b)[i] = Msg("CFG_SRV", f, i - 1)
  BY <1>1, <1>2, <1>5
<1>7. (a \o b)[1] = a[1] /\ (a \o b)[p + 2] = b[p + 1] /\ (a \o b)[p + 3] = b[p + 2]
  BY <1>1, <1>5
<1>8. 1 + (p + 2) = p + 3
  BY <1>1
<1> QED
  BY <1>1, <1>2, <1>3, <1>4, <1>5, <1>6, <1>7, <1>8, Zenon DEF p

LEMMA ResetConfigureStream ==
    ASSUME NEW f \in 1..Len(Files)
    PROVE  Stream(ResetConfigure(f))
<1> DEFINE p == Files[f].proxies
           q == ResetConfigure(f)
<1>1. /\ p \in Nat
      /\ q \in Seq(MsgType)
      /\ Len(q) = p + 3
      /\ q[1] = Msg("CTL_RESET", f, 0)
      /\ \A i \in 2..(p + 1) : q[i] = Msg("CFG_SRV", f, i - 1)
      /\ q[p + 2] = Msg("CFG_SOCK", f, 0)
      /\ q[p + 3] = Msg("CFG_DONE", f, 0)
  BY ResetConfigureIs
<1> HIDE DEF q, p
<1>fields. /\ q[1].type = "CTL_RESET" /\ q[1].file = f /\ q[1].n = 0
           /\ \A i \in 2..(p + 1) : q[i].type = "CFG_SRV" /\ q[i].file = f /\ q[i].n = i - 1
           /\ q[p + 2].type = "CFG_SOCK" /\ q[p + 2].file = f
           /\ q[p + 3].type = "CFG_DONE" /\ q[p + 3].file = f
  BY <1>1, MsgFields
<1>2. ASSUME NEW i \in 1..(p + 2) PROVE Follows(q[i], q[i + 1])
  <2>1. CASE i <= p
    <3>0. i + 1 \in 2..(p + 1) /\ (i + 1) - 1 = i
      BY <1>1, <2>1
    <3>1. q[i + 1].type = "CFG_SRV" /\ q[i + 1].file = f /\ q[i + 1].n = i
      BY <1>fields, <3>0, Zenon
    <3>2. i = 1 \/ i \in 2..(p + 1)
      BY <1>1, <2>1
    <3>3. q[i].type \in {"CTL_RESET", "CFG_SRV"} /\ q[i].file = f /\ q[i].n = i - 1
      BY <1>fields, <3>2
    <3> QED
      BY <1>1, <3>1, <3>3 DEF Follows
  <2>2. CASE i = p + 1
    <3>0. i + 1 = p + 2
      BY <1>1, <2>2
    <3>1. q[i + 1].type = "CFG_SOCK" /\ q[i + 1].file = f
      BY <1>fields, <3>0, Zenon
    <3>2. (i = 1 /\ p = 0) \/ (i \in 2..(p + 1) /\ i - 1 = p)
      BY <1>1, <2>2
    <3>3. q[i].type \in {"CTL_RESET", "CFG_SRV"} /\ q[i].file = f /\ q[i].n = p
      BY <1>fields, <3>2
    <3> QED
      BY <3>1, <3>3 DEF Follows, p
  <2>3. CASE i = p + 2
    <3>0. i + 1 = p + 3
      BY <1>1, <2>3
    <3>1. q[i + 1].type = "CFG_DONE" /\ q[i + 1].file = f
      BY <1>fields, <3>0, Zenon
    <3>2. q[i].type = "CFG_SOCK" /\ q[i].file = f
      BY <1>fields, <2>3, Zenon
    <3> QED
      BY <3>1, <3>2 DEF Follows
  <2> QED
    BY <1>1, <2>1, <2>2, <2>3
<1>3. ASSUME NEW i \in 1..Len(q), q[i].type = "CTL_RESET" PROVE q[i].n = 0
  <2>1. i = 1 \/ i \in 2..(p + 1) \/ i = p + 2 \/ i = p + 3
    BY <1>1
  <2>2. "CFG_SRV" # "CTL_RESET" /\ "CFG_SOCK" # "CTL_RESET" /\ "CFG_DONE" # "CTL_RESET"
    OBVIOUS
  <2>3. i = 1
    BY <1>fields, <1>3, <2>1, <2>2, Zenon
  <2> QED
    BY <1>fields, <2>3, Zenon
<1>4. Len(q) - 1 = p + 2
  BY <1>1
<1> QED
  BY <1>2, <1>3, <1>4 DEF Stream, Linked, ResetsPlain, q

(* The same for the first configuration, which no reset precedes.          *)
LEMMA ConfigureStream == Stream(ParentConfigure(1))
<1> DEFINE p == Files[1].proxies
           q == ParentConfigure(1)
<1>1. /\ p \in Nat
      /\ q \in Seq(MsgType)
      /\ Len(q) = p + 2
      /\ \A i \in 1..p : q[i] = Msg("CFG_SRV", 1, i)
      /\ q[p + 1] = Msg("CFG_SOCK", 1, 0)
      /\ q[p + 2] = Msg("CFG_DONE", 1, 0)
  BY ConfigureIs, ReloadAssumption
<1> HIDE DEF q
<1>fields. /\ \A i \in 1..p : q[i].type = "CFG_SRV" /\ q[i].file = 1 /\ q[i].n = i
           /\ q[p + 1].type = "CFG_SOCK" /\ q[p + 1].file = 1
           /\ q[p + 2].type = "CFG_DONE" /\ q[p + 2].file = 1
  BY <1>1, MsgFields
<1> HIDE DEF p
<1>2. ASSUME NEW i \in 1..(p + 1) PROVE Follows(q[i], q[i + 1])
  <2>1. CASE i < p
    <3>1. q[i + 1].type = "CFG_SRV" /\ q[i + 1].file = 1 /\ q[i + 1].n = i + 1
      BY <1>1, <1>fields, <2>1
    <3>2. q[i].type = "CFG_SRV" /\ q[i].file = 1 /\ q[i].n = i
      BY <1>1, <1>fields, <2>1
    <3> QED
      BY <1>1, <3>1, <3>2 DEF Follows
  <2>2. CASE i = p
    <3>1. q[i + 1].type = "CFG_SOCK" /\ q[i + 1].file = 1
      BY <1>1, <1>fields, <2>2
    <3>2. q[i].type = "CFG_SRV" /\ q[i].file = 1 /\ q[i].n = p
      BY <1>1, <1>fields, <2>2
    <3> QED
      BY <3>1, <3>2 DEF Follows, p
  <2>3. CASE i = p + 1
    <3>1. q[i + 1].type = "CFG_DONE" /\ q[i + 1].file = 1
      BY <1>1, <1>fields, <2>3
    <3>2. q[i].type = "CFG_SOCK" /\ q[i].file = 1
      BY <1>1, <1>fields, <2>3
    <3> QED
      BY <3>1, <3>2 DEF Follows
  <2> QED
    BY <1>1, <2>1, <2>2, <2>3
<1>3. ASSUME NEW i \in 1..Len(q), q[i].type = "CTL_RESET" PROVE q[i].n = 0
  <2>1. i \in 1..p \/ i = p + 1 \/ i = p + 2
    BY <1>1
  <2> QED
    BY <1>fields, <1>3, <2>1
<1>4. Len(q) - 1 = p + 1
  BY <1>1
<1> QED
  BY <1>2, <1>3, <1>4 DEF Stream, Linked, ResetsPlain, q

(* A stream may be continued by one that begins with a reset or a start.   *)
LEMMA StreamConcat ==
    ASSUME NEW q \in Seq(MsgType), NEW r \in Seq(MsgType), Stream(q), Stream(r),
           r # <<>>, r[1].type \in {"CTL_RESET", "CTL_START"}
    PROVE  Stream(q \o r)
<1> DEFINE s == q \o r
<1>1. /\ s \in Seq(MsgType)
      /\ Len(s) = Len(q) + Len(r)
      /\ \A i \in 1..Len(q) : s[i] = q[i]
      /\ \A i \in (Len(q) + 1)..Len(s) : s[i] = r[i - Len(q)]
      /\ Len(q) \in Nat /\ Len(r) \in Nat
  OBVIOUS
<1> HIDE DEF s
<1>2. ASSUME NEW i \in 1..(Len(s) - 1) PROVE Follows(s[i], s[i + 1])
  <2>1. CASE i < Len(q)
    <3>1. i \in 1..(Len(q) - 1) /\ i \in 1..Len(q) /\ i + 1 \in 1..Len(q)
      BY <1>1, <2>1
    <3>2. Follows(q[i], q[i + 1])
      BY <3>1, Zenon DEF Stream, Linked
    <3> QED
      BY <1>1, <3>1, <3>2, Zenon
  <2>2. CASE i = Len(q)
    BY <1>1, <2>2 DEF Follows
  <2>3. CASE i > Len(q)
    <3> DEFINE k == i - Len(q)
    <3>1. k \in 1..(Len(r) - 1) /\ i \in (Len(q) + 1)..Len(s) /\ i + 1 \in (Len(q) + 1)..Len(s)
      BY <1>1, <2>3
    <3>2. s[i] = r[k] /\ s[i + 1] = r[(i + 1) - Len(q)]
      BY <1>1, <3>1
    <3>3. (i + 1) - Len(q) = k + 1
      BY <1>1
    <3> HIDE DEF k
    <3> QED
      BY <3>1, <3>2, <3>3, Zenon DEF Stream, Linked
  <2> QED
    BY <1>1, <2>1, <2>2, <2>3
<1>3. ASSUME NEW i \in 1..Len(s), s[i].type = "CTL_RESET" PROVE s[i].n = 0
  <2>1. CASE i \in 1..Len(q)
    BY <1>1, <1>3, <2>1, Zenon DEF Stream, ResetsPlain
  <2>2. CASE i \in (Len(q) + 1)..Len(s)
    <3>1. i - Len(q) \in 1..Len(r)
      BY <1>1, <2>2
    <3> QED
      BY <1>1, <1>3, <2>2, <3>1, Zenon DEF Stream, ResetsPlain
  <2> QED
    BY <1>1, <2>1, <2>2
<1> QED
  BY <1>2, <1>3 DEF Stream, Linked, ResetsPlain, s

(* What is left of a stream when its end is cut off, or its head taken, is *)
(* a stream.                                                               *)
LEMMA StreamPrefix ==
    ASSUME NEW q \in Seq(MsgType), Stream(q), NEW r \in Prefixes(q)
    PROVE  /\ r \in Seq(MsgType)
           /\ Stream(r)
           /\ r # <<>> => q # <<>> /\ r[1] = q[1]
<1>1. PICK n \in 0..Len(q) : r = SubSeq(q, 1, n)
  BY DEF Prefixes
<1>2. r \in Seq(MsgType)
  BY <1>1
<1>3. Len(r) = n
  BY <1>1
<1>4. \A i \in 1..n : r[i] = q[i]
  BY <1>1
<1>5. Len(q) \in Nat
  OBVIOUS
<1>6. r # <<>> => q # <<>> /\ r[1] = q[1]
  BY <1>2, <1>3, <1>4
<1>7. ASSUME NEW i \in 1..(Len(r) - 1) PROVE Follows(r[i], r[i + 1])
  <2>1. i \in 1..(Len(q) - 1) /\ i \in 1..n /\ i + 1 \in 1..n
    BY <1>3, <1>5
  <2>2. r[i] = q[i] /\ r[i + 1] = q[i + 1]
    BY <1>4, <2>1
  <2> QED
    BY <2>1, <2>2, Zenon DEF Stream, Linked
<1>8. ResetsPlain(r)
  BY <1>3, <1>4, <1>5 DEF Stream, ResetsPlain
<1> QED
  BY <1>2, <1>6, <1>7, <1>8 DEF Stream, Linked

LEMMA StreamTail ==
    ASSUME NEW q \in Seq(MsgType), Stream(q), q # <<>>
    PROVE  /\ Tail(q) \in Seq(MsgType)
           /\ Stream(Tail(q))
           /\ Tail(q) # <<>> => Follows(q[1], Tail(q)[1])
<1>1. /\ Tail(q) \in Seq(MsgType)
      /\ Len(Tail(q)) = Len(q) - 1
      /\ \A i \in 1..(Len(q) - 1) : Tail(q)[i] = q[i + 1]
  OBVIOUS
<1> QED
  BY <1>1 DEF Stream, Linked, ResetsPlain

-----------------------------------------------------------------------------
(* What receiving a message does to a worker.                              *)

(* config_getproxy appends the next proxy of the file.                     *)
LEMMA LoadedAppend ==
    ASSUME NEW f \in Nat, NEW k \in Nat \ {0}
    PROVE  Append(Loaded(f, k - 1), <<f, k>>) = Loaded(f, k)
<1> DEFINE a == Loaded(f, k - 1)
           b == Loaded(f, k)
<1>1. a \in Seq(Nat \X Nat) /\ Len(a) = k - 1
  BY DEF Loaded
<1>2. b \in Seq(Nat \X Nat) /\ Len(b) = k
  BY DEF Loaded
<1>3. \A i \in 1..(k - 1) : a[i] = b[i]
  BY DEF Loaded
<1>4. b[k] = <<f, k>>
  BY DEF Loaded
<1>5. <<f, k>> \in Nat \X Nat
  OBVIOUS
<1> HIDE DEF a, b
<1>6. /\ Append(a, <<f, k>>) \in Seq(Nat \X Nat)
      /\ Len(Append(a, <<f, k>>)) = Len(a) + 1
      /\ \A i \in 1..Len(a) : Append(a, <<f, k>>)[i] = a[i]
      /\ Append(a, <<f, k>>)[Len(a) + 1] = <<f, k>>
  BY <1>1, <1>5, AppendProperties
<1>7. Len(Append(a, <<f, k>>)) = k
  BY <1>1, <1>6
<1>8. \A i \in 1..k : Append(a, <<f, k>>)[i] = b[i]
  <2> SUFFICES ASSUME NEW i \in 1..k PROVE Append(a, <<f, k>>)[i] = b[i]
    BY Zenon
  <2>1. CASE i = k
    <3>1. Len(a) + 1 = k
      BY <1>1
    <3> QED
      BY <1>4, <1>6, <2>1, <3>1, Zenon
  <2>2. CASE i \in 1..(k - 1)
    <3>1. i \in 1..Len(a)
      BY <1>1, <2>2
    <3> QED
      BY <1>3, <1>6, <2>2, <3>1
  <2>3. i = k \/ i \in 1..(k - 1)
    OBVIOUS
  <2> QED
    BY <2>1, <2>2, <2>3, Zenon
<1>9. Append(a, <<f, k>>) = b
  BY <1>2, <1>6, <1>7, <1>8, SeqEqual, Zenon
<1> QED
  BY <1>9 DEF a, b

(* The message that comes after one the worker took fits what it has then. *)
LEMMA AcceptsNext ==
    ASSUME NEW c, NEW s, NEW c1, NEW s1, NEW m \in MsgType, NEW m1 \in MsgType,
           Accepts(c, s, m),
           Follows(m, m1),
           m1.type = "CTL_RESET" => m1.n = 0,
           m.type = "CTL_RESET" => c1 = <<>> /\ s1 = NoSock,
           m.type = "CFG_SRV" => c1 = Append(c, <<m.file, m.n>>) /\ s1 = s,
           m.type = "CFG_SOCK" => c1 = c /\ s1 = [file |-> m.file, on |-> FALSE]
    PROVE  Accepts(c1, s1, m1)
<1> USE DEF MsgType
<1>1. CASE m1.type \in {"CTL_RESET", "CTL_START"}
  BY <1>1 DEF Accepts
<1>2. CASE m.type = "CTL_RESET" /\ m1.type \in {"CFG_SRV", "CFG_SOCK"}
  <2>1. m.n = 0
    BY <1>2 DEF Accepts
  <2>2. Loaded(m1.file, 0) = <<>>
    BY DEF Loaded
  <2>3. ~NoSock.on
    BY DEF NoSock
  <2>4. CASE m1.type = "CFG_SRV"
    <3>1. m1.n = 0 + 1
      BY <2>1, <2>4 DEF Follows
    <3>2. m1.n > 0 /\ m1.n - 1 = 0
      BY <3>1
    <3> QED
      BY <1>2, <2>2, <2>3, <2>4, <3>2 DEF Accepts
  <2>5. CASE m1.type = "CFG_SOCK"
    <3>1. Files[m1.file].proxies = 0
      BY <2>1, <2>5 DEF Follows
    <3> QED
      BY <1>2, <2>2, <2>3, <2>5, <3>1 DEF Accepts
  <2> QED
    BY <1>2, <2>4, <2>5
<1>3. CASE m.type = "CFG_SRV" /\ m1.type \in {"CFG_SRV", "CFG_SOCK"}
  <2>1. ~s.on /\ m.n \in Nat \ {0} /\ c = Loaded(m.file, m.n - 1)
    BY <1>3 DEF Accepts
  <2>2. c1 = Loaded(m.file, m.n) /\ s1 = s
    BY <1>3, <2>1, LoadedAppend, Zenon
  <2>3. m.file = m1.file
    BY <1>3 DEF Follows
  <2>4. CASE m1.type = "CFG_SRV"
    <3>1. m1.n = m.n + 1
      BY <2>4 DEF Follows
    <3>2. m1.n > 0 /\ m1.n - 1 = m.n
      BY <2>1, <3>1
    <3> QED
      BY <2>1, <2>2, <2>3, <2>4, <3>2 DEF Accepts
  <2>5. CASE m1.type = "CFG_SOCK"
    <3>1. Files[m1.file].proxies = m.n
      BY <2>5 DEF Follows
    <3> QED
      BY <2>1, <2>2, <2>3, <2>5, <3>1 DEF Accepts
  <2> QED
    BY <1>3, <2>4, <2>5
<1>4. CASE m.type = "CFG_SOCK" /\ m1.type = "CFG_DONE"
  <2>1. c1 = Loaded(m.file, Files[m.file].proxies) /\ s1 = [file |-> m.file, on |-> FALSE]
    BY <1>4 DEF Accepts
  <2>2. m.file = m1.file
    BY <1>4 DEF Follows
  <2> QED
    BY <1>4, <2>1, <2>2 DEF Accepts
<1> QED
  BY <1>1, <1>2, <1>3, <1>4 DEF Follows

(* A worker that could take the head of a stream can take the head of the  *)
(* stream continued by a reset or a start.                                 *)
LEMMA AcceptsConcat ==
    ASSUME NEW q \in Seq(MsgType), NEW r \in Seq(MsgType), NEW c, NEW s,
           q # <<>> => Accepts(c, s, q[1]),
           Stream(r), r # <<>>, r[1].type \in {"CTL_RESET", "CTL_START"}
    PROVE  Accepts(c, s, (q \o r)[1])
<1>1. 1 \in 1..Len(r)
  OBVIOUS
<1>2. Accepts(c, s, r[1])
  BY <1>1 DEF Accepts, Stream, ResetsPlain
<1>3. CASE q = <<>>
  <2>1. q \o r = r
    BY <1>3
  <2> QED
    BY <1>2, <2>1
<1>4. CASE q # <<>>
  <2>1. (q \o r)[1] = q[1]
    BY <1>4
  <2> QED
    BY <1>4, <2>1
<1> QED
  BY <1>3, <1>4

-----------------------------------------------------------------------------
(* Where a stream leads.                                                   *)

LEMMA EndsConcat ==
    ASSUME NEW q \in Seq(MsgType), NEW r \in Seq(MsgType), NEW f, EndsDone(r, f)
    PROVE  EndsDone(q \o r, f)
<1> DEFINE s == q \o r
<1>1. /\ Len(s) = Len(q) + Len(r)
      /\ \A i \in (Len(q) + 1)..Len(s) : s[i] = r[i - Len(q)]
      /\ Len(q) \in Nat /\ Len(r) \in Nat
  OBVIOUS
<1> HIDE DEF s
<1>2. PICK i \in 1..Len(r) : /\ r[i] = Msg("CFG_DONE", f, 0)
                             /\ \A j \in (i + 1)..Len(r) : r[j].type = "CTL_START"
  BY DEF EndsDone
<1>3. Len(q) + i \in (Len(q) + 1)..Len(s) /\ (Len(q) + i) - Len(q) = i
  BY <1>1
<1>4. s[Len(q) + i] = Msg("CFG_DONE", f, 0)
  BY <1>1, <1>2, <1>3
<1>5. ASSUME NEW j \in (Len(q) + i + 1)..Len(s) PROVE s[j].type = "CTL_START"
  <2>1. j \in (Len(q) + 1)..Len(s) /\ j - Len(q) \in (i + 1)..Len(r)
    BY <1>1
  <2> QED
    BY <1>1, <1>2, <2>1
<1>6. Len(q) + i \in 1..Len(s)
  BY <1>1
<1>7. EndsDone(s, f)
  BY <1>4, <1>5, <1>6 DEF EndsDone
<1> QED
  BY <1>7 DEF s

LEMMA EndsStart ==
    ASSUME NEW q \in Seq(MsgType), NEW f, NEW m \in MsgType, m.type = "CTL_START"
    PROVE  /\ EndsDone(q, f) => EndsDone(Append(q, m), f)
           /\ OnlyStarts(q) => OnlyStarts(Append(q, m))
<1> DEFINE s == Append(q, m)
<1>1. /\ Len(s) = Len(q) + 1
      /\ \A i \in 1..Len(q) : s[i] = q[i]
      /\ s[Len(q) + 1] = m
  BY AppendProperties
<1>2. Len(q) \in Nat
  OBVIOUS
<1> HIDE DEF s
<1>3. ASSUME EndsDone(q, f) PROVE EndsDone(s, f)
  <2>1. PICK i \in 1..Len(q) : /\ q[i] = Msg("CFG_DONE", f, 0)
                               /\ \A j \in (i + 1)..Len(q) : q[j].type = "CTL_START"
    BY <1>3 DEF EndsDone
  <2>2. i \in 1..Len(s) /\ s[i] = Msg("CFG_DONE", f, 0)
    BY <1>1, <1>2, <2>1
  <2>3. ASSUME NEW j \in (i + 1)..Len(s) PROVE s[j].type = "CTL_START"
    <3>1. (j \in (i + 1)..Len(q) /\ j \in 1..Len(q)) \/ j = Len(q) + 1
      BY <1>1, <1>2
    <3> QED
      BY <1>1, <2>1, <3>1
  <2> QED
    BY <2>2, <2>3 DEF EndsDone
<1>4. ASSUME OnlyStarts(q) PROVE OnlyStarts(s)
  <2> SUFFICES ASSUME NEW j \in 1..Len(s) PROVE s[j].type = "CTL_START"
    BY DEF OnlyStarts
  <2>1. j \in 1..Len(q) \/ j = Len(q) + 1
    BY <1>1, <1>2
  <2> QED
    BY <1>1, <1>4, <2>1 DEF OnlyStarts
<1> QED
  BY <1>3, <1>4 DEF s

LEMMA EndsTail ==
    ASSUME NEW q \in Seq(MsgType), q # <<>>, NEW f
    PROVE  /\ EndsDone(q, f) => \/ EndsDone(Tail(q), f)
                                \/ q[1] = Msg("CFG_DONE", f, 0) /\ OnlyStarts(Tail(q))
           /\ OnlyStarts(q) => q[1].type = "CTL_START" /\ OnlyStarts(Tail(q))
<1> DEFINE s == Tail(q)
<1>1. /\ Len(s) = Len(q) - 1
      /\ \A i \in 1..Len(s) : s[i] = q[i + 1]
  BY HeadTailProperties
<1>2. Len(q) \in Nat /\ Len(q) > 0
  OBVIOUS
<1> HIDE DEF s
<1>3. ASSUME EndsDone(q, f)
      PROVE  EndsDone(s, f) \/ (q[1] = Msg("CFG_DONE", f, 0) /\ OnlyStarts(s))
  <2>1. PICK i \in 1..Len(q) : /\ q[i] = Msg("CFG_DONE", f, 0)
                               /\ \A j \in (i + 1)..Len(q) : q[j].type = "CTL_START"
    BY <1>3 DEF EndsDone
  <2>2. ASSUME NEW j \in 1..Len(s), j >= i PROVE s[j].type = "CTL_START"
    <3>1. j + 1 \in (i + 1)..Len(q)
      BY <1>1, <1>2, <2>2
    <3> QED
      BY <1>1, <2>1, <3>1
  <2>3. CASE i = 1
    <3>1. \A j \in 1..Len(s) : j >= i
      BY <2>3
    <3> QED
      BY <2>1, <2>2, <2>3, <3>1 DEF OnlyStarts
  <2>4. CASE i > 1
    <3>1. i - 1 \in 1..Len(s) /\ (i - 1) + 1 = i
      BY <1>1, <1>2, <2>4
    <3>2. s[i - 1] = Msg("CFG_DONE", f, 0)
      BY <1>1, <2>1, <3>1
    <3>3. \A j \in (i - 1 + 1)..Len(s) : j \in 1..Len(s) /\ j >= i
      BY <1>1, <1>2, <2>4
    <3> QED
      BY <2>2, <3>1, <3>2, <3>3 DEF EndsDone
  <2> QED
    BY <2>3, <2>4
<1>4. ASSUME OnlyStarts(q) PROVE q[1].type = "CTL_START" /\ OnlyStarts(s)
  <2>1. 1 \in 1..Len(q) /\ \A j \in 1..Len(s) : j + 1 \in 1..Len(q)
    BY <1>1, <1>2
  <2> QED
    BY <1>1, <1>4, <2>1 DEF OnlyStarts
<1> QED
  BY <1>3, <1>4 DEF s

-----------------------------------------------------------------------------
(* Type correctness.                                                       *)

LEMMA InitTypeOK == Init => TypeOK
<1> SUFFICES ASSUME Init PROVE TypeOK
  OBVIOUS
<1>1. 1 \in 1..Len(Files)
  BY ReloadAssumption
<1>2. ParentConfigure(1) \in Seq(MsgType)
  BY <1>1, ConfigureIs
<1>3. Files[1].prefork \in Nat
  BY <1>1, FilesTyped
<1>4. NoSock \in [file : Nat, on : BOOLEAN]
  BY DEF NoSock
<1>5. toW \in [Workers -> Seq(MsgType)] /\ toP \in [Workers -> Seq(MsgType)]
  BY <1>2 DEF Init
<1>6. conf \in [Workers -> Seq(Nat \X Nat)] /\ sock \in [Workers -> [file : Nat, on : BOOLEAN]]
  BY <1>4 DEF Init
<1> QED
  BY <1>1, <1>3, <1>5, <1>6 DEF Init, TypeOK

(* What the pipes still deliver are messages.                              *)
LEMMA CutsTyped ==
    ASSUME TypeOK, NEW c \in Cuts
    PROVE  c \in [Workers -> Seq(MsgType)] /\ \A w \in Workers : c[w] \in Prefixes(toW[w])
<1>1. \A w \in Workers : c[w] \in Prefixes(toW[w])
  BY DEF Cuts
<1>2. ASSUME NEW w \in Workers PROVE c[w] \in Seq(MsgType)
  <2>1. PICK n \in 0..Len(toW[w]) : c[w] = SubSeq(toW[w], 1, n)
    BY <1>1 DEF Prefixes
  <2>2. toW[w] \in Seq(MsgType)
    BY DEF TypeOK
  <2> QED
    BY <2>1, <2>2
<1>3. c = [w \in Workers |-> c[w]]
  BY DEF Cuts
<1> QED
  BY <1>1, <1>2, <1>3

LEMMA NextTypeOK == TypeOK /\ [Next]_vars => TypeOK'
<1> SUFFICES ASSUME TypeOK, [Next]_vars PROVE TypeOK'
  OBVIOUS
<1>1. CASE ParentReload
  <2>1. CASE UNCHANGED <<file, reload, toW>>
    BY <1>1, <2>1 DEF ParentReload, TypeOK
  <2>2. CASE /\ file < Len(Files)
             /\ file' = file + 1
             /\ reload' = Files[file + 1].prefork
             /\ toW' = [w \in Workers |-> toW[w] \o ResetConfigure(file + 1)]
    <3>1. Len(Files) \in Nat
      BY ReloadAssumption
    <3>2. file' \in 1..Len(Files)
      BY <2>2, <3>1 DEF TypeOK
    <3>3. ResetConfigure(file + 1) \in Seq(MsgType) /\ reload' \in Nat
      BY <2>2, <3>2, ResetConfigureIs, FilesTyped
    <3>4. toW' \in [Workers -> Seq(MsgType)]
      BY <2>2, <3>3 DEF TypeOK
    <3> QED
      BY <1>1, <3>2, <3>3, <3>4 DEF ParentReload, TypeOK
  <2> QED
    BY <1>1, <2>1, <2>2, Zenon DEF ParentReload
<1>2. CASE ParentShutdown
  <2>1. toW' \in [Workers -> Seq(MsgType)]
    BY <1>2, CutsTyped DEF ParentShutdown
  <2> QED
    BY <1>2, <2>1 DEF ParentShutdown, TypeOK
<1>3. CASE ParentExit
  BY <1>3 DEF ParentExit, TypeOK
<1>4. CASE ParentFatal
  <2>1. PICK c \in Cuts, new \in SUBSET up :
          /\ new # {} => "HUP" \in sigs /\ file < Len(Files)
          /\ toW' = [w \in Workers |->
                IF w \in new
                THEN toW[w] \o SubSeq(ResetConfigure(file + 1), 1, 2 + Files[file + 1].proxies)
                ELSE c[w]]
    BY <1>4, Zenon DEF ParentFatal
  <2>2. c \in [Workers -> Seq(MsgType)]
    BY CutsTyped
  <2>3. ASSUME NEW w \in new
        PROVE  toW[w] \o SubSeq(ResetConfigure(file + 1), 1, 2 + Files[file + 1].proxies) \in Seq(MsgType)
    <3>1. file + 1 \in 1..Len(Files)
      BY <2>1, <2>3, ReloadAssumption DEF TypeOK
    <3> DEFINE r == ResetConfigure(file + 1)
               n == 2 + Files[file + 1].proxies
    <3>2. r \in Seq(MsgType) /\ n \in 0..Len(r)
      BY <3>1, ResetConfigureIs
    <3> HIDE DEF r, n
    <3>3. SubSeq(r, 1, n) \in Seq(MsgType)
      BY <3>2
    <3>4. toW[w] \in Seq(MsgType)
      BY DEF TypeOK
    <3>5. toW[w] \o SubSeq(r, 1, n) \in Seq(MsgType)
      BY <3>3, <3>4
    <3> QED
      BY <3>5 DEF r, n
  <2>4. toW' \in [Workers -> Seq(MsgType)]
    BY <2>1, <2>2, <2>3
  <2> QED
    BY <1>4, <2>4 DEF ParentFatal, TypeOK
<1>5. ASSUME NEW s \in {"HUP", "TERM"}, Signal(s) PROVE TypeOK'
  BY <1>5 DEF Signal, TypeOK
<1>6. ASSUME NEW w \in Workers, ParentConfigureDone(w) PROVE TypeOK'
  <2>1. Msg("CTL_START", 0, 0) \in MsgType
    BY MsgIsTyped
  <2>2. toW' \in [Workers -> Seq(MsgType)]
    BY <1>6, <2>1 DEF ParentConfigureDone, TypeOK
  <2>3. toP[w] \in Seq(MsgType) /\ toP[w] # <<>>
    BY <1>6 DEF ParentConfigureDone, TypeOK
  <2>4. Tail(toP[w]) \in Seq(MsgType)
    BY <2>3
  <2>5. toP' \in [Workers -> Seq(MsgType)]
    BY <1>6, <2>4 DEF ParentConfigureDone, TypeOK
  <2>6. reload' \in Nat
    BY <1>6 DEF ParentConfigureDone, TypeOK
  <2> QED
    BY <1>6, <2>2, <2>5, <2>6, Zenon DEF ParentConfigureDone, TypeOK
<1>7. ASSUME NEW w \in Workers, WorkerReceive(w) PROVE TypeOK'
  <2> DEFINE m == Head(toW[w])
  <2>1. toW[w] \in Seq(MsgType) /\ toW[w] # <<>>
    BY <1>7 DEF WorkerReceive, TypeOK
  <2>2. m \in MsgType /\ Tail(toW[w]) \in Seq(MsgType)
    BY <2>1
  <2>3. ProxyDispatchParent(w, m)
    BY <1>7 DEF WorkerReceive
  <2> HIDE DEF m
  <2>4. m.file \in Nat /\ m.n \in Nat
    BY <2>2 DEF MsgType
  <2>5. toW' \in [Workers -> Seq(MsgType)]
    BY <1>7, <2>2 DEF WorkerReceive, TypeOK
  <2>6. toP' \in [Workers -> Seq(MsgType)]
    BY <2>2, <2>3 DEF ProxyDispatchParent, TypeOK
  <2>7. conf' \in [Workers -> Seq(Nat \X Nat)]
    BY <2>3, <2>4 DEF ProxyDispatchParent, TypeOK
  <2>8. sock' \in [Workers -> [file : Nat, on : BOOLEAN]]
    BY <2>3, <2>4 DEF ProxyDispatchParent, TypeOK, NoSock
  <2> QED
    BY <1>7, <2>5, <2>6, <2>7, <2>8 DEF WorkerReceive, TypeOK
<1>8. ASSUME NEW w \in Workers, WorkerExits(w) PROVE TypeOK'
  BY <1>8 DEF WorkerExits, TypeOK, NoSock
<1>9. CASE UNCHANGED vars
  BY <1>9 DEF vars, TypeOK
<1> QED
  BY <1>1, <1>2, <1>3, <1>4, <1>5, <1>6, <1>7, <1>8, <1>9 DEF Next, WorkerEof, WorkerDies

-----------------------------------------------------------------------------
(* The invariant.                                                          *)

LEMMA InitIInv == Init => IInv
<1> SUFFICES ASSUME Init PROVE IInv
  OBVIOUS
<1> DEFINE q == ParentConfigure(1)
           p == Files[1].proxies
<1>1. 1 \in 1..Len(Files)
  BY ReloadAssumption
<1>2. /\ p \in Nat
      /\ q \in Seq(MsgType)
      /\ Len(q) = p + 2
      /\ \A i \in 1..p : q[i] = Msg("CFG_SRV", 1, i)
      /\ q[p + 1] = Msg("CFG_SOCK", 1, 0)
      /\ q[p + 2] = Msg("CFG_DONE", 1, 0)
  BY <1>1, ConfigureIs
<1> HIDE DEF q
<1>3. Loaded(1, 0) = <<>> /\ ~NoSock.on
  BY DEF Loaded, NoSock
<1>4. Accepts(<<>>, NoSock, q[1])
  <2>1. CASE p = 0
    <3>1. q[1].type = "CFG_SOCK" /\ q[1].file = 1
      BY <1>2, <2>1, MsgFields
    <3> QED
      BY <1>3, <2>1, <3>1 DEF Accepts
  <2>2. CASE p > 0
    <3>1. q[1] = Msg("CFG_SRV", 1, 1)
      BY <1>2, <2>2
    <3>2. q[1].type = "CFG_SRV" /\ q[1].file = 1 /\ q[1].n = 1
      BY <3>1, MsgFields
    <3> QED
      BY <1>3, <3>2 DEF Accepts
  <2> QED
    BY <1>2, <2>1, <2>2
<1>5. EndsDone(q, 1)
  <2>1. p + 2 \in 1..Len(q) /\ (p + 2 + 1)..Len(q) = {}
    BY <1>2
  <2> QED
    BY <1>2, <2>1 DEF EndsDone
<1>6. ASSUME NEW w \in Workers PROVE Stream(toW[w]) /\ Fits(w) /\ EndsWith(w, file)
  <2>1. toW[w] = q /\ conf[w] = <<>> /\ sock[w] = NoSock /\ file = 1
    BY DEF Init, q
  <2> QED
    BY <1>4, <1>5, <2>1, ConfigureStream DEF Fits, EndsWith, q
<1>7. WholeConfig
  BY <1>3 DEF WholeConfig, Init
<1> QED
  BY <1>6, <1>7, InitTypeOK DEF IInv, Init

(* What follows says of one worker at a time that a step keeps its part of *)
(* the invariant.                                                          *)
Good(w) ==
    /\ Stream(toW[w])
    /\ Fits(w)
    /\ sock[w].on => conf[w] = Declared(sock[w].file)
    /\ parent = "run" /\ w \in up => EndsWith(w, file)

LEMMA IInvIs == IInv <=> TypeOK /\ \A w \in Workers : Good(w)
<1>1. TypeOK => up \subseteq Workers
  BY DEF TypeOK
<1> QED
  BY <1>1 DEF IInv, Good, WholeConfig

(* A worker none of whose state changes stays as it is.                    *)
LEMMA GoodStays ==
    ASSUME NEW w \in Workers, Good(w),
           UNCHANGED <<toW[w], conf[w], sock[w]>>,
           parent' = "run" => parent = "run" /\ file' = file,
           up' \subseteq up
    PROVE  Good(w)'
BY Zenon DEF Good, Fits, EndsWith, Serves, Declared

(* More messages are sent to the worker, or the last ones are lost.        *)
LEMMA GoodSent ==
    ASSUME TypeOK, NEW w \in Workers, Good(w), UNCHANGED <<conf[w], sock[w]>>,
           NEW r \in Seq(MsgType), Stream(r), r # <<>>,
           r[1].type \in {"CTL_RESET", "CTL_START"},
           toW'[w] = toW[w] \o r,
           parent' = "run" /\ w \in up' => EndsWith(w, file)'
    PROVE  Good(w)'
<1>1. toW[w] \in Seq(MsgType)
  BY DEF TypeOK
<1>2. Stream(toW'[w])
  BY <1>1, StreamConcat DEF Good
<1>3. Accepts(conf[w], sock[w], toW'[w][1])
  BY <1>1, AcceptsConcat, Zenon DEF Good, Fits
<1> QED
  BY <1>2, <1>3 DEF Good, Fits, Declared

LEMMA GoodCut ==
    ASSUME TypeOK, NEW w \in Workers, Good(w), UNCHANGED <<conf[w], sock[w]>>,
           toW'[w] \in Prefixes(toW[w]), parent' # "run"
    PROVE  Good(w)'
<1>1. toW[w] \in Seq(MsgType)
  BY DEF TypeOK
<1>2. Stream(toW'[w]) /\ (toW'[w] # <<>> => toW[w] # <<>> /\ toW'[w][1] = toW[w][1])
  BY <1>1, StreamPrefix DEF Good
<1> QED
  BY <1>2 DEF Good, Fits, Declared

(* The worker takes the message at the head.                               *)
LEMMA GoodReceived ==
    ASSUME TypeOK, NEW w \in Workers, Good(w), WorkerReceive(w)
    PROVE  Good(w)'
<1> DEFINE q == toW[w]
           m == q[1]
<1>1. q \in Seq(MsgType) /\ q # <<>>
  BY DEF WorkerReceive, TypeOK
<1>2. m \in MsgType /\ Head(q) = m
  BY <1>1
<1>3. Accepts(conf[w], sock[w], m)
  BY <1>1 DEF Good, Fits
<1>4. toW'[w] = Tail(q) /\ parent' = parent /\ file' = file /\ up' = up /\ w \in up
  BY DEF WorkerReceive, TypeOK
<1>5. /\ conf'[w] = CASE m.type = "CTL_RESET" -> <<>>
                       [] m.type = "CFG_SRV" -> Append(conf[w], <<m.file, m.n>>)
                       [] OTHER -> conf[w]
      /\ sock'[w] = CASE m.type = "CTL_RESET" -> NoSock
                       [] m.type = "CFG_SOCK" -> [file |-> m.file, on |-> FALSE]
                       [] m.type = "CFG_DONE" -> [file |-> sock[w].file, on |-> TRUE]
                       [] OTHER -> sock[w]
  BY <1>2 DEF WorkerReceive, ProxyDispatchParent, TypeOK
<1>6. /\ Tail(q) \in Seq(MsgType)
      /\ Stream(Tail(q))
      /\ Tail(q) # <<>> => Follows(m, Tail(q)[1])
  BY <1>1, StreamTail DEF Good
<1> HIDE DEF m, q
<1>7. /\ m.type = "CTL_RESET" => conf'[w] = <<>> /\ sock'[w] = NoSock
      /\ m.type = "CFG_SRV" => conf'[w] = Append(conf[w], <<m.file, m.n>>) /\ sock'[w] = sock[w]
      /\ m.type = "CFG_SOCK" => conf'[w] = conf[w] /\ sock'[w] = [file |-> m.file, on |-> FALSE]
      /\ m.type = "CFG_DONE" => conf'[w] = conf[w] /\ sock'[w] = [file |-> sock[w].file, on |-> TRUE]
      /\ m.type = "CTL_START" => conf'[w] = conf[w] /\ sock'[w] = sock[w]
  BY <1>5
<1>8. Stream(toW'[w]) /\ Fits(w)'
  <2>1. ASSUME Tail(q) # <<>> PROVE Accepts(conf'[w], sock'[w], Tail(q)[1])
    <3>1. 1 \in 1..Len(Tail(q)) /\ Tail(q)[1] \in MsgType
      BY <1>6, <2>1
    <3>2. Tail(q)[1].type = "CTL_RESET" => Tail(q)[1].n = 0
      BY <1>6, <3>1 DEF Stream, ResetsPlain
    <3> DEFINE m1 == Tail(q)[1]
               c == conf[w]
               s == sock[w]
               c1 == conf'[w]
               s1 == sock'[w]
    <3>3. /\ m \in MsgType /\ m1 \in MsgType
          /\ Accepts(c, s, m)
          /\ Follows(m, m1)
          /\ m1.type = "CTL_RESET" => m1.n = 0
          /\ m.type = "CTL_RESET" => c1 = <<>> /\ s1 = NoSock
          /\ m.type = "CFG_SRV" => c1 = Append(c, <<m.file, m.n>>) /\ s1 = s
          /\ m.type = "CFG_SOCK" => c1 = c /\ s1 = [file |-> m.file, on |-> FALSE]
      BY <1>2, <1>3, <1>6, <1>7, <2>1, <3>1, <3>2
    <3> HIDE DEF m1, c, s, c1, s1
    <3>4. Accepts(c1, s1, m1)
      BY <3>3, AcceptsNext, Zenon
    <3> QED
      BY <3>4, Zenon DEF m1, c1, s1
  <2> QED
    BY <1>4, <1>6, <2>1 DEF Fits
<1>9. m.type = "CFG_DONE" =>
          sock'[w] = [file |-> m.file, on |-> TRUE] /\ conf'[w] = Declared(m.file)
  <2>1. m.type = "CFG_DONE" => /\ sock[w] = [file |-> m.file, on |-> FALSE]
                               /\ conf[w] = Loaded(m.file, Files[m.file].proxies)
    BY <1>3 DEF Accepts
  <2>2. m.type = "CFG_DONE" => sock[w].file = m.file
    BY <2>1
  <2>3. Declared(m.file) = Loaded(m.file, Files[m.file].proxies)
    BY DEF Loaded, Declared
  <2> QED
    BY <1>7, <2>1, <2>2, <2>3, Zenon
<1>10. sock'[w].on => conf'[w] = Declared(sock'[w].file)
  <2>1. CASE m.type = "CTL_RESET"
    BY <1>7, <2>1 DEF NoSock
  <2>2. CASE m.type = "CFG_SRV"
    BY <1>3, <1>7, <2>2 DEF Accepts
  <2>3. CASE m.type = "CFG_SOCK"
    BY <1>7, <2>3
  <2>4. CASE m.type = "CFG_DONE"
    BY <1>9, <2>4
  <2>5. CASE m.type = "CTL_START"
    BY <1>7, <2>5 DEF Good
  <2> QED
    BY <1>2, <2>1, <2>2, <2>3, <2>4, <2>5 DEF MsgType
<1>11. ASSUME parent = "run" PROVE EndsWith(w, file)'
  <2>1. EndsWith(w, file)
    BY <1>4, <1>11 DEF Good
  <2>2. CASE EndsDone(q, file)
    <3>1. CASE EndsDone(Tail(q), file)
      BY <1>4, <3>1 DEF EndsWith
    <3>2. CASE m = Msg("CFG_DONE", file, 0) /\ OnlyStarts(Tail(q))
      <4>1. m.type = "CFG_DONE" /\ m.file = file
        BY <3>2, MsgFields
      <4> QED
        BY <1>4, <1>9, <3>2, <4>1, Zenon DEF EndsWith, Serves
    <3> QED
      BY <1>1, <2>2, <3>1, <3>2, EndsTail DEF m
  <2>3. CASE OnlyStarts(q) /\ Serves(w, file)
    <3>1. m.type = "CTL_START" /\ OnlyStarts(Tail(q))
      BY <1>1, <2>3, EndsTail DEF m
    <3> QED
      BY <1>4, <1>7, <2>3, <3>1 DEF EndsWith, Serves
  <2> QED
    BY <2>1, <2>2, <2>3 DEF EndsWith, q
<1> QED
  BY <1>4, <1>8, <1>10, <1>11 DEF Good, Declared

(* Every step keeps every worker's part of the invariant.                  *)
LEMMA NextIInv == IInv /\ [Next]_vars => IInv'
<1> SUFFICES ASSUME TypeOK, \A w \in Workers : Good(w), [Next]_vars PROVE IInv'
  BY IInvIs
<1>types. TypeOK'
  BY NextTypeOK
<1>up. up' \subseteq Workers
  BY <1>types DEF TypeOK
<1> SUFFICES ASSUME NEW w \in Workers PROVE Good(w)'
  BY <1>types, <1>up DEF IInv, Good, WholeConfig
<1>good. Good(w) /\ toW[w] \in Seq(MsgType)
  BY DEF TypeOK
<1>1. CASE ParentReload
  <2>1. CASE UNCHANGED <<file, reload, toW>>
    BY <1>good, <1>1, <2>1, GoodStays DEF ParentReload
  <2>2. CASE /\ file < Len(Files)
             /\ file' = file + 1
             /\ toW' = [v \in Workers |-> toW[v] \o ResetConfigure(file + 1)]
    <3> DEFINE f == file + 1
               r == ResetConfigure(f)
    <3>1. f \in 1..Len(Files)
      BY <2>2, ReloadAssumption DEF TypeOK
    <3>2. /\ Files[f].proxies \in Nat
          /\ r \in Seq(MsgType)
          /\ Len(r) = Files[f].proxies + 3
          /\ r[1] = Msg("CTL_RESET", f, 0)
          /\ r[Files[f].proxies + 3] = Msg("CFG_DONE", f, 0)
      BY <3>1, ResetConfigureIs
    <3>3. Stream(r)
      BY <3>1, ResetConfigureStream
    <3>4. toW'[w] = toW[w] \o r /\ file' = f
      BY <2>2, Zenon
    <3> HIDE DEF f, r
    <3>5. r # <<>> /\ r[1].type = "CTL_RESET"
      BY <3>2, MsgFields
    <3>6. EndsDone(r, f)
      <4>1. Len(r) \in 1..Len(r) /\ (Len(r) + 1)..Len(r) = {}
        BY <3>2
      <4> QED
        BY <3>2, <4>1 DEF EndsDone
    <3>7. EndsWith(w, file)'
      BY <1>good, <3>2, <3>4, <3>6, EndsConcat DEF EndsWith
    <3>8. UNCHANGED <<conf[w], sock[w]>>
      BY <1>1 DEF ParentReload
    <3> QED
      BY <1>good, <3>2, <3>3, <3>4, <3>5, <3>7, <3>8, GoodSent, Zenon
  <2> QED
    BY <1>1, <2>1, <2>2, Zenon DEF ParentReload
<1>2. CASE ParentShutdown
  <2>1. toW'[w] \in Prefixes(toW[w])
    BY <1>2, CutsTyped DEF ParentShutdown
  <2>2. parent' # "run" /\ UNCHANGED <<conf[w], sock[w]>>
    BY <1>2 DEF ParentShutdown
  <2> QED
    BY <1>good, <2>1, <2>2, GoodCut
<1>3. CASE ParentExit
  BY <1>good, <1>3, GoodStays DEF ParentExit
<1>4. CASE ParentFatal
  <2>1. PICK c \in Cuts, new \in SUBSET up :
          /\ new # {} => "HUP" \in sigs /\ file < Len(Files)
          /\ toW' = [v \in Workers |->
                IF v \in new
                THEN toW[v] \o SubSeq(ResetConfigure(file + 1), 1, 2 + Files[file + 1].proxies)
                ELSE c[v]]
    BY <1>4, Zenon DEF ParentFatal
  <2>2. parent' # "run" /\ UNCHANGED <<conf[w], sock[w]>>
    BY <1>4 DEF ParentFatal
  <2>3. CASE w \in new
    <3> DEFINE q == ResetConfigure(file + 1)
               n == 2 + Files[file + 1].proxies
               r == SubSeq(q, 1, n)
    <3>1. file + 1 \in 1..Len(Files)
      BY <2>1, <2>3, ReloadAssumption DEF TypeOK
    <3>2. q \in Seq(MsgType) /\ n \in 1..Len(q) /\ q[1] = Msg("CTL_RESET", file + 1, 0)
      BY <3>1, ResetConfigureIs
    <3>3. Stream(q)
      BY <3>1, ResetConfigureStream
    <3>4. toW'[w] = toW[w] \o r
      BY <2>1, <2>3, Zenon
    <3> HIDE DEF q, n
    <3>5. r \in Prefixes(q) /\ r # <<>>
      BY <3>2 DEF Prefixes
    <3>6. r \in Seq(MsgType) /\ Stream(r) /\ r[1] = q[1]
      BY <3>2, <3>3, <3>5, StreamPrefix
    <3>7. r[1].type = "CTL_RESET"
      BY <3>2, <3>6, MsgFields
    <3> HIDE DEF r
    <3> QED
      BY <1>good, <2>2, <3>4, <3>5, <3>6, <3>7, GoodSent
  <2>4. CASE w \notin new
    <3>1. toW'[w] \in Prefixes(toW[w])
      BY <2>1, <2>4, CutsTyped
    <3> QED
      BY <1>good, <2>2, <3>1, GoodCut
  <2> QED
    BY <2>3, <2>4
<1>5. ASSUME NEW s \in {"HUP", "TERM"}, Signal(s) PROVE Good(w)'
  BY <1>good, <1>5, GoodStays DEF Signal
<1>6. ASSUME NEW v \in Workers, ParentConfigureDone(v) PROVE Good(w)'
  <2>1. CASE reload # 1
    BY <1>good, <1>6, <2>1, GoodStays DEF ParentConfigureDone
  <2>2. CASE reload = 1
    <3> DEFINE m == Msg("CTL_START", 0, 0)
               r == <<m>>
    <3>1. m \in MsgType /\ m.type = "CTL_START"
      BY MsgIsTyped, MsgFields
    <3>2. toW'[w] = Append(toW[w], m)
      BY <1>6, <2>2 DEF ParentConfigureDone
    <3>3. UNCHANGED <<conf[w], sock[w], parent, file, up>>
      BY <1>6 DEF ParentConfigureDone
    <3> HIDE DEF m
    <3>4. r \in Seq(MsgType) /\ r # <<>> /\ Len(r) = 1 /\ r[1] = m
      BY <3>1
    <3>5. Append(toW[w], m) = toW[w] \o r
      BY <1>good, <3>1, AppendIsConcat
    <3>6. Stream(r)
      BY <3>1, <3>4 DEF Stream, Linked, ResetsPlain
    <3>7. parent' = "run" /\ w \in up' => EndsWith(w, file)'
      BY <1>good, <3>1, <3>2, <3>3, EndsStart DEF Good, EndsWith, Serves
    <3> HIDE DEF r
    <3> QED
      BY <1>good, <3>1, <3>2, <3>3, <3>4, <3>5, <3>6, <3>7, GoodSent
  <2> QED
    BY <2>1, <2>2
<1>7. ASSUME NEW v \in Workers, WorkerReceive(v) PROVE Good(w)'
  <2>1. CASE v = w
    BY <1>good, <1>7, <2>1, GoodReceived
  <2>2. CASE v # w
    <3>1. UNCHANGED <<toW[w], conf[w], sock[w], parent, file, up>>
      BY <1>7, <2>2 DEF WorkerReceive, ProxyDispatchParent, TypeOK
    <3> QED
      BY <1>good, <3>1, GoodStays
  <2> QED
    BY <2>1, <2>2
<1>8. ASSUME NEW v \in Workers, WorkerExits(v) PROVE Good(w)'
  <2>1. CASE v = w
    <3>1. toW'[w] = <<>> /\ sock'[w] = NoSock /\ w \notin up'
      BY <1>8, <2>1 DEF WorkerExits, TypeOK
    <3>2. Stream(<<>>) /\ ~NoSock.on
      BY DEF Stream, Linked, ResetsPlain, NoSock
    <3> QED
      BY <3>1, <3>2 DEF Good, Fits
  <2>2. CASE v # w
    <3>1. UNCHANGED <<toW[w], conf[w], sock[w], parent, file>> /\ up' \subseteq up
      BY <1>8, <2>2 DEF WorkerExits, TypeOK
    <3> QED
      BY <1>good, <3>1, GoodStays
  <2> QED
    BY <2>1, <2>2
<1>9. CASE UNCHANGED vars
  BY <1>good, <1>9, GoodStays DEF vars
<1> QED
  BY <1>1, <1>2, <1>3, <1>4, <1>5, <1>6, <1>7, <1>8, <1>9 DEF Next, WorkerEof, WorkerDies

LEMMA IInvHolds == Spec => []IInv
BY InitIInv, NextIInv, PTL DEF Spec

(* Every variable keeps its type: sc_reload, which each acknowledgement    *)
(* decrements, never drops below zero.                                     *)
THEOREM TypesHold == Spec => []TypeOK
BY InitTypeOK, NextTypeOK, PTL DEF Spec

(* However reloads, signals, failures and lost messages interleave, a      *)
(* worker whose listening socket is watched has exactly the proxies of one *)
(* file, the one the socket came with.                                     *)
THEOREM ConfigsWhole == Spec => []WholeConfig
<1>1. IInv => WholeConfig
  BY DEF IInv
<1> QED
  BY <1>1, IInvHolds, PTL

(* When no IMSG_CFG_DONE is under way to a worker, it serves the file that *)
(* parent_reload parsed last.                                              *)
THEOREM AckedServe == Spec => []AckedServes
<1>1. IInv => AckedServes
  <2> SUFFICES ASSUME IInv, parent = "run", NEW w \in up,
                      \A i \in 1..Len(toW[w]) : ~IsDone(toW[w][i])
               PROVE  Serves(w, file)
    BY DEF AckedServes
  <2>1. EndsWith(w, file)
    BY DEF IInv
  <2>2. ~EndsDone(toW[w], file)
    BY MsgFields DEF EndsDone, IsDone
  <2> QED
    BY <2>1, <2>2 DEF EndsWith
<1> QED
  BY <1>1, IInvHolds, PTL

-----------------------------------------------------------------------------
(***************************************************************************)
(* For every table size, reserve and number of connections: the counter of *)
(* connections is exact, and an accepted connection finds a descriptor for *)
(* its request.                                                            *)
(***************************************************************************)

(* Why UpstreamHasFd is kept.  A connection uses at most one descriptor    *)
(* for its request, and the test of accept_reserve on the last connection  *)
(* left room for two descriptors for each connection there was, those      *)
(* without an upstream included: they are counted in fcgi_inflight.        *)
Admitted ==
    /\ ups <= conns
    /\ conns > 0 => /\ lis # "closed"
                    /\ Base + 2 * conns + FdReserve <= DtableSize

AcceptInv == AcceptTypeOK /\ InflightExact /\ Admitted

LEMMA InitAcceptInv == AcceptInit => AcceptInv
  BY AcceptAssumption DEF AcceptInit, AcceptInv, AcceptTypeOK, InflightExact, Admitted

(* The counter, the room it leaves and the descriptors, step by step.      *)
LEMMA AcceptKeeps == AcceptInv /\ FcgiAccept => AcceptInv'
<1> SUFFICES ASSUME AcceptInv, FcgiAccept PROVE AcceptInv'
  OBVIOUS
<1> USE AcceptAssumption DEF AcceptInv
<1>1. AcceptTypeOK'
  BY DEF AcceptTypeOK, FcgiAccept
<1>2. InflightExact'
  BY DEF AcceptTypeOK, InflightExact, FcgiAccept
<1>3. Admitted'
  BY DEF AcceptTypeOK, InflightExact, Admitted, FcgiAccept, Room, Dtablecount
<1> QED
  BY <1>1, <1>2, <1>3

LEMMA ErrorKeeps == AcceptInv /\ FcgiError => AcceptInv'
<1> SUFFICES ASSUME AcceptInv, FcgiError PROVE AcceptInv'
  OBVIOUS
<1> USE AcceptAssumption DEF AcceptInv
<1>1. AcceptTypeOK'
  BY DEF AcceptTypeOK, InflightExact, FcgiError
<1>2. InflightExact'
  BY DEF AcceptTypeOK, InflightExact, FcgiError
<1>3. Admitted'
  BY DEF AcceptTypeOK, Admitted, FcgiError
<1> QED
  BY <1>1, <1>2, <1>3

LEMMA PurgeKeeps == AcceptInv /\ ConfigPurge => AcceptInv'
<1> SUFFICES ASSUME AcceptInv, ConfigPurge PROVE AcceptInv'
  OBVIOUS
<1> USE AcceptAssumption DEF AcceptInv
<1>1. PICK n \in 0..conns : inflight' = inflight - n /\ purged' = purged + (conns - n)
  BY DEF ConfigPurge
<1>2. AcceptTypeOK'
  BY <1>1 DEF AcceptTypeOK, InflightExact, ConfigPurge
<1>3. InflightExact'
  BY <1>1 DEF AcceptTypeOK, InflightExact, ConfigPurge
<1>4. Admitted'
  BY DEF Admitted, ConfigPurge
<1> QED
  BY <1>2, <1>3, <1>4

(* The invariant is inductive.                                             *)
LEMMA NextAcceptInv == AcceptInv /\ [AcceptNext]_acceptVars => AcceptInv'
<1> SUFFICES ASSUME AcceptInv, [AcceptNext]_acceptVars PROVE AcceptInv'
  OBVIOUS
<1> USE AcceptAssumption DEF AcceptInv
<1>1. CASE FcgiAccept
  BY <1>1, AcceptKeeps
<1>2. CASE FcgiError
  BY <1>2, ErrorKeeps
<1>3. CASE ConfigPurge
  BY <1>3, PurgeKeeps
<1>4. CASE FcgiAcceptFails \/ FcgiAcceptPause \/ FcgiAcceptTimeout
  BY <1>4 DEF FcgiAcceptFails, FcgiAcceptPause, FcgiAcceptTimeout,
              AcceptTypeOK, InflightExact, Admitted
<1>5. CASE Arrive \/ TakenByOther
  BY <1>5 DEF Arrive, TakenByOther, AcceptTypeOK, InflightExact, Admitted
<1>6. CASE OpenUpstream \/ CloseUpstream
  BY <1>6 DEF OpenUpstream, CloseUpstream, AcceptTypeOK, InflightExact, Admitted
<1>7. CASE ConfigGetSock \/ ProxyLaunch
  BY <1>7 DEF ConfigGetSock, ProxyLaunch, AcceptTypeOK, InflightExact, Admitted
<1>8. CASE UNCHANGED acceptVars
  BY <1>8 DEF acceptVars, AcceptTypeOK, InflightExact, Admitted
<1> QED
  BY <1>1, <1>2, <1>3, <1>4, <1>5, <1>6, <1>7, <1>8 DEF AcceptNext

LEMMA AlwaysAcceptInv == AcceptSpec => []AcceptInv
  BY InitAcceptInv, NextAcceptInv, PTL DEF AcceptSpec

(* The variables keep their types: in particular fcgi_inflight, which is   *)
(* decremented by fcgi_error only, never goes below zero.                  *)
THEOREM AcceptTypes == AcceptSpec => []AcceptTypeOK
  BY AlwaysAcceptInv, PTL DEF AcceptInv

(* fcgi_inflight is the number of open connections and of those that       *)
(* reloads freed without decrementing it, in every reachable state.        *)
THEOREM CounterExact == AcceptSpec => []InflightExact
  BY AlwaysAcceptInv, PTL DEF AcceptInv

(* A connection that accept_reserve let in finds a descriptor for its      *)
(* request, whatever the size of the table and however many were let in.   *)
THEOREM AcceptedHasFd == AcceptSpec => []UpstreamHasFd
<1>1. AcceptInv => UpstreamHasFd
  BY AcceptAssumption DEF AcceptInv, AcceptTypeOK, Admitted, UpstreamHasFd, Dtablecount
<1> QED
  BY <1>1, AlwaysAcceptInv, PTL

-----------------------------------------------------------------------------
(***************************************************************************)
(* What the lock of the pid file protects, for any number of instances: a  *)
(* file shows the pid of the instance in the foreground that runs with it, *)
(* and no two of them run with one file.  From F_SETLK to its end such an  *)
(* instance has the lock on the file it opened; one that becomes a daemon  *)
(* has it up to daemon(3), which is when it truncates the file.  And a     *)
(* lock has a holder: nobody is refused on account of a file left behind.  *)
(***************************************************************************)

(* The instances that passed F_SETLK and have not ended.                   *)
Holding(p) ==
    \/ pc[p] \in {"locked", "starting"}
    \/ p \in Foreground /\ pc[p] \in {"daemon", "running", "exiting"}

(* A lock is held by an instance that passed F_SETLK and still runs.       *)
Held ==
    \A f \in PidFiles :
        lock[f] # 0 => pc[lock[f]] \in {"locked", "starting", "daemon", "running", "exiting"}

PidInv ==
    /\ PidTypeOK
    /\ pc \in [Instances -> {"idle", "opened", "locked", "starting", "daemon", "running",
                             "exiting", "refused", "gone"}]
    /\ \A p \in Instances : Holding(p) => lock[pidfd[p]] = p
    /\ Held
    /\ PidShown

(* Nothing is open or locked before the first start.                       *)
LEMMA InitPidInv == PidInit => PidInv
BY PidfileAssumption DEF PidInit, PidInv, PidTypeOK, Alive, Holding, Held, PidShown, PidFiles

(* Every step of every instance keeps the invariant.                       *)
LEMMA NextPidInv == PidInv /\ [PidNext]_pidVars => PidInv'
<1> SUFFICES ASSUME PidInv, [PidNext]_pidVars PROVE PidInv'
  OBVIOUS
<1> USE PidfileAssumption DEF PidFiles
<1>1. ASSUME NEW p \in Instances, Open(p) PROVE PidInv'
  BY <1>1 DEF Open, PidInv, PidTypeOK, Alive, Holding, Held, PidShown
<1>2. ASSUME NEW p \in Instances, Lock(p) PROVE PidInv'
  <2>1. pidfd[p] \in PidFiles
    BY <1>2 DEF Lock, PidInv, PidTypeOK, Alive
  <2>2. CASE lock[pidfd[p]] = 0
    BY <1>2, <2>1, <2>2 DEF Lock, PidInv, PidTypeOK, Alive, Holding, Held, PidShown
  <2>3. CASE lock[pidfd[p]] # 0
    BY <1>2, <2>1, <2>3 DEF Lock, PidInv, PidTypeOK, Alive, Holding, Held, PidShown
  <2> QED
    BY <2>2, <2>3
<1>3. ASSUME NEW p \in Instances, Truncate(p) PROVE PidInv'
  BY <1>3 DEF Truncate, PidInv, PidTypeOK, Alive, Holding, Held, PidShown
<1>4. ASSUME NEW p \in Instances, ChildFails(p) PROVE PidInv'
  BY <1>4 DEF ChildFails, PidInv, PidTypeOK, Alive, Holding, Held, PidShown
<1>5. ASSUME NEW p \in Instances, Daemonise(p) PROVE PidInv'
  BY <1>5 DEF Daemonise, Release, PidInv, PidTypeOK, Alive, Holding, Held, PidShown
<1>6. ASSUME NEW p \in Instances, WritePid(p) PROVE PidInv'
  BY <1>6 DEF WritePid, PidInv, PidTypeOK, Alive, Holding, Held, PidShown
<1>7. ASSUME NEW p \in Instances, Unlink(p) PROVE PidInv'
  BY <1>7 DEF Unlink, PidInv, PidTypeOK, Alive, Holding, Held, PidShown
<1>8. ASSUME NEW p \in Instances, End(p) PROVE PidInv'
  BY <1>8 DEF End, Release, PidInv, PidTypeOK, Alive, Holding, Held, PidShown
<1>9. CASE UNCHANGED pidVars
  BY <1>9 DEF pidVars, PidInv, PidTypeOK, Alive, Holding, Held, PidShown
<1> QED
  BY <1>1, <1>2, <1>3, <1>4, <1>5, <1>6, <1>7, <1>8, <1>9 DEF PidNext

(* open_pidfile locks before it truncates, and a process that stays in the *)
(* foreground keeps the lock: no other of its kind writes to its pid file. *)
THEOREM PidsShown == PidSpec => []PidShown
<1>1. PidInv => PidShown
  BY DEF PidInv
<1> QED
  BY InitPidInv, NextPidInv, <1>1, PTL DEF PidSpec

(* Two that run in the foreground have locked different files.             *)
THEOREM FilesApart == PidSpec => []LocksApart
<1>1. PidInv => LocksApart
  BY PidfileAssumption DEF PidInv, LocksApart, Holding
<1> QED
  BY InitPidInv, NextPidInv, <1>1, PTL DEF PidSpec

(* The lock goes with its holder, so whoever open_pidfile refuses is kept  *)
(* out by another instance that is alive, and changes neither the path nor *)
(* the contents of a file.                                                 *)
THEOREM RefusalsJustified == PidSpec => StaleFileHarmless
<1>1. ASSUME PidInv, [PidNext]_pidVars, NEW p \in Instances, pc[p] # "refused", pc'[p] = "refused"
      PROVE  (\E q \in Instances \ {p} : Alive(q)) /\ UNCHANGED <<path, text>>
  <2>1. Lock(p) /\ lock[pidfd[p]] # 0
    BY <1>1 DEF PidNext, pidVars, PidInv, Open, Lock, Truncate, ChildFails, Daemonise, WritePid,
                Unlink, End
  <2>2. pidfd[p] \in PidFiles
    BY <1>1, <2>1, PidfileAssumption DEF Lock, PidInv, PidTypeOK, Alive
  <2>3. lock[pidfd[p]] \in Instances /\ Alive(lock[pidfd[p]])
    BY <1>1, <2>1, <2>2 DEF PidInv, PidTypeOK, Held, Alive
  <2>4. lock[pidfd[p]] # p
    BY <1>1, <2>1, <2>2 DEF PidInv, Held, Lock
  <2> QED
    BY <2>1, <2>3, <2>4 DEF Lock
<1>2. PidInv /\ [PidNext]_pidVars =>
        [\A p \in Instances : pc[p] # "refused" /\ pc'[p] = "refused" =>
             (\E q \in Instances \ {p} : Alive(q)) /\ UNCHANGED <<path, text>>]_pidVars
  BY <1>1
<1> QED
  BY InitPidInv, NextPidInv, <1>2, PTL DEF PidSpec, StaleFileHarmless
=============================================================================

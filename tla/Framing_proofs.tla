--------------------------- MODULE Framing_proofs ----------------------------
(***************************************************************************)
(* fcgi_read stays in sync with the records of the web server, and what it *)
(* makes of them is what they say: the proofs of InSync, FieldsRight and   *)
(* FormRight.  FramingCodec_proofs has the lemmas about the parsers.       *)
(*                                                                         *)
(* The invariant is FInv.  Its Place says where the buffer and the wire    *)
(* are: at the header of the next record (AtHeader), or at its content     *)
(* (AtBody).  Its ClientRight says what the client has, in terms of the    *)
(* records handled.  Neither can be had without the other: parsing right   *)
(* needs the buffer to be at the content, and only a parser that consumes  *)
(* the whole content leaves it at the next record.                         *)
(***************************************************************************)
EXTENDS FramingCodec_proofs

-----------------------------------------------------------------------------
(* The inductive invariant.                                                *)

(* The records that count, by the number h of those handled: of what       *)
(* Current, Given, Orderly and MarkerSplit say of the state.               *)
LiveIn(s, h) == \E b \in 1..h : s[b].type = "BEGIN" /\ \A a \in b..h : s[a].type # "ABORT"

CurrentIn(s, h, j) ==
    \E b \in 1..(j - 1) : s[b].type = "BEGIN" /\ \A a \in b..h : s[a].type # "ABORT"

Part(s, h, type, j) == IF s[j].type = type /\ CurrentIn(s, h, j) THEN s[j].data ELSE <<>>

Parts(s, h, type) == [j \in 1..h |-> Part(s, h, type, j)]

GivenTo(s, h, type) == Joined(Parts(s, h, type))

StdinIn(s, h) == \E j \in 1..h : s[j].type = "STDIN" /\ CurrentIn(s, h, j)

EndedIn(s, h) == \E j \in 1..h : s[j].type = "STDIN" /\ CurrentIn(s, h, j) /\ s[j].data = <<>>

OrderlyIn(s, h) ==
    \A j, k \in 1..h : j < k /\ s[j].type = "STDIN" /\ CurrentIn(s, h, j) =>
        /\ s[k].type # "PARAMS"
        /\ s[j].data = <<>> => s[k].type # "STDIN"

SplitIn(s, h) ==
    \E j \in 1..h : /\ s[j].type = "STDIN" /\ CurrentIn(s, h, j) /\ s[j].data # <<>>
                    /\ s[j].data[Len(s[j].data)] = "q"

(* A record that is consumed whole.                                        *)
Whole(rec) ==
    /\ rec.type = "PARAMS" =>
           \A i \in 1..Len(rec.data) : rec.data[i].nlen >= PnameSize => rec.data[i].value = <<>>
    /\ rec.type = "STDIN" => Len(rec.data) < TmpSize
    /\ rec.type = "ABORT" => rec.data = <<>>

WholeTo(s, h) == \A j \in 1..Len(s) : j <= h + 1 => Whole(s[j])

(* A form of which the record boundaries do not matter.                    *)
Clean(s, h) == OrderlyIn(s, h) /\ ~SplitIn(s, h) /\ ReturnsLast(GivenTo(s, h, "STDIN"))

(* Client k is right after h records.                                      *)
ClientRight(s, h, k) ==
    /\ k \in ClientSet
    /\ k.live <=> LiveIn(s, h)
    /\ k.live => FieldsOf(k, GivenTo(s, h, "PARAMS"))
    /\ k.live /\ (k.method = "POST" \/ ~StdinIn(s, h)) /\ Clean(s, h) =>
           FormState(k, GivenTo(s, h, "STDIN"), EndedIn(s, h))

AtHeader ==
    /\ fcgi = NextRecord
    /\ ~late => src \o net = Wire(sent, handled + 1)
    /\ late => src \o net # <<>> /\ (src \o net)[1] = <<"pad">>

AtBody ==
    /\ ~late /\ handled < Len(sent)
    /\ fcgi = [want |-> "BODY", toread |-> Len(Content(sent[handled + 1])),
               padding |-> sent[handled + 1].pad, type |-> sent[handled + 1].type]
    /\ src \o net = Content(sent[handled + 1]) \o After(sent, handled + 1)

Place ==
    \/ state = "closed"
    \/ state = "lost" /\ late
    \/ state = "open" /\ AtHeader
    \/ state = "open" /\ AtBody

FInv ==
    /\ sent \in Streams
    /\ handled \in Nat
    /\ WholeTo(sent, handled) =>
           /\ handled <= Len(sent)
           /\ src \in Seq(Units) /\ net \in Seq(Units)
           /\ ClientRight(sent, handled, clt)
           /\ Place

-----------------------------------------------------------------------------
(* What one more record changes of the records that count.                 *)

(* One more record: it belongs to the request that is being made, if there *)
(* is one.                                                                 *)
LEMMA LiveNext ==
  ASSUME NEW s, NEW h \in Nat
  PROVE  /\ s[h + 1].type # "ABORT" =>
               /\ LiveIn(s, h + 1) <=> LiveIn(s, h) \/ s[h + 1].type = "BEGIN"
               /\ \A j \in 1..h : CurrentIn(s, h + 1, j) <=> CurrentIn(s, h, j)
               /\ CurrentIn(s, h + 1, h + 1) <=> LiveIn(s, h)
         /\ s[h + 1].type = "ABORT" => ~LiveIn(s, h + 1)
         /\ ~LiveIn(s, h) => \A j \in 1..h : ~CurrentIn(s, h, j)
<1> DEFINE Abort(a) == s[a].type = "ABORT"
           Begin(b) == s[b].type = "BEGIN"
           Since(b, n) == Begin(b) /\ \A a \in b..n : ~Abort(a)
<1>1. \A n : LiveIn(s, n) <=> \E b \in 1..n : Since(b, n)
  BY Zenon DEF LiveIn
<1>2. \A n, j : CurrentIn(s, n, j) <=> \E b \in 1..(j - 1) : Since(b, n)
  BY Zenon DEF CurrentIn
<1>3. Begin(h + 1) => ~Abort(h + 1)
  OBVIOUS
<1>4. \A b : Begin(b) <=> s[b].type = "BEGIN"
  OBVIOUS
<1>5. \A b : Abort(b) <=> s[b].type = "ABORT"
  OBVIOUS
<1> HIDE DEF Abort, Begin
<1>6. \A b \in 1..h : Since(b, h + 1) <=> Since(b, h) /\ ~Abort(h + 1)
  <2> SUFFICES ASSUME NEW b \in 1..h PROVE Since(b, h + 1) <=> Since(b, h) /\ ~Abort(h + 1)
    OBVIOUS
  <2>1. \A a : a \in b..(h + 1) <=> a \in b..h \/ a = h + 1
    OBVIOUS
  <2> QED
    BY <2>1, Zenon
<1>7. Since(h + 1, h + 1) <=> Begin(h + 1) /\ ~Abort(h + 1)
  <2>1. \A a : a \in (h + 1)..(h + 1) <=> a = h + 1
    OBVIOUS
  <2> QED
    BY <2>1, Zenon
<1> HIDE DEF Since
<1>8. \A b : b \in 1..(h + 1) <=> b \in 1..h \/ b = h + 1
  OBVIOUS
<1>9. \A j \in 1..h : \A b \in 1..(j - 1) : b \in 1..h
  OBVIOUS
<1>10. (h + 1) - 1 = h
  OBVIOUS
<1>11. LiveIn(s, h + 1) <=> (LiveIn(s, h) /\ ~Abort(h + 1)) \/ (Begin(h + 1) /\ ~Abort(h + 1))
  BY <1>1, <1>6, <1>7, <1>8, Zenon
<1>12. ~Abort(h + 1) => \A j \in 1..h : CurrentIn(s, h + 1, j) <=> CurrentIn(s, h, j)
  BY <1>2, <1>6, <1>9, Zenon
<1>13. ~Abort(h + 1) => (CurrentIn(s, h + 1, h + 1) <=> LiveIn(s, h))
  BY <1>1, <1>2, <1>6, <1>10, Zenon
<1>14. ~LiveIn(s, h) => \A j \in 1..h : ~CurrentIn(s, h, j)
  BY <1>1, <1>2, <1>9, Zenon
<1> QED
  BY <1>3, <1>4, <1>5, <1>11, <1>12, <1>13, <1>14, Zenon

(* The records of some type say sequences over S.                          *)
Typed(s, h, type, S) == \A j \in 1..h : s[j].type = type => s[j].data \in Seq(S)

PartsOf(s, h, type, S) ==
    /\ Parts(s, h, type) \in Seq(Seq(S)) /\ Len(Parts(s, h, type)) = h
    /\ \A j \in 1..h : Parts(s, h, type)[j] = Part(s, h, type, j) /\ Part(s, h, type, j) \in Seq(S)
    /\ GivenTo(s, h, type) \in Seq(S)

(* The parts of a request, and what they give joined.                      *)
LEMMA PartsType ==
  ASSUME NEW S, NEW s, NEW h \in Nat, NEW type,
         Typed(s, h, type, S)
  PROVE  PartsOf(s, h, type, S)
<1> DEFINE p == Parts(s, h, type)
           P(j) == Part(s, h, type, j)
           Q == Seq(S)
<1>1. \A j \in 1..h : P(j) \in Q
  <2> SUFFICES ASSUME NEW j \in 1..h PROVE P(j) \in Q
    BY Zenon
  <2>1. <<>> \in Q
    OBVIOUS
  <2>2. P(j) = <<>> \/ (P(j) = s[j].data /\ s[j].type = type)
    BY Zenon DEF Part
  <2> QED
    BY <2>1, <2>2, Zenon DEF Typed
<1>2. p = [j \in 1..h |-> P(j)]
  BY Zenon DEF Parts
<1> HIDE DEF P, p, Q
<1>3. p \in [1..h -> Q] /\ \A j \in 1..h : p[j] = P(j)
  BY <1>1, <1>2, Zenon
<1>4. p \in Seq(Q) /\ Len(p) = h
  BY <1>3, FunSeq
<1>5. p \in Seq(Seq(S))
  BY <1>4, Zenon DEF Q
<1>6. Joined(p) \in Seq(S)
  BY <1>5, JoinedType
<1> QED
  BY <1>1, <1>3, <1>4, <1>5, <1>6, Zenon DEF PartsOf, p, P, Q, GivenTo

(* What the client was given grows by what the record says.                *)
Grows(s, h, type, S) ==
    /\ GivenTo(s, h, type) \in Seq(S)
    /\ ~(s[h + 1].type = type /\ LiveIn(s, h)) => GivenTo(s, h + 1, type) = GivenTo(s, h, type)
    /\ s[h + 1].type = type /\ LiveIn(s, h) =>
           GivenTo(s, h + 1, type) = GivenTo(s, h, type) \o s[h + 1].data

(* One more record: what a request was given grows by its data, when it    *)
(* has the type and belongs to the request.                                *)
LEMMA GivenNext ==
  ASSUME NEW S, NEW s, NEW h \in Nat, NEW type,
         Typed(s, h + 1, type, S),
         s[h + 1].type # "ABORT"
  PROVE  Grows(s, h, type, S)
<1> DEFINE p == Parts(s, h, type)
           q == Parts(s, h + 1, type)
           x == Part(s, h + 1, type, h + 1)
           g == GivenTo(s, h, type)
           n == h + 1
<1>1. Typed(s, h, type, S)
  <2>1. \A j \in 1..h : j \in 1..(h + 1)
    OBVIOUS
  <2> QED
    BY <2>1, Zenon DEF Typed
<1>2. /\ p \in Seq(Seq(S)) /\ Len(p) = h /\ g \in Seq(S)
      /\ \A j \in 1..h : p[j] = Part(s, h, type, j)
  <2>1. PartsOf(s, h, type, S)
    BY <1>1, PartsType, Zenon
  <2> QED
    BY <2>1, Zenon DEF PartsOf
<1>3. n \in Nat /\ n \in 1..n /\ Typed(s, n, type, S)
  OBVIOUS
<1>4. /\ q \in Seq(Seq(S)) /\ Len(q) = n
      /\ \A j \in 1..n : q[j] = Part(s, n, type, j) /\ Part(s, n, type, j) \in Seq(S)
  <2> HIDE DEF n
  <2>1. PartsOf(s, n, type, S)
    BY <1>3, PartsType, Zenon
  <2> QED
    BY <2>1, Zenon DEF PartsOf, n
<1>5. /\ \A j \in 1..h : CurrentIn(s, n, j) <=> CurrentIn(s, h, j)
      /\ CurrentIn(s, n, n) <=> LiveIn(s, h)
  BY LiveNext, Zenon
<1>6. \A j \in 1..h : Part(s, n, type, j) = Part(s, h, type, j)
  BY <1>5, Zenon DEF Part
<1>7. x = IF s[n].type = type /\ LiveIn(s, h) THEN s[n].data ELSE <<>>
  BY <1>5, Zenon DEF Part
<1>8. x \in Seq(S) /\ q[n] = x
  BY <1>3, <1>4, Zenon
<1>9. g = Joined(p) /\ GivenTo(s, n, type) = Joined(q)
  BY Zenon DEF GivenTo
<1>10. \A j \in 1..h : q[j] = p[j]
  <2>1. \A j \in 1..h : j \in 1..n
    OBVIOUS
  <2> QED
    BY <1>2, <1>4, <1>6, <2>1, Zenon
<1> HIDE DEF p, q, x, g
<1>11. q = Append(p, x)
  <2> DEFINE r == Append(p, x)
             Q == Seq(S)
  <2>1. p \in Seq(Q) /\ x \in Q /\ q \in Seq(Q)
    BY <1>2, <1>4, <1>8
  <2> HIDE DEF Q
  <2>2. /\ r \in Seq(Q) /\ Len(r) = Len(p) + 1 /\ r[Len(p) + 1] = x
        /\ \A i \in 1..Len(p) : r[i] = p[i]
    BY <2>1
  <2>3. Len(q) = Len(r)
    BY <1>2, <1>4, <2>2
  <2>4. \A i \in 1..Len(r) : q[i] = r[i]
    BY <1>2, <1>8, <1>10, <2>2
  <2> HIDE DEF r
  <2>5. r \in Seq(Q) /\ q \in Seq(Q)
    BY <2>1, <2>2
  <2>6. q = r
    BY <2>3, <2>4, <2>5, SameSeq
  <2> QED
    BY <2>6 DEF r
<1>12. Joined(q) = g \o x
  <2>1. p \in Seq(Seq(S)) /\ x \in Seq(S)
    BY <1>2, <1>8
  <2>2. Joined(Append(p, x)) = Joined(p) \o x
    BY <2>1, JoinedAppend
  <2> QED
    BY <1>9, <1>11, <2>2, Zenon
<1>13. g \o <<>> = g
  BY <1>2
<1> QED
  BY <1>2, <1>7, <1>9, <1>12, <1>13, Zenon DEF Grows, g

(* Without a request nothing has been given.                               *)
LEMMA GivenNone ==
  ASSUME NEW S, NEW s, NEW h \in Nat, NEW type,
         Typed(s, h, type, S),
         ~LiveIn(s, h)
  PROVE  GivenTo(s, h, type) = <<>>
<1> DEFINE p == Parts(s, h, type)
<1>1. /\ p \in Seq(Seq(S)) /\ Len(p) = h
      /\ \A j \in 1..h : p[j] = Part(s, h, type, j)
  <2>1. PartsOf(s, h, type, S)
    BY PartsType, Zenon
  <2> QED
    BY <2>1, Zenon DEF PartsOf
<1>2. \A j \in 1..h : ~CurrentIn(s, h, j)
  BY LiveNext
<1>3. \A j \in 1..h : Part(s, h, type, j) = <<>>
  BY <1>2, Zenon DEF Part
<1> HIDE DEF p
<1>4. p \in Seq(Seq(S)) /\ \A j \in 1..Len(p) : p[j] = <<>>
  BY <1>1, <1>3, Zenon
<1>5. Joined(p) = <<>>
  BY <1>4, JoinedEmpties
<1> QED
  BY <1>5, Zenon DEF GivenTo, p

(* When no record of the form ends with a q, what was given does not.      *)
LEMMA GivenLast ==
  ASSUME NEW S, NEW s, NEW h \in Nat,
         Typed(s, h, "STDIN", S),
         ~SplitIn(s, h)
  PROVE  \/ GivenTo(s, h, "STDIN") = <<>>
         \/ GivenTo(s, h, "STDIN")[Len(GivenTo(s, h, "STDIN"))] # "q"
<1> DEFINE p == Parts(s, h, "STDIN")
           P(j) == Part(s, h, "STDIN", j)
           x == "q"
<1>1. /\ p \in Seq(Seq(S)) /\ Len(p) = h
      /\ \A j \in 1..h : p[j] = P(j)
  <2>1. PartsOf(s, h, "STDIN", S)
    BY PartsType, Zenon
  <2> QED
    BY <2>1, Zenon DEF PartsOf
<1>2. \A j \in 1..h : P(j) = <<>> \/ P(j)[Len(P(j))] # x
  <2> SUFFICES ASSUME NEW j \in 1..h PROVE P(j) = <<>> \/ P(j)[Len(P(j))] # x
    BY Zenon
  <2>1. P(j) = <<>> \/ (P(j) = s[j].data /\ s[j].type = "STDIN" /\ CurrentIn(s, h, j))
    BY Zenon DEF Part
  <2>2. ~(s[j].type = "STDIN" /\ CurrentIn(s, h, j) /\ s[j].data # <<>> /\ s[j].data[Len(s[j].data)] = "q")
    BY Zenon DEF SplitIn
  <2> QED
    BY <2>1, <2>2, Zenon
<1> HIDE DEF p, P, x
<1>3. p \in Seq(Seq(S)) /\ \A j \in 1..Len(p) : p[j] = <<>> \/ p[j][Len(p[j])] # x
  BY <1>1, <1>2, Zenon
<1>4. Joined(p) = <<>> \/ Joined(p)[Len(Joined(p))] # x
  BY <1>3, JoinedLast
<1> QED
  BY <1>4, Zenon DEF GivenTo, p, x

(* The data of the records of a stream have the types of their records.    *)
LEMMA StreamTyped ==
  ASSUME NEW s \in Seq(RecordSet), NEW h \in Nat, h <= Len(s)
  PROVE  Typed(s, h, "PARAMS", ParamSet) /\ Typed(s, h, "STDIN", Char)
<1>1. ASSUME NEW j \in 1..h PROVE s[j] \in RecordSet
  BY Len(s) \in Nat
<1>2. ASSUME NEW j \in 1..h
      PROVE  /\ s[j].type = "PARAMS" => s[j].data \in Seq(ParamSet)
             /\ s[j].type = "STDIN" => s[j].data \in Seq(Char)
  <2> DEFINE rec == s[j]
  <2>1. rec \in RecordSet
    BY <1>1
  <2> HIDE DEF rec
  <2>2. /\ rec.type = "PARAMS" => rec.data \in Seq(ParamSet)
        /\ rec.type # "PARAMS" => rec.data \in Seq(Char)
    BY <2>1, RecordTypes
  <2>3. rec.type = "STDIN" => rec.type # "PARAMS"
    OBVIOUS
  <2> QED
    BY <2>2, <2>3, Zenon DEF rec
<1> QED
  BY <1>2, Zenon DEF Typed

(* The next record of a stream, and what it changes, unless it aborts.     *)
Upcoming(s, h) == s \in Seq(RecordSet) /\ h \in Nat /\ h < Len(s)

(* The next record of a stream, and the types of the records up to it.     *)
LEMMA UpcomingFacts ==
  ASSUME NEW s, NEW h, Upcoming(s, h)
  PROVE  /\ s \in Seq(RecordSet) /\ h \in Nat /\ h + 1 \in 1..Len(s) /\ s[h + 1] \in RecordSet
         /\ Typed(s, h, "PARAMS", ParamSet) /\ Typed(s, h, "STDIN", Char)
         /\ Typed(s, h + 1, "PARAMS", ParamSet) /\ Typed(s, h + 1, "STDIN", Char)
<1>1. s \in Seq(RecordSet) /\ h \in Nat /\ h < Len(s) /\ Len(s) \in Nat
  BY DEF Upcoming
<1>2. h + 1 \in 1..Len(s) /\ h + 1 \in Nat /\ h <= Len(s) /\ h + 1 <= Len(s)
  BY <1>1
<1>3. s[h + 1] \in RecordSet
  BY <1>1, <1>2
<1>4. Typed(s, h, "PARAMS", ParamSet) /\ Typed(s, h, "STDIN", Char)
  BY <1>1, <1>2, StreamTyped
<1> DEFINE n == h + 1
<1>5. n \in Nat /\ n <= Len(s)
  BY <1>2
<1> HIDE DEF n
<1>6. Typed(s, n, "PARAMS", ParamSet) /\ Typed(s, n, "STDIN", Char)
  BY <1>1, <1>5, StreamTyped
<1> QED
  BY <1>1, <1>2, <1>3, <1>4, <1>6, Zenon DEF n

(* What a request has been given after the next record.                    *)
LEMMA UpcomingGiven ==
  ASSUME NEW s, NEW h, Upcoming(s, h), s[h + 1].type # "ABORT"
  PROVE  /\ GivenTo(s, h, "PARAMS") \in Seq(ParamSet) /\ GivenTo(s, h, "STDIN") \in Seq(Char)
         /\ ~(s[h + 1].type = "PARAMS" /\ LiveIn(s, h)) =>
               GivenTo(s, h + 1, "PARAMS") = GivenTo(s, h, "PARAMS")
         /\ s[h + 1].type = "PARAMS" /\ LiveIn(s, h) =>
               GivenTo(s, h + 1, "PARAMS") = GivenTo(s, h, "PARAMS") \o s[h + 1].data
         /\ ~(s[h + 1].type = "STDIN" /\ LiveIn(s, h)) =>
               GivenTo(s, h + 1, "STDIN") = GivenTo(s, h, "STDIN")
         /\ s[h + 1].type = "STDIN" /\ LiveIn(s, h) =>
               GivenTo(s, h + 1, "STDIN") = GivenTo(s, h, "STDIN") \o s[h + 1].data
<1>1. /\ h \in Nat /\ Typed(s, h + 1, "PARAMS", ParamSet) /\ Typed(s, h + 1, "STDIN", Char)
  BY UpcomingFacts
<1>2. Grows(s, h, "PARAMS", ParamSet) /\ Grows(s, h, "STDIN", Char)
  BY <1>1, GivenNext, Zenon
<1> QED
  BY <1>2, Zenon DEF Grows

(* The next record, and the order of the records.                          *)
LEMMA OrderNext ==
  ASSUME NEW s, NEW h \in Nat, s[h + 1].type # "ABORT"
  PROVE  /\ StdinIn(s, h + 1) <=> StdinIn(s, h) \/ (s[h + 1].type = "STDIN" /\ LiveIn(s, h))
         /\ EndedIn(s, h + 1) <=>
               EndedIn(s, h) \/ (s[h + 1].type = "STDIN" /\ LiveIn(s, h) /\ s[h + 1].data = <<>>)
         /\ SplitIn(s, h) => SplitIn(s, h + 1)
         /\ OrderlyIn(s, h + 1) => /\ OrderlyIn(s, h)
                                   /\ StdinIn(s, h) => s[h + 1].type # "PARAMS"
                                   /\ EndedIn(s, h) => s[h + 1].type # "STDIN"
<1> DEFINE n == h + 1
<1>1. /\ \A j \in 1..h : CurrentIn(s, n, j) <=> CurrentIn(s, h, j)
      /\ CurrentIn(s, n, n) <=> LiveIn(s, h)
  BY LiveNext
<1>2. \A j : j \in 1..n <=> j \in 1..h \/ j = n
  OBVIOUS
<1>3. \A j \in 1..h : j < n
  OBVIOUS
<1> HIDE DEF n
<1>4. StdinIn(s, n) <=> StdinIn(s, h) \/ (s[n].type = "STDIN" /\ LiveIn(s, h))
  BY <1>1, <1>2, Zenon DEF StdinIn
<1>5. EndedIn(s, n) <=> EndedIn(s, h) \/ (s[n].type = "STDIN" /\ LiveIn(s, h) /\ s[n].data = <<>>)
  BY <1>1, <1>2, Zenon DEF EndedIn
<1>6. SplitIn(s, h) => SplitIn(s, n)
  BY <1>1, <1>2, Zenon DEF SplitIn
<1>7. ASSUME OrderlyIn(s, n) PROVE OrderlyIn(s, h)
  BY <1>1, <1>2, <1>7, Zenon DEF OrderlyIn
<1>8. ASSUME OrderlyIn(s, n), StdinIn(s, h) PROVE s[n].type # "PARAMS"
  <2>1. PICK j \in 1..h : s[j].type = "STDIN" /\ CurrentIn(s, h, j)
    BY <1>8, Zenon DEF StdinIn
  <2>2. j \in 1..n /\ n \in 1..n /\ j < n /\ CurrentIn(s, n, j)
    BY <1>1, <1>2, <1>3, <2>1, Zenon
  <2> QED
    BY <1>8, <2>1, <2>2, Zenon DEF OrderlyIn
<1>9. ASSUME OrderlyIn(s, n), EndedIn(s, h) PROVE s[n].type # "STDIN"
  <2>1. PICK j \in 1..h : s[j].type = "STDIN" /\ CurrentIn(s, h, j) /\ s[j].data = <<>>
    BY <1>9, Zenon DEF EndedIn
  <2>2. j \in 1..n /\ n \in 1..n /\ j < n /\ CurrentIn(s, n, j)
    BY <1>1, <1>2, <1>3, <2>1, Zenon
  <2> QED
    BY <1>9, <2>1, <2>2, Zenon DEF OrderlyIn
<1> QED
  BY <1>4, <1>5, <1>6, <1>7, <1>8, <1>9, Zenon DEF n

(* If the records are in order with the next one, they are without it.     *)
LEMMA CleanNext ==
  ASSUME NEW s, NEW h, Upcoming(s, h), s[h + 1].type # "ABORT", Clean(s, h + 1)
  PROVE  Clean(s, h)
<1> DEFINE F == GivenTo(s, h, "STDIN")
           G == GivenTo(s, h + 1, "STDIN")
           c == s[h + 1].data
<1>1. h \in Nat /\ s[h + 1] \in RecordSet
  BY UpcomingFacts
<1>2. OrderlyIn(s, h) /\ ~SplitIn(s, h)
  BY <1>1, OrderNext, Zenon DEF Clean
<1>3. F \in Seq(Char) /\ (G = F \/ (G = F \o c /\ s[h + 1].type = "STDIN"))
  BY UpcomingGiven, Zenon
<1>4. s[h + 1].type = "STDIN" => c \in Seq(Char)
  <2>1. s[h + 1].type # "PARAMS" => c \in Seq(Char)
    BY <1>1, RecordTypes, Zenon
  <2>2. s[h + 1].type = "STDIN" => s[h + 1].type # "PARAMS"
    OBVIOUS
  <2> QED
    BY <2>1, <2>2, Zenon
<1>5. ReturnsLast(G)
  BY Zenon DEF Clean
<1> HIDE DEF F, G, c
<1>6. ReturnsLast(F)
  <2>1. CASE G = F
    BY <1>5, <2>1, Zenon
  <2>2. CASE G = F \o c /\ c \in Seq(Char)
    <3>1. ReturnsLast(F \o c) /\ F \in Seq(Char) /\ c \in Seq(Char)
      BY <1>3, <1>5, <2>2, Zenon
    <3> QED
      BY <3>1, ReturnsLastParts
  <2> QED
    BY <1>3, <1>4, <2>1, <2>2, Zenon
<1> QED
  BY <1>2, <1>6, Zenon DEF Clean, F

-----------------------------------------------------------------------------
(* What a record does to the client is what it should, by its type.        *)

SameFields(k, k2) ==
    /\ k2.server = k.server /\ k2.script = k.script /\ k2.path = k.path /\ k2.query = k.query

(* FieldsOf depends on four fields of the client.                          *)
LEMMA FieldsKept ==
  ASSUME NEW k, NEW k2, NEW ps, SameFields(k, k2), FieldsOf(k, ps)
  PROVE  FieldsOf(k2, ps)
<1>1. /\ k.server = LastValue(ps, "SERVER_NAME")
      /\ ScriptOk(k.script, LastValue(ps, "SCRIPT_NAME"))
      /\ PathOk(k.path, LastValue(ps, "PATH_INFO"))
      /\ QueryOk(k.query, LastValue(ps, "QUERY_STRING"))
  BY FieldsOfDef, Zenon
<1>2. /\ k2.server = LastValue(ps, "SERVER_NAME")
      /\ ScriptOk(k2.script, LastValue(ps, "SCRIPT_NAME"))
      /\ PathOk(k2.path, LastValue(ps, "PATH_INFO"))
      /\ QueryOk(k2.query, LastValue(ps, "QUERY_STRING"))
  BY <1>1, Zenon DEF SameFields
<1> QED
  BY <1>2, FieldsOfDef, Zenon

(* FormState depends on three others.                                      *)
LEMMA FormKept ==
  ASSUME NEW k, NEW k2, NEW F, NEW ended, NEW ended2, FormState(k, F, ended), ended <=> ended2,
         k2.body = k.body, k2.bodylen = k.bodylen, k2.bodydone = k.bodydone
  PROVE  FormState(k2, F, ended2)
  BY Zenon DEF FormState

(* A new client has nothing yet.                                           *)
LEMMA NewClient ==
  ASSUME NEW live \in BOOLEAN
  PROVE  /\ [NoClient EXCEPT !.live = live] \in ClientSet
         /\ [NoClient EXCEPT !.live = live].live = live
         /\ FieldsOf([NoClient EXCEPT !.live = live], <<>>)
         /\ FormState([NoClient EXCEPT !.live = live], <<>>, FALSE)
<1> DEFINE k == [NoClient EXCEPT !.live = live]
<1>1. /\ k \in ClientSet /\ k.live = live /\ k.server = Null /\ k.script = Null /\ k.path = Null
      /\ k.query = Null /\ k.body = Null /\ k.bodylen = 0 /\ k.bodydone = FALSE
  <2>1. "UNKNOWN" \in Str
    BY DEF Str
  <2> QED
    BY <2>1, NullStr, Zenon DEF NoClient, ClientSet
<1> HIDE DEF k
<1>2. \A name : LastValue(<<>>, name) = Null
  <2> SUFFICES ASSUME NEW name PROVE LastValue(<<>>, name) = Null
    OBVIOUS
  <2>1. FitsAt(<<>>, name) = {}
    BY DEF FitsAt
  <2> QED
    BY <2>1, LastValueDef, Zenon
<1>3. FieldsOf(k, <<>>)
  <2>1. /\ k.server = LastValue(<<>>, "SERVER_NAME")
        /\ ScriptOk(k.script, LastValue(<<>>, "SCRIPT_NAME"))
        /\ PathOk(k.path, LastValue(<<>>, "PATH_INFO"))
        /\ QueryOk(k.query, LastValue(<<>>, "QUERY_STRING"))
    BY <1>1, <1>2, Zenon DEF ScriptOk, PathOk, QueryOk
  <2> QED
    BY <2>1, FieldsOfDef, Zenon
<1>4. FindQ(<<>>) = 0
  <2> DEFINE e == <<>>
  <2>1. e \in Seq(Char) /\ Len(e) = 0
    OBVIOUS
  <2> HIDE DEF e
  <2>2. IsFindQ(FindQ(e), e)
    BY <2>1, FindQIs, Zenon
  <2>3. FindQ(e) = 0
    BY <2>1, <2>2 DEF IsFindQ
  <2> QED
    BY <2>3 DEF e
<1>5. FormState(k, <<>>, FALSE)
  BY <1>1, <1>4, Zenon DEF FormState
<1> QED
  BY <1>1, <1>3, <1>5, Zenon DEF k

(* A record that says nothing to the client leaves it.                     *)
LEMMA ClientSame ==
  ASSUME NEW s, NEW h, Upcoming(s, h), NEW k, ClientRight(s, h, k),
         s[h + 1].type # "ABORT", s[h + 1].type = "BEGIN" => k.live,
         k.live => s[h + 1].type # "PARAMS" /\ s[h + 1].type # "STDIN"
  PROVE  ClientRight(s, h + 1, k)
<1> DEFINE n == h + 1
<1>1. h \in Nat
  BY UpcomingFacts
<1>2. LiveIn(s, n) <=> LiveIn(s, h) \/ s[n].type = "BEGIN"
  BY <1>1, LiveNext
<1>3. k \in ClientSet /\ (k.live <=> LiveIn(s, h))
  BY Zenon DEF ClientRight
<1>4. k.live <=> LiveIn(s, n)
  BY <1>2, <1>3, Zenon
<1>5. /\ GivenTo(s, n, "PARAMS") = GivenTo(s, h, "PARAMS")
      /\ GivenTo(s, n, "STDIN") = GivenTo(s, h, "STDIN")
  BY <1>3, UpcomingGiven, Zenon
<1>6. (StdinIn(s, n) <=> StdinIn(s, h)) /\ (EndedIn(s, n) <=> EndedIn(s, h))
  BY <1>1, <1>3, OrderNext, Zenon
<1>7. Clean(s, n) => Clean(s, h)
  BY CleanNext, Zenon
<1> HIDE DEF n
<1>8. k.live => FieldsOf(k, GivenTo(s, n, "PARAMS"))
  BY <1>5, Zenon DEF ClientRight
<1>9. ASSUME k.live, k.method = "POST" \/ ~StdinIn(s, n), Clean(s, n)
      PROVE  FormState(k, GivenTo(s, n, "STDIN"), EndedIn(s, n))
  <2>1. FormState(k, GivenTo(s, h, "STDIN"), EndedIn(s, h))
    BY <1>6, <1>7, <1>9, Zenon DEF ClientRight
  <2>2. EndedIn(s, h) <=> EndedIn(s, n)
    BY <1>6, Zenon
  <2>3. FormState(k, GivenTo(s, h, "STDIN"), EndedIn(s, n))
    BY <2>1, <2>2, Zenon DEF FormState
  <2> QED
    BY <1>5, <2>3, Zenon
<1>10. ClientRight(s, n, k)
  BY <1>3, <1>4, <1>8, <1>9, Zenon DEF ClientRight
<1> QED
  BY <1>10 DEF n

(* Where there is no request, no client is right.                          *)
LEMMA NoClientRight ==
  ASSUME NEW s, NEW h \in Nat, ~LiveIn(s, h)
  PROVE  ClientRight(s, h, NoClient)
<1>1. "UNKNOWN" \in Str
  BY DEF Str
<1>2. NoClient \in ClientSet /\ ~NoClient.live
  BY <1>1, NullStr DEF NoClient, ClientSet
<1> QED
  BY <1>2, Zenon DEF ClientRight

(* After FCGI_ABORT_REQUEST there is no request.                           *)
LEMMA ClientAbort ==
  ASSUME NEW s, NEW h, Upcoming(s, h), s[h + 1].type = "ABORT"
  PROVE  ClientRight(s, h + 1, NoClient)
<1>1. h \in Nat
  BY UpcomingFacts
<1>2. ~LiveIn(s, h + 1)
  BY <1>1, LiveNext, Zenon
<1>3. h + 1 \in Nat
  BY <1>1
<1> QED
  BY <1>2, <1>3, NoClientRight, Zenon

(* After FCGI_BEGIN_REQUEST there is one, which was given nothing.         *)
LEMMA ClientBegin ==
  ASSUME NEW s, NEW h, Upcoming(s, h), ~LiveIn(s, h), s[h + 1].type = "BEGIN"
  PROVE  ClientRight(s, h + 1, [NoClient EXCEPT !.live = TRUE])
<1> DEFINE n == h + 1
           k == [NoClient EXCEPT !.live = TRUE]
<1>1. h \in Nat /\ Typed(s, h, "PARAMS", ParamSet) /\ Typed(s, h, "STDIN", Char)
  BY UpcomingFacts
<1>2. s[n].type # "ABORT" /\ s[n].type # "PARAMS" /\ s[n].type # "STDIN"
  OBVIOUS
<1>3. LiveIn(s, n)
  BY <1>1, <1>2, LiveNext
<1>4. GivenTo(s, h, "PARAMS") = <<>> /\ GivenTo(s, h, "STDIN") = <<>>
  BY <1>1, GivenNone, Zenon
<1>5. GivenTo(s, n, "PARAMS") = <<>> /\ GivenTo(s, n, "STDIN") = <<>>
  BY <1>2, <1>4, UpcomingGiven, Zenon
<1>6. \A j \in 1..h : ~CurrentIn(s, h, j)
  BY <1>1, LiveNext
<1>7. ~EndedIn(s, h)
  BY <1>6, Zenon DEF EndedIn
<1>8. ~EndedIn(s, n)
  BY <1>1, <1>2, <1>7, OrderNext, Zenon
<1>9. k \in ClientSet /\ k.live /\ FieldsOf(k, <<>>) /\ FormState(k, <<>>, FALSE)
  BY NewClient, Zenon
<1> HIDE DEF n, k
<1>10. FormState(k, <<>>, EndedIn(s, n))
  BY <1>8, <1>9, FormKept, Zenon
<1>11. ClientRight(s, n, k)
  BY <1>3, <1>5, <1>9, <1>10, Zenon DEF ClientRight
<1> QED
  BY <1>11 DEF n, k

(* After FCGI_PARAMS: the parameters of the record have been stored.       *)
LEMMA ClientParams ==
  ASSUME NEW s, NEW h, Upcoming(s, h), NEW k, ClientRight(s, h, k), k.live,
         s[h + 1].type = "PARAMS", NEW k2, k2 \in ClientSet, k2.live = k.live,
         k2.body = k.body, k2.bodylen = k.bodylen, k2.bodydone = k.bodydone,
         FieldsOf(k2, GivenTo(s, h, "PARAMS") \o s[h + 1].data)
  PROVE  ClientRight(s, h + 1, k2)
<1> DEFINE n == h + 1
<1>1. h \in Nat
  BY UpcomingFacts
<1>2. s[n].type # "ABORT" /\ s[n].type # "BEGIN" /\ s[n].type # "STDIN"
  OBVIOUS
<1>3. k \in ClientSet /\ LiveIn(s, h)
  BY Zenon DEF ClientRight
<1>4. LiveIn(s, n)
  BY <1>1, <1>2, <1>3, LiveNext
<1>5. /\ GivenTo(s, n, "PARAMS") = GivenTo(s, h, "PARAMS") \o s[n].data
      /\ GivenTo(s, n, "STDIN") = GivenTo(s, h, "STDIN")
  BY <1>2, <1>3, UpcomingGiven, Zenon
<1>6. /\ EndedIn(s, n) <=> EndedIn(s, h)
      /\ OrderlyIn(s, n) => ~StdinIn(s, h)
  BY <1>1, <1>2, OrderNext, Zenon
<1>7. Clean(s, n) => Clean(s, h) /\ ~StdinIn(s, h)
  BY <1>2, <1>6, CleanNext, Zenon DEF Clean
<1>8. /\ k2 \in ClientSet /\ k2.live = k.live /\ k2.body = k.body /\ k2.bodylen = k.bodylen
      /\ k2.bodydone = k.bodydone /\ FieldsOf(k2, GivenTo(s, n, "PARAMS"))
  BY <1>5, Zenon
<1> HIDE DEF n
<1>9. ASSUME Clean(s, n) PROVE FormState(k2, GivenTo(s, n, "STDIN"), EndedIn(s, n))
  <2>1. FormState(k, GivenTo(s, h, "STDIN"), EndedIn(s, h))
    BY <1>7, <1>9, Zenon DEF ClientRight
  <2>2. EndedIn(s, h) <=> EndedIn(s, n)
    BY <1>6, Zenon
  <2>3. k2.body = k.body /\ k2.bodylen = k.bodylen /\ k2.bodydone = k.bodydone
    BY <1>8, Zenon
  <2>4. FormState(k2, GivenTo(s, h, "STDIN"), EndedIn(s, n))
    BY <2>1, <2>2, <2>3, Zenon DEF FormState
  <2> QED
    BY <1>5, <2>4, Zenon
<1>10. ClientRight(s, n, k2)
  BY <1>4, <1>8, <1>9, Zenon DEF ClientRight
<1> QED
  BY <1>10 DEF n

(* FCGI_STDIN is ignored unless the request is a POST.                     *)
LEMMA ClientStdinOther ==
  ASSUME NEW s, NEW h, Upcoming(s, h), NEW k, ClientRight(s, h, k), k.live,
         s[h + 1].type = "STDIN", k.method # "POST"
  PROVE  ClientRight(s, h + 1, k)
<1> DEFINE n == h + 1
<1>1. h \in Nat
  BY UpcomingFacts
<1>2. s[n].type # "ABORT" /\ s[n].type # "BEGIN" /\ s[n].type # "PARAMS"
  OBVIOUS
<1>3. k \in ClientSet /\ LiveIn(s, h) /\ FieldsOf(k, GivenTo(s, h, "PARAMS"))
  BY Zenon DEF ClientRight
<1>4. LiveIn(s, n)
  BY <1>1, <1>2, <1>3, LiveNext
<1>5. GivenTo(s, n, "PARAMS") = GivenTo(s, h, "PARAMS")
  BY <1>2, <1>3, UpcomingGiven, Zenon
<1>6. StdinIn(s, n)
  BY <1>1, <1>2, <1>3, OrderNext, Zenon
<1> HIDE DEF n
<1>7. ClientRight(s, n, k)
  BY <1>3, <1>4, <1>5, <1>6, Zenon DEF ClientRight
<1> QED
  BY <1>7 DEF n

(* After FCGI_STDIN with content: fcgi_parse_form has seen it.             *)
LEMMA ClientStdin ==
  ASSUME NEW s, NEW h, Upcoming(s, h), NEW k, ClientRight(s, h, k), k.live,
         s[h + 1].type = "STDIN", k.method = "POST", s[h + 1].data # <<>>
  PROVE  ClientRight(s, h + 1, ParseForm(k, s[h + 1].data))
<1> DEFINE n == h + 1
           F == GivenTo(s, h, "STDIN")
           c == s[n].data
           k2 == ParseForm(k, c)
<1>1. h \in Nat /\ s[n] \in RecordSet /\ Typed(s, h, "STDIN", Char)
  BY UpcomingFacts
<1>2. s[n].type # "ABORT" /\ s[n].type # "BEGIN" /\ s[n].type # "PARAMS"
  OBVIOUS
<1>3. k \in ClientSet /\ LiveIn(s, h) /\ FieldsOf(k, GivenTo(s, h, "PARAMS"))
  BY Zenon DEF ClientRight
<1>4. LiveIn(s, n)
  BY <1>1, <1>2, <1>3, LiveNext
<1>5. GivenTo(s, n, "PARAMS") = GivenTo(s, h, "PARAMS") /\ GivenTo(s, n, "STDIN") = F \o c
  BY <1>2, <1>3, UpcomingGiven, Zenon
<1>6. /\ EndedIn(s, n) <=> EndedIn(s, h)
      /\ OrderlyIn(s, n) => ~EndedIn(s, h)
  BY <1>1, <1>2, OrderNext, Zenon
<1>7. c \in Seq(Char) /\ F \in Seq(Char)
  <2>1. c \in Seq(Char)
    BY <1>1, <1>2, RecordTypes, Zenon
  <2>2. F \in Seq(Char)
    BY <1>2, UpcomingGiven, Zenon
  <2> QED
    BY <2>1, <2>2
<1>8. Clean(s, n) => Clean(s, h) /\ ~EndedIn(s, h) /\ ReturnsLast(F \o c)
  BY <1>2, <1>5, <1>6, CleanNext, Zenon DEF Clean
<1>9. ~SplitIn(s, h) => F = <<>> \/ F[Len(F)] # "q"
  BY <1>1, GivenLast, Zenon
<1>10. k2 \in ClientSet /\ k2.live = k.live /\ SameFields(k, k2)
  BY <1>3, <1>7, ParseFormType, Zenon DEF SameFields
<1> HIDE DEF n, F, c, k2
<1>11. FieldsOf(k2, GivenTo(s, n, "PARAMS"))
  BY <1>3, <1>5, <1>10, FieldsKept, Zenon
<1>12. ASSUME Clean(s, n) PROVE FormState(k2, GivenTo(s, n, "STDIN"), EndedIn(s, n))
  <2>1. FormState(k, F, EndedIn(s, h))
    BY <1>8, <1>12, Zenon DEF ClientRight, F
  <2>2. EndedIn(s, h) <=> FALSE
    BY <1>8, <1>12, Zenon
  <2>3. FormState(k, F, FALSE)
    BY <2>1, <2>2, Zenon DEF FormState
  <2>4. (F = <<>> \/ F[Len(F)] # "q") /\ ReturnsLast(F \o c)
    BY <1>8, <1>9, <1>12, Zenon DEF Clean
  <2>5. FormState(ParseForm(k, c), F \o c, FALSE)
    BY <1>3, <1>7, <2>3, <2>4, ParseFormKeeps, Zenon
  <2>6. FormState(k2, F \o c, FALSE)
    BY <2>5, Zenon DEF k2
  <2>7. FALSE <=> EndedIn(s, n)
    BY <1>6, <2>2, Zenon
  <2>8. FormState(k2, F \o c, EndedIn(s, n))
    BY <2>6, <2>7, FormKept, Zenon
  <2> QED
    BY <1>5, <2>8, Zenon
<1>13. ClientRight(s, n, k2)
  BY <1>4, <1>10, <1>11, <1>12, Zenon DEF ClientRight
<1> QED
  BY <1>13 DEF n, k2, c

(* After the empty FCGI_STDIN: the form is over and the request starts.    *)
LEMMA ClientStdinEnd ==
  ASSUME NEW s, NEW h, Upcoming(s, h), NEW k, ClientRight(s, h, k), k.live,
         s[h + 1].type = "STDIN", k.method = "POST", s[h + 1].data = <<>>
  PROVE  ClientRight(s, h + 1, [k EXCEPT !.bodydone = TRUE, !.started = TRUE])
<1> DEFINE n == h + 1
           F == GivenTo(s, h, "STDIN")
           k2 == [k EXCEPT !.bodydone = TRUE, !.started = TRUE]
<1>1. h \in Nat
  BY UpcomingFacts
<1>2. s[n].type # "ABORT" /\ s[n].type # "BEGIN" /\ s[n].type # "PARAMS"
  OBVIOUS
<1>3. k \in ClientSet /\ LiveIn(s, h) /\ FieldsOf(k, GivenTo(s, h, "PARAMS"))
  BY Zenon DEF ClientRight
<1>4. LiveIn(s, n)
  BY <1>1, <1>2, <1>3, LiveNext, Zenon
<1>5. /\ GivenTo(s, n, "PARAMS") = GivenTo(s, h, "PARAMS")
      /\ GivenTo(s, n, "STDIN") = F \o <<>> /\ F \in Seq(Char)
  BY <1>2, <1>3, UpcomingGiven, Zenon
<1>6. EndedIn(s, n)
  BY <1>1, <1>2, <1>3, OrderNext, Zenon
<1>7. Clean(s, n) => Clean(s, h)
  BY <1>2, CleanNext, Zenon
<1>8. /\ k2 \in ClientSet /\ k2.live = k.live /\ SameFields(k, k2)
      /\ k2.body = k.body /\ k2.bodylen = k.bodylen /\ k2.bodydone
  BY <1>3, Zenon DEF ClientSet, SameFields
<1> HIDE DEF n, F, k2
<1>9. GivenTo(s, n, "STDIN") = F
  BY <1>5
<1>10. FieldsOf(k2, GivenTo(s, n, "PARAMS"))
  BY <1>3, <1>5, <1>8, FieldsKept, Zenon
<1>11. ASSUME Clean(s, n) PROVE FormState(k2, GivenTo(s, n, "STDIN"), EndedIn(s, n))
  <2>1. FormState(k, F, EndedIn(s, h))
    BY <1>7, <1>11, Zenon DEF ClientRight, F
  <2>2. FormState(k2, F, EndedIn(s, n))
    BY <1>6, <1>8, <2>1, Zenon DEF FormState
  <2> QED
    BY <1>9, <2>2, Zenon
<1>12. ClientRight(s, n, k2)
  BY <1>4, <1>8, <1>10, <1>11, Zenon DEF ClientRight
<1> QED
  BY <1>12 DEF n, k2

-----------------------------------------------------------------------------
(* Where the automaton is in the input.                                    *)

Rest(i, s, h) == Drain(i, Len(Content(s[h + 1])))

(* The whole content of a record is in the buffer i; w has not arrived.    *)
HasBody(i, w, s, h) ==
    /\ i \in Seq(Units) /\ w \in Seq(Units)
    /\ i \o w = Content(s[h + 1]) \o After(s, h + 1)
    /\ Len(Content(s[h + 1])) <= Len(i)

(* With the content gone the padding is next; when it is gone, the next    *)
(* record; and if not all of it is there, padding is what will come.       *)
Placed(i, w, s, h) ==
    /\ Drain(Rest(i, s, h), s[h + 1].pad) \in Seq(Units)
    /\ Len(Rest(i, s, h)) >= s[h + 1].pad =>
           Drain(Rest(i, s, h), s[h + 1].pad) \o w = Wire(s, (h + 1) + 1)
    /\ Len(Rest(i, s, h)) < s[h + 1].pad =>
           /\ Drain(Rest(i, s, h), s[h + 1].pad) \o w # <<>>
           /\ (Drain(Rest(i, s, h), s[h + 1].pad) \o w)[1] = <<"pad">>
    /\ \A j \in 1..Len(Content(s[h + 1])) : i[j] = Content(s[h + 1])[j]
    /\ Len(i) > Len(Content(s[h + 1])) =>
           i[Len(Content(s[h + 1])) + 1][1] \in {"pad", "header"}

(* After the content and the padding are drained, or the padding is left   *)
(* to drain, the buffer is at the next record.                             *)
LEMMA NextPlace ==
  ASSUME NEW s, NEW h, Upcoming(s, h), NEW i, NEW w, HasBody(i, w, s, h)
  PROVE  Placed(i, w, s, h)
<1> DEFINE n == h + 1
           rec == s[n]
           c == Content(rec)
           a == After(s, n)
           p == Padding(rec)
           x == Wire(s, n + 1)
           u == Rest(i, s, h)
           pad == rec.pad
           d == Drain(u, pad)
<1>1. s \in Seq(RecordSet) /\ n \in 1..Len(s) /\ rec \in RecordSet
  BY UpcomingFacts
<1>2. /\ i \in Seq(Units) /\ w \in Seq(Units) /\ i \o w = c \o a /\ Len(c) <= Len(i)
      /\ u = Drain(i, Len(c))
  BY Zenon DEF HasBody, Rest
<1> HIDE DEF n
<1>3. /\ c \in Seq(Units) /\ x \in Seq(Units) /\ a \in Seq(Units) /\ a = p \o x
      /\ Len(a) > 0 => a[1][1] \in {"pad", "header"}
  BY <1>1, AfterFacts, Zenon DEF After
<1>4. p \in Seq(Units) /\ Len(p) = pad /\ pad \in Nat /\ \A j \in 1..pad : p[j] = <<"pad">>
  BY <1>1, PaddingFacts
<1> HIDE DEF c, a, p, x, u, pad
<1>5. /\ \A j \in 1..Len(c) : i[j] = c[j]
      /\ u \in Seq(Units) /\ u \o w = a
      /\ Len(i) > Len(c) => Len(a) > 0 /\ i[Len(c) + 1] = a[1]
  <2>1. i \in Seq(Units) /\ w \in Seq(Units) /\ c \in Seq(Units) /\ a \in Seq(Units)
    BY <1>2, <1>3
  <2>2. i \o w = c \o a /\ Len(c) <= Len(i)
    BY <1>2
  <2>3. /\ \A j \in 1..Len(c) : i[j] = c[j]
        /\ Drain(i, Len(c)) \in Seq(Units) /\ Drain(i, Len(c)) \o w = a
        /\ Len(i) > Len(c) => Len(a) > 0 /\ i[Len(c) + 1] = a[1]
    <3>1. Joins(Units, i, w, c, a)
      BY <2>1, <2>2, Zenon DEF Joins
    <3>2. Spliced(Units, i, w, c, a)
      BY <3>1, Splice, Zenon
    <3> QED
      BY <3>2, Zenon DEF Spliced
  <2> QED
    BY <1>2, <2>3, Zenon
<1>6. u \in Seq(Units) /\ w \in Seq(Units) /\ p \in Seq(Units) /\ x \in Seq(Units) /\ u \o w = p \o x
  BY <1>2, <1>3, <1>4, <1>5, Zenon
<1>7. Len(u) \in Nat /\ Len(w) \in Nat /\ Len(x) \in Nat
  BY <1>6
<1>8. ASSUME Len(u) >= pad PROVE d \in Seq(Units) /\ d \o w = x
  <2>1. Len(p) <= Len(u)
    BY <1>4, <1>7, <1>8
  <2>2. Drain(u, Len(p)) \in Seq(Units) /\ Drain(u, Len(p)) \o w = x
    <3>1. Joins(Units, u, w, p, x)
      BY <1>6, <2>1, Zenon DEF Joins
    <3>2. Spliced(Units, u, w, p, x)
      BY <3>1, Splice, Zenon
    <3> QED
      BY <3>2, Zenon DEF Spliced
  <2> QED
    BY <1>4, <2>2, Zenon
<1>9. ASSUME Len(u) < pad PROVE d \in Seq(Units) /\ d \o w # <<>> /\ (d \o w)[1] = <<"pad">>
  <2>1. d = <<>>
    <3>1. pad + 1 > Len(u)
      BY <1>4, <1>7, <1>9
    <3> QED
      BY <1>4, <1>6, <1>7, <3>1 DEF Drain
  <2> DEFINE z == u \o w
             y == p \o x
             m == Len(u) + 1
  <2>2. /\ z \in Seq(Units) /\ Len(z) = Len(u) + Len(w)
        /\ \A j \in 1..Len(w) : z[Len(u) + j] = w[j]
    <3>1. u \in Seq(Units) /\ w \in Seq(Units)
      BY <1>6
    <3> QED
      BY <3>1, ConcatAt
  <2>3. /\ Len(y) = Len(p) + Len(x)
        /\ \A j \in 1..Len(p) : y[j] = p[j]
    BY <1>6, ConcatAt
  <2>4. z = y
    BY <1>6
  <2> HIDE DEF z, y
  <2>5. Len(w) > 0
    BY <1>4, <1>7, <1>9, <2>2, <2>3, <2>4
  <2>6. m \in 1..pad /\ 1 \in 1..Len(w)
    BY <1>4, <1>7, <1>9, <2>5
  <2>7. w[1] = <<"pad">>
    <3>1. z[m] = w[1]
      BY <2>2, <2>6
    <3>2. y[m] = p[m] /\ p[m] = <<"pad">>
      BY <1>4, <2>3, <2>6, Zenon
    <3> QED
      BY <2>4, <3>1, <3>2, Zenon
  <2>8. <<>> \o w = w
    BY <1>6
  <2>9. w # <<>>
    BY <1>6, <2>5
  <2>10. <<>> \in Seq(Units)
    OBVIOUS
  <2> QED
    BY <2>1, <2>7, <2>8, <2>9, <2>10, Zenon
<1>10. Len(u) >= pad \/ Len(u) < pad
  BY <1>4, <1>7
<1>11. Len(i) > Len(c) => i[Len(c) + 1][1] \in {"pad", "header"}
  BY <1>3, <1>5, Zenon
<1> QED
  BY <1>5, <1>8, <1>9, <1>10, <1>11, Zenon DEF Placed, n, c, x, u, pad

(* A header in the buffer is that of the next record, and its content is   *)
(* next.                                                                   *)
LEMMA NextHeader ==
  ASSUME NEW s \in Seq(RecordSet), NEW h \in Nat, h <= Len(s),
         NEW i \in Seq(Units), NEW w \in Seq(Units),
         i \o w = Wire(s, h + 1), Len(i) >= HdrSize
  PROVE  /\ h < Len(s) /\ HdrSize \in Nat \ {0}
         /\ \A j \in 1..HdrSize : i[j] = <<"header", h + 1, j>>
         /\ Drain(i, HdrSize) \in Seq(Units)
         /\ Drain(i, HdrSize) \o w = Content(s[h + 1]) \o After(s, h + 1)
<1> DEFINE n == h + 1
           x == Wire(s, n)
<1>1. Len(s) \in Nat /\ n \in Nat /\ Len(i) \in Nat /\ Len(w) \in Nat
  OBVIOUS
<1>2. /\ Header(n) \in Seq(Units) /\ Len(Header(n)) = HdrSize /\ HdrSize \in Nat \ {0}
      /\ \A j \in 1..HdrSize : Header(n)[j] = <<"header", n, j>>
  BY <1>1, HeaderFacts
<1>3. h < Len(s)
  <2> SUFFICES ASSUME h = Len(s) PROVE FALSE
    BY <1>1
  <2>1. Wire(s, h + 1) = <<>>
    BY WireDef, Zenon
  <2>2. i \o w = <<>>
    BY <2>1
  <2>3. Len(i) + Len(w) = 0
    BY <2>2
  <2> QED
    BY <1>1, <1>2, <2>3
<1>4. n \in 1..Len(s)
  BY <1>1, <1>3
<1> HIDE DEF n
<1> DEFINE c == Header(n)
           y == Content(s[n]) \o After(s, n)
<1>5. x = c \o y /\ c \in Seq(Units) /\ Content(s[n]) \in Seq(Units) /\ After(s, n) \in Seq(Units)
  BY <1>4, AfterFacts, Zenon
<1>6. y \in Seq(Units)
  BY <1>5, ConcatAt
<1>7. i \o w = x
  BY DEF n
<1> HIDE DEF c, y, x
<1>8. i \o w = c \o y /\ Len(c) <= Len(i) /\ c \in Seq(Units)
  <2>1. Len(c) = HdrSize
    BY <1>2 DEF c
  <2> QED
    BY <1>1, <1>2, <1>5, <1>7, <2>1, Zenon
<1>9. /\ \A j \in 1..Len(c) : i[j] = c[j]
      /\ Drain(i, Len(c)) \in Seq(Units) /\ Drain(i, Len(c)) \o w = y
  <2>1. Joins(Units, i, w, c, y)
    BY <1>6, <1>8, Zenon DEF Joins
  <2>2. Spliced(Units, i, w, c, y)
    BY <2>1, Splice, Zenon
  <2> QED
    BY <2>2, Zenon DEF Spliced
<1>10. \A j \in 1..HdrSize : i[j] = <<"header", n, j>>
  BY <1>2, <1>9, Zenon DEF c
<1>11. Drain(i, HdrSize) \in Seq(Units) /\ Drain(i, HdrSize) \o w = y
  BY <1>2, <1>9, Zenon DEF c
<1> QED
  BY <1>2, <1>3, <1>10, <1>11, Zenon DEF n, y

(* Only a record without parameters has no content.                        *)
LEMMA EmptyParams ==
  ASSUME NEW rec \in RecordSet, rec.type = "PARAMS", Len(Content(rec)) = 0
  PROVE  rec.data = <<>>
<1> DEFINE d == rec.data
           n == Len(d)
           e == Len(EncodeParam(d[n]))
           l == LenTo(d, n)
           m == LenTo(d, n - 1)
<1>1. /\ d \in Seq(ParamSet) /\ rec.over \in Nat
      /\ rec.over # 0 => rec.over < e
  BY RecordTypes
<1>2. l - rec.over = 0
  BY ContentFacts
<1> SUFFICES ASSUME d # <<>> PROVE FALSE
  OBVIOUS
<1> HIDE DEF d
<1>3. n \in 1..Len(d) /\ n \in 0..Len(d) /\ n - 1 \in 0..Len(d)
  BY <1>1
<1>4. /\ \A i \in 0..Len(d) : LenTo(d, i) \in Nat /\ i <= LenTo(d, i)
      /\ \A i \in 1..Len(d) : LenTo(d, i) = LenTo(d, i - 1) + Len(EncodeParam(d[i]))
  BY <1>1, EncodeParamsAt
<1>5. l \in Nat /\ n <= l /\ m \in Nat /\ l = m + e
  BY <1>3, <1>4, Zenon
<1>6. e \in Nat
  <2> DEFINE q == d[n]
  <2>1. q \in ParamSet
    BY <1>1, <1>3
  <2> HIDE DEF q
  <2>2. EncodeParam(q) \in Seq(Units)
    BY <2>1, EncodeParamAt
  <2>3. Len(EncodeParam(q)) \in Nat
    BY <2>2
  <2> QED
    BY <2>3 DEF q
<1> HIDE DEF e, l, m
<1>7. n > 0
  BY <1>3
<1> QED
  BY <1>1, <1>2, <1>3, <1>5, <1>6, <1>7

(* Draining nothing.                                                       *)
LEMMA DrainZero ==
  ASSUME NEW S, NEW s \in Seq(S)
  PROVE  Drain(s, 0) = s
  BY DEF Drain

-----------------------------------------------------------------------------
(* The steps.                                                              *)

(* What the web server sends is a stream of records.                       *)
LEMMA StreamType ==
  ASSUME sent \in Streams
  PROVE  sent \in Seq(RecordSet) /\ Len(sent) \in Nat
<1>1. sent \in Seq(RecordSet)
  BY FramingAssumption
<1> QED
  BY <1>1

(* Once a record was not consumed whole nothing more is claimed.           *)
LEMMA NotWhole ==
  ASSUME FInv, sent' = sent, handled' = handled \/ handled' = handled + 1,
         ~WholeTo(sent, handled)
  PROVE  FInv'
<1>1. sent \in Streams /\ handled \in Nat
  BY Zenon DEF FInv
<1>2. Len(sent) \in Nat
  BY <1>1, StreamType
<1>3. ~WholeTo(sent, handled + 1)
  <2>1. PICK j \in 1..Len(sent) : j <= handled + 1 /\ ~Whole(sent[j])
    BY Zenon DEF WholeTo
  <2>2. j <= (handled + 1) + 1
    BY <1>1, <2>1
  <2> QED
    BY <2>1, <2>2, Zenon DEF WholeTo
<1>4. handled' \in Nat
  BY <1>1
<1>5. ~WholeTo(sent', handled')
  BY <1>3, Zenon
<1> QED
  BY <1>1, <1>4, <1>5, Zenon DEF FInv

(* fcgi_error closes the connection, of which nothing is said any more.    *)
LEMMA ErrorKeeps ==
  ASSUME FInv, FcgiError("closed")
  PROVE  FInv'
<1>1. /\ sent' = sent /\ net' = net /\ src' = src /\ clt' = clt /\ handled' = handled
      /\ state' = "closed"
  BY Zenon DEF FcgiError
<1>2. Place'
  BY <1>1, Zenon DEF Place
<1> QED
  BY <1>1, <1>2, Zenon DEF FInv

(* The content of a record is there.                                       *)
Working ==
    /\ sent \in Streams /\ handled \in Nat /\ WholeTo(sent, handled)
    /\ src \in Seq(Units) /\ net \in Seq(Units)
    /\ ClientRight(sent, handled, clt)
    /\ state = "open" /\ AtBody
    /\ Len(src) >= fcgi.toread

(* Where fcgi_read handles a body, the record is Working.                  *)
LEMMA BodyWorking ==
  ASSUME FInv, Ready("BODY"), WholeTo(sent, handled)
  PROVE  Working
<1>1. /\ sent \in Streams /\ handled \in Nat /\ src \in Seq(Units) /\ net \in Seq(Units)
      /\ ClientRight(sent, handled, clt) /\ Place
  BY Zenon DEF FInv
<1>2. state = "open" /\ fcgi.want = "BODY" /\ Len(src) >= fcgi.toread
  BY Zenon DEF Ready
<1>3. ~AtHeader
  BY <1>2 DEF AtHeader, NextRecord
<1>4. AtBody
  BY <1>1, <1>2, <1>3 DEF Place
<1> QED
  BY <1>1, <1>2, <1>4, Zenon DEF Working

(* What is known of the record being handled.                              *)
LEMMA WorkingFacts ==
  ASSUME Working
  PROVE  /\ Upcoming(sent, handled) /\ HasBody(src, net, sent, handled) /\ ~late
         /\ sent[handled + 1] \in RecordSet /\ Whole(sent[handled + 1])
         /\ fcgi.toread = Len(Content(sent[handled + 1])) /\ fcgi.toread \in Nat
         /\ fcgi.padding = sent[handled + 1].pad /\ fcgi.type = sent[handled + 1].type
         /\ Rest(src, sent, handled) = Drain(src, fcgi.toread)
<1> DEFINE rec == sent[handled + 1]
<1>1. /\ sent \in Streams /\ handled \in Nat /\ WholeTo(sent, handled) /\ src \in Seq(Units)
      /\ net \in Seq(Units) /\ AtBody /\ Len(src) >= fcgi.toread
  BY Zenon DEF Working
<1>2. /\ ~late /\ handled < Len(sent)
      /\ fcgi = [want |-> "BODY", toread |-> Len(Content(rec)), padding |-> rec.pad, type |-> rec.type]
      /\ src \o net = Content(rec) \o After(sent, handled + 1)
  BY <1>1, Zenon DEF AtBody
<1>3. sent \in Seq(RecordSet) /\ Len(sent) \in Nat
  BY <1>1, StreamType
<1>4. Upcoming(sent, handled)
  BY <1>1, <1>2, <1>3, Zenon DEF Upcoming
<1>5. rec \in RecordSet
  BY <1>4, UpcomingFacts
<1>6. fcgi.toread = Len(Content(rec)) /\ fcgi.padding = rec.pad /\ fcgi.type = rec.type
  BY <1>2
<1>7. Len(Content(rec)) \in Nat
  BY <1>5, ContentFacts
<1>8. Len(Content(rec)) <= Len(src)
  BY <1>1, <1>6, <1>7
<1>9. HasBody(src, net, sent, handled)
  BY <1>1, <1>2, <1>8, Zenon DEF HasBody
<1>10. Whole(rec)
  <2>1. handled + 1 \in 1..Len(sent) /\ handled + 1 <= handled + 1
    BY <1>1, <1>2, <1>3
  <2> QED
    BY <1>1, <2>1, Zenon DEF WholeTo
<1> QED
  BY <1>2, <1>4, <1>5, <1>6, <1>7, <1>9, <1>10, Zenon DEF Rest

(* When the record is done the automaton is at the next one.               *)
LEMMA PrepareKeeps ==
  ASSUME Working, NEW k, ClientRight(sent, handled + 1, k), Prepare(Drain(src, fcgi.toread), k)
  PROVE  FInv'
<1> DEFINE u == Rest(src, sent, handled)
           pad == sent[handled + 1].pad
           d == Drain(u, pad)
<1>1. /\ Upcoming(sent, handled) /\ HasBody(src, net, sent, handled) /\ ~late
      /\ fcgi.padding = pad /\ u = Drain(src, fcgi.toread)
  BY WorkingFacts, Zenon
<1>2. sent \in Streams /\ handled \in Nat /\ net \in Seq(Units) /\ state = "open"
  BY Zenon DEF Working
<1>3. /\ src' = d /\ fcgi' = NextRecord /\ clt' = k /\ handled' = handled + 1
      /\ late' = (late \/ Len(u) < pad)
      /\ sent' = sent /\ net' = net /\ state' = state
  BY <1>1, Zenon DEF Prepare
<1>4. /\ d \in Seq(Units)
      /\ Len(u) >= pad => d \o net = Wire(sent, (handled + 1) + 1)
      /\ Len(u) < pad => d \o net # <<>> /\ (d \o net)[1] = <<"pad">>
  <2>1. Placed(src, net, sent, handled)
    BY <1>1, NextPlace, Zenon
  <2> QED
    BY <2>1, Zenon DEF Placed
<1>5. handled + 1 \in Nat /\ handled + 1 <= Len(sent)
  <2>1. Len(sent) \in Nat
    BY <1>2, StreamType
  <2> QED
    BY <1>1, <1>2, <2>1 DEF Upcoming
<1>6. Len(u) >= pad \/ Len(u) < pad
  <2>1. u \in Seq(Units)
    <3>1. src \in Seq(Units) /\ fcgi.toread \in Nat /\ Len(src) >= fcgi.toread
      BY WorkingFacts DEF Working
    <3> DEFINE m == fcgi.toread
    <3>2. m \in 0..Len(src)
      BY <3>1
    <3> HIDE DEF m
    <3>3. Drain(src, m) \in Seq(Units)
      BY <3>1, <3>2, DrainFacts
    <3> QED
      BY <1>1, <3>3, Zenon DEF m
  <2>2. pad \in Nat
    BY WorkingFacts, RecordTypes, Zenon
  <2> HIDE DEF u, pad
  <2>3. Len(u) \in Nat
    BY <2>1
  <2> QED
    BY <2>2, <2>3
<1> HIDE DEF u, pad, d
<1>7. AtHeader'
  <2>1. ~late' => src' \o net' = Wire(sent', handled' + 1)
    BY <1>3, <1>4, <1>6, Zenon
  <2>2. late' => src' \o net' # <<>> /\ (src' \o net')[1] = <<"pad">>
    BY <1>1, <1>3, <1>4, Zenon
  <2> QED
    BY <1>3, <2>1, <2>2, Zenon DEF AtHeader, NextRecord
<1>8. Place'
  BY <1>2, <1>3, <1>7, Zenon DEF Place
<1> QED
  BY <1>2, <1>3, <1>4, <1>5, <1>8, Zenon DEF FInv

-----------------------------------------------------------------------------
(* Each step of fcgi_read keeps the invariant.                             *)

(* More arrives from the web server.                                       *)
LEMMA ArriveKeeps ==
  ASSUME FInv, Arrive
  PROVE  FInv'
<1>1. /\ sent' = sent /\ fcgi' = fcgi /\ clt' = clt /\ handled' = handled
      /\ state' = state /\ late' = late /\ state = "open"
  BY Zenon DEF Arrive
<1>2. PICK n \in 1..Len(net) : src' = src \o SubSeq(net, 1, n) /\ net' = Drain(net, n)
  BY Zenon DEF Arrive
<1>3. CASE ~WholeTo(sent, handled)
  BY <1>1, <1>3, NotWhole, Zenon
<1>4. CASE WholeTo(sent, handled)
  <2>1. /\ sent \in Streams /\ handled \in Nat /\ handled <= Len(sent)
        /\ src \in Seq(Units) /\ net \in Seq(Units) /\ ClientRight(sent, handled, clt) /\ Place
    BY <1>4, Zenon DEF FInv
  <2> DEFINE a == SubSeq(net, 1, n)
             b == SubSeq(net, n + 1, Len(net))
  <2>2. n \in 0..Len(net)
    BY <2>1
  <2>3. a \in Seq(Units) /\ b \in Seq(Units) /\ a \o b = net
    BY <2>1, <2>2, SplitSeq
  <2>4. src' = src \o a /\ net' = b
    BY <1>2, Zenon DEF Drain
  <2> HIDE DEF a, b
  <2>5. src' \in Seq(Units) /\ net' \in Seq(Units)
    BY <2>1, <2>3, <2>4
  <2>6. src' \o net' = src \o net
    <3>1. a \in Seq(Units) /\ b \in Seq(Units) /\ src \in Seq(Units)
      BY <2>1, <2>3
    <3>2. (src \o a) \o b = src \o (a \o b)
      BY <3>1, ConcatAssoc
    <3> QED
      BY <2>3, <2>4, <3>2, Zenon
  <2>7. AtHeader => AtHeader'
    BY <1>1, <2>6, Zenon DEF AtHeader, NextRecord
  <2>8. AtBody => AtBody'
    BY <1>1, <2>6, Zenon DEF AtBody
  <2>9. Place'
    BY <1>1, <2>1, <2>7, <2>8 DEF Place
  <2> QED
    BY <1>1, <2>1, <2>5, <2>9, Zenon DEF FInv
<1> QED
  BY <1>3, <1>4

(* fcgi_read reads a header.                                               *)
LEMMA ReadHeaderKeeps ==
  ASSUME FInv, ReadHeader
  PROVE  FInv'
<1> DEFINE Found == \E j \in 1..Len(sent) : \A i \in 1..HdrSize : src[i] = <<"header", j, i>>
           rec == sent[src[1][2]]
<1>1. /\ sent' = sent /\ net' = net /\ clt' = clt /\ handled' = handled /\ late' = late
      /\ src' = Drain(src, HdrSize)
      /\ state = "open" /\ fcgi.want = "HEADER" /\ Len(src) >= fcgi.toread
  BY Zenon DEF ReadHeader, Ready
<1>2. /\ Found => /\ fcgi' = [want |-> "BODY", toread |-> Len(Content(rec)),
                              padding |-> rec.pad, type |-> rec.type]
                  /\ state' = state
      /\ ~Found => state' = "lost"
  BY Zenon DEF ReadHeader
<1>3. CASE ~WholeTo(sent, handled)
  BY <1>1, <1>3, NotWhole, Zenon
<1>4. CASE WholeTo(sent, handled)
  <2>1. /\ sent \in Streams /\ handled \in Nat /\ handled <= Len(sent)
        /\ src \in Seq(Units) /\ net \in Seq(Units) /\ ClientRight(sent, handled, clt) /\ Place
    BY <1>4, Zenon DEF FInv
  <2>2. sent \in Seq(RecordSet) /\ Len(sent) \in Nat
    BY <2>1, StreamType
  <2>3. ~AtBody
    BY <1>1 DEF AtBody
  <2>4. AtHeader
    BY <1>1, <2>1, <2>3 DEF Place
  <2>5. fcgi.toread = HdrSize
    BY <2>4 DEF AtHeader, NextRecord
  <2>6. HdrSize \in Nat \ {0} /\ Len(src) \in Nat /\ Len(src) >= HdrSize
    BY <1>1, <2>1, <2>5, FramingAssumption
  <2>7. CASE ~late
    <3> DEFINE n == handled + 1
    <3>1. src \o net = Wire(sent, handled + 1)
      BY <2>4, <2>7, Zenon DEF AtHeader
    <3>2. /\ handled < Len(sent)
          /\ \A j \in 1..HdrSize : src[j] = <<"header", handled + 1, j>>
          /\ Drain(src, HdrSize) \in Seq(Units)
          /\ Drain(src, HdrSize) \o net = Content(sent[handled + 1]) \o After(sent, handled + 1)
      BY <2>1, <2>2, <2>6, <3>1, NextHeader, ZenonT(40)
    <3>3. n \in 1..Len(sent)
      BY <2>1, <2>2, <3>2
    <3>4. Found
      BY <3>2, <3>3, Zenon
    <3>5. src[1][2] = handled + 1
      <4>1. 1 \in 1..HdrSize
        BY <2>6
      <4>2. src[1] = <<"header", handled + 1, 1>>
        BY <3>2, <4>1
      <4> QED
        BY <4>2
    <3> HIDE DEF Found
    <3>6. AtBody'
      BY <1>1, <1>2, <2>7, <3>2, <3>4, <3>5, Zenon DEF AtBody
    <3>7. Place'
      BY <1>1, <1>2, <3>4, <3>6, Zenon DEF Place
    <3> QED
      BY <1>1, <2>1, <3>2, <3>7, Zenon DEF FInv
  <2>8. CASE late
    <3>1. src \o net # <<>> /\ (src \o net)[1] = <<"pad">>
      BY <2>4, <2>8, Zenon DEF AtHeader
    <3>2. 1 \in 1..Len(src) /\ 1 \in 1..HdrSize
      BY <2>6
    <3>3. (src \o net)[1] = src[1]
      BY <2>1, <3>2, ConcatAt
    <3>4. ~Found
      <4> SUFFICES ASSUME NEW j \in 1..Len(sent), \A i \in 1..HdrSize : src[i] = <<"header", j, i>>
                   PROVE  FALSE
        BY Zenon
      <4>1. src[1] = <<"header", j, 1>>
        BY <3>2, Zenon
      <4>2. <<"pad">> = <<"header", j, 1>>
        BY <3>1, <3>3, <4>1, Zenon
      <4> QED
        BY <4>2
    <3> HIDE DEF Found
    <3>5. Place'
      BY <1>1, <1>2, <2>8, <3>4, Zenon DEF Place
    <3>6. Drain(src, HdrSize) \in Seq(Units)
      <4>1. HdrSize \in 0..Len(src)
        BY <2>6
      <4> QED
        BY <2>1, <4>1, DrainFacts
    <3> QED
      BY <1>1, <2>1, <3>5, <3>6, Zenon DEF FInv
  <2> QED
    BY <2>7, <2>8
<1> QED
  BY <1>3, <1>4

(* The steps that handle a record all leave sent, and count the record or  *)
(* not.                                                                    *)
LEMMA BodyCounts ==
  ASSUME ReadBegin \/ ReadParams \/ ParamsNoMemory \/ ReadStdin \/ ReadAbort \/ ReadOther
  PROVE  sent' = sent /\ (handled' = handled \/ handled' = handled + 1) /\ Ready("BODY")
<1>1. \A s, k : Prepare(s, k) => sent' = sent /\ handled' = handled + 1
  BY Zenon DEF Prepare
<1>2. \A how : FcgiError(how) => sent' = sent /\ handled' = handled
  BY Zenon DEF FcgiError
<1>3. CASE ReadBegin
  BY <1>1, <1>2, <1>3, Zenon DEF ReadBegin, Body
<1>4. CASE ReadParams
  BY <1>1, <1>2, <1>4, Zenon DEF ReadParams, Body
<1>5. CASE ParamsNoMemory
  BY <1>2, <1>5, Zenon DEF ParamsNoMemory, Body
<1>6. CASE ReadStdin
  BY <1>1, <1>6, Zenon DEF ReadStdin, Body
<1>7. CASE ReadAbort
  BY <1>1, <1>7, Zenon DEF ReadAbort, Body
<1>8. CASE ReadOther
  BY <1>1, <1>8, Zenon DEF ReadOther, Body
<1> QED
  BY <1>3, <1>4, <1>5, <1>6, <1>7, <1>8, Zenon

(* fcgi_read handles FCGI_BEGIN_REQUEST.                                   *)
LEMMA ReadBeginKeeps ==
  ASSUME FInv, Working, ReadBegin
  PROVE  FInv'
<1> DEFINE k == IF clt.live THEN clt ELSE [NoClient EXCEPT !.live = TRUE]
<1>1. fcgi.type = "BEGIN"
  BY Zenon DEF ReadBegin, Body
<1>2. CASE fcgi.toread # BeginSize
  <2>1. FcgiError("closed")
    BY <1>2, Zenon DEF ReadBegin
  <2> QED
    BY <2>1, ErrorKeeps
<1>3. CASE fcgi.toread = BeginSize
  <2>1. Prepare(Drain(src, BeginSize), k)
    BY <1>3, Zenon DEF ReadBegin
  <2>2. Upcoming(sent, handled) /\ sent[handled + 1].type = "BEGIN"
    BY <1>1, WorkingFacts, Zenon
  <2>3. ClientRight(sent, handled, clt)
    BY Zenon DEF Working
  <2>4. ClientRight(sent, handled + 1, k)
    <3>1. CASE clt.live
      <4>1. /\ sent[handled + 1].type # "ABORT" /\ sent[handled + 1].type # "PARAMS"
            /\ sent[handled + 1].type # "STDIN"
        BY <2>2
      <4>2. ClientRight(sent, handled + 1, clt)
        BY <2>2, <2>3, <3>1, <4>1, ClientSame, Zenon
      <4> QED
        BY <3>1, <4>2, Zenon
    <3>2. CASE ~clt.live
      <4>1. ~LiveIn(sent, handled)
        BY <2>3, <3>2, Zenon DEF ClientRight
      <4>2. ClientRight(sent, handled + 1, [NoClient EXCEPT !.live = TRUE])
        BY <2>2, <4>1, ClientBegin, Zenon
      <4> QED
        BY <3>2, <4>2, Zenon
    <3> QED
      BY <3>1, <3>2
  <2> HIDE DEF k
  <2>5. Prepare(Drain(src, fcgi.toread), k)
    BY <1>3, <2>1, Zenon
  <2> QED
    BY <2>4, <2>5, PrepareKeeps, Zenon
<1> QED
  BY <1>2, <1>3

(* fcgi_read handles FCGI_PARAMS.                                          *)
LEMMA ReadParamsKeeps ==
  ASSUME FInv, Working, ReadParams
  PROVE  FInv'
<1> DEFINE rec == sent[handled + 1]
           L == fcgi.toread
           parsed == ParseParams(src, L, clt)
           ps == GivenTo(sent, handled, "PARAMS")
           d == rec.data
<1>1. fcgi.type = "PARAMS"
  BY Zenon DEF ReadParams, Body
<1>2. /\ Upcoming(sent, handled) /\ HasBody(src, net, sent, handled)
      /\ rec \in RecordSet /\ Whole(rec) /\ rec.type = "PARAMS"
      /\ L = Len(Content(rec)) /\ L \in Nat
  BY <1>1, WorkingFacts, Zenon
<1>3. ClientRight(sent, handled, clt) /\ src \in Seq(Units)
  BY Zenon DEF Working
<1>4. rec.type # "ABORT" /\ rec.type # "BEGIN"
  BY <1>2
<1>5. CASE ~clt.live
  <2>1. Prepare(Drain(src, L), clt)
    BY <1>5, Zenon DEF ReadParams
  <2>2. ClientRight(sent, handled + 1, clt)
    BY <1>2, <1>3, <1>4, <1>5, ClientSame, Zenon
  <2> QED
    BY <2>1, <2>2, PrepareKeeps, Zenon
<1>6. CASE clt.live /\ L = 0
  <2> DEFINE g == clt.started \/ clt.method = "GET"
             k == [clt EXCEPT !.started = g]
  <2>1. Prepare(src, k)
    BY <1>6, Zenon DEF ReadParams
  <2>2. d = <<>>
    BY <1>2, <1>6, EmptyParams, Zenon
  <2>3. clt \in ClientSet /\ FieldsOf(clt, ps)
    BY <1>3, <1>6, Zenon DEF ClientRight
  <2>4. ps \in Seq(ParamSet)
    BY <1>2, <1>4, UpcomingGiven, Zenon
  <2>5. ps \o d = ps
    <3> HIDE DEF ps
    <3>1. ps \o <<>> = ps
      BY <2>4
    <3> QED
      BY <2>2, <3>1, Zenon
  <2>6. g \in BOOLEAN
    BY <2>3
  <2> HIDE DEF g
  <2>7. /\ k \in ClientSet /\ k.live = clt.live /\ SameFields(clt, k)
        /\ k.body = clt.body /\ k.bodylen = clt.bodylen /\ k.bodydone = clt.bodydone
    BY <2>3, <2>6, Zenon DEF ClientSet, SameFields
  <2> HIDE DEF k
  <2>8. FieldsOf(k, ps \o d)
    BY <2>3, <2>5, <2>7, FieldsKept, Zenon
  <2>9. ClientRight(sent, handled + 1, k)
    BY <1>2, <1>3, <1>6, <2>7, <2>8, ClientParams, Zenon
  <2>10. src = Drain(src, L)
    BY <1>3, <1>6, DrainZero
  <2>11. Prepare(Drain(src, L), k)
    BY <2>1, <2>10, Zenon
  <2> QED
    BY <2>9, <2>11, PrepareKeeps, Zenon
<1>7. CASE clt.live /\ L # 0
  <2>1. /\ parsed.res = "ok" => Prepare(parsed.src, parsed.clt)
        /\ parsed.res # "ok" /\ parsed.res # "lost" => FcgiError("closed")
    BY <1>7, Zenon DEF ReadParams
  <2>2. /\ d \in Seq(ParamSet) /\ rec.over \in Nat
        /\ rec.over # 0 => d # <<>> /\ rec.over < Len(EncodeParam(d[Len(d)]))
    BY <1>2, RecordTypes, Zenon
  <2>3. /\ L = LenTo(d, Len(d)) - rec.over
        /\ \A i \in 1..L : Content(rec)[i] = EncodeParams(d)[i]
    BY <1>2, ContentFacts, Zenon
  <2>4. Placed(src, net, sent, handled)
    BY <1>2, NextPlace, Zenon
  <2>5. /\ \A i \in 1..L : src[i] = Content(rec)[i]
        /\ Len(src) > L => src[L + 1][1] \in {"pad", "header"}
    BY <1>2, <2>4, Zenon DEF Placed
  <2>6. \A i \in 1..Len(d) : d[i].nlen >= PnameSize => d[i].value = <<>>
    BY <1>2, Zenon DEF Whole
  <2>7. L <= Len(src)
    BY <1>2, Zenon DEF HasBody
  <2>8. Len(src) > L => src[L + 1][1] \notin {"len", "len4"}
    BY <2>5
  <2>9. Holds(d, rec.over, src, L)
    BY <2>2, <2>3, <2>5, <2>6, <2>7, <2>8, Zenon DEF Holds
  <2>10. ps \in Seq(ParamSet)
    BY <1>2, <1>4, UpcomingGiven, Zenon
  <2>11. Took(clt, clt, ps)
    BY <1>3, <1>7, Zenon DEF ClientRight, Took
  <2> DEFINE over == rec.over
  <2>12. over \in Nat /\ Holds(d, over, src, L)
    BY <2>2, <2>9
  <2>13. L \in Nat /\ d \in Seq(ParamSet)
    BY <1>2, <2>2
  <2>14. parsed.res = "fail" \/ Done(parsed, d, src, L, clt, ps)
    <3> HIDE DEF over, d, L, ps
    <3> QED
      BY <1>3, <2>10, <2>11, <2>12, <2>13, ParseParamsFacts
  <2> HIDE DEF parsed
  <2>15. CASE parsed.res = "fail"
    <3>1. FcgiError("closed")
      BY <2>1, <2>15
    <3> QED
      BY <3>1, ErrorKeeps
  <2>16. CASE Done(parsed, d, src, L, clt, ps)
    <3>1. parsed.res = "ok" /\ parsed.src = Drain(src, L) /\ Took(clt, parsed.clt, ps \o d)
      BY <2>16, Zenon DEF Done
    <3> DEFINE k == parsed.clt
    <3>2. /\ k \in ClientSet /\ k.live = clt.live /\ k.body = clt.body
          /\ k.bodylen = clt.bodylen /\ k.bodydone = clt.bodydone /\ FieldsOf(k, ps \o d)
      BY <3>1, Zenon DEF Took
    <3>3. Prepare(Drain(src, L), k)
      BY <2>1, <3>1, Zenon
    <3> HIDE DEF k
    <3>4. ClientRight(sent, handled + 1, k)
      BY <1>2, <1>3, <1>7, <3>2, ClientParams, Zenon
    <3> QED
      BY <3>3, <3>4, PrepareKeeps, Zenon
  <2> QED
    BY <2>14, <2>15, <2>16, Zenon
<1> QED
  BY <1>5, <1>6, <1>7, Zenon

(* fcgi_read handles FCGI_STDIN.                                           *)
LEMMA ReadStdinKeeps ==
  ASSUME FInv, Working, ReadStdin
  PROVE  FInv'
<1> DEFINE rec == sent[handled + 1]
           L == fcgi.toread
           len == IF TmpSize - 1 < L THEN TmpSize - 1 ELSE L
           tmp == [i \in 1..len |-> src[i][2]]
           d == rec.data
<1>1. fcgi.type = "STDIN"
  BY Zenon DEF ReadStdin, Body
<1>2. /\ Upcoming(sent, handled) /\ HasBody(src, net, sent, handled)
      /\ rec \in RecordSet /\ Whole(rec) /\ rec.type = "STDIN"
      /\ L = Len(Content(rec)) /\ L \in Nat
  BY <1>1, WorkingFacts, Zenon
<1>3. ClientRight(sent, handled, clt) /\ src \in Seq(Units)
  BY Zenon DEF Working
<1>4. rec.type # "ABORT" /\ rec.type # "BEGIN" /\ rec.type # "PARAMS"
  BY <1>2
<1>5. d \in Seq(Char) /\ L = Len(d) /\ \A i \in 1..Len(d) : Content(rec)[i] = <<"data", d[i]>>
  <2>1. d \in Seq(Char)
    BY <1>2, <1>4, RecordTypes, Zenon
  <2>2. L = Len(d) /\ \A i \in 1..Len(d) : Content(rec)[i] = <<"data", d[i]>>
    BY <1>2, <1>4, ContentFacts, Zenon
  <2> QED
    BY <2>1, <2>2
<1>6. CASE ~clt.live
  <2>1. Prepare(Drain(src, L), clt)
    BY <1>6, Zenon DEF ReadStdin
  <2>2. ClientRight(sent, handled + 1, clt)
    BY <1>2, <1>3, <1>4, <1>6, ClientSame, Zenon
  <2> QED
    BY <2>1, <2>2, PrepareKeeps, Zenon
<1>7. CASE clt.live /\ clt.method # "POST"
  <2>1. Prepare(Drain(src, L), clt)
    BY <1>7, Zenon DEF ReadStdin
  <2>2. ClientRight(sent, handled + 1, clt)
    BY <1>2, <1>3, <1>7, ClientStdinOther, Zenon
  <2> QED
    BY <2>1, <2>2, PrepareKeeps, Zenon
<1>8. CASE clt.live /\ clt.method = "POST" /\ L = 0
  <2> DEFINE k == [clt EXCEPT !.bodydone = TRUE, !.started = TRUE]
  <2>1. Prepare(src, k)
    BY <1>8, Zenon DEF ReadStdin
  <2>2. d = <<>>
    <3>1. d \in Seq(Char) /\ Len(d) = 0
      BY <1>5, <1>8, Zenon
    <3> HIDE DEF d
    <3> QED
      BY <3>1
  <2>3. ClientRight(sent, handled + 1, k)
    BY <1>2, <1>3, <1>8, <2>2, ClientStdinEnd, Zenon
  <2>4. src = Drain(src, L)
    BY <1>3, <1>8, DrainZero
  <2> HIDE DEF k
  <2>5. Prepare(Drain(src, L), k)
    BY <2>1, <2>4, Zenon
  <2> QED
    BY <2>3, <2>5, PrepareKeeps, Zenon
<1>9. CASE clt.live /\ clt.method = "POST" /\ L # 0
  <2>1. Prepare(Drain(src, len), ParseForm(clt, tmp))
    BY <1>9, Zenon DEF ReadStdin
  <2>2. len = L
    <3>1. Len(d) < TmpSize /\ TmpSize \in Nat
      BY <1>2, FramingAssumption DEF Whole
    <3>2. ~(TmpSize - 1 < L)
      BY <1>2, <1>5, <3>1
    <3> QED
      BY <3>2, Zenon
  <2>3. d # <<>>
    <3> SUFFICES ASSUME d = <<>> PROVE FALSE
      OBVIOUS
    <3>1. Len(d) = 0
      OBVIOUS
    <3> QED
      BY <1>5, <1>9, <3>1, Zenon
  <2>4. \A i \in 1..L : src[i] = Content(rec)[i]
    <3>1. Placed(src, net, sent, handled)
      BY <1>2, NextPlace, Zenon
    <3> QED
      BY <1>2, <3>1, Zenon DEF Placed
  <2>5. \A i \in 1..L : src[i][2] = d[i]
    <3> SUFFICES ASSUME NEW i \in 1..L PROVE src[i][2] = d[i]
      BY Zenon
    <3>1. src[i] = <<"data", d[i]>>
      BY <1>5, <2>4, Zenon
    <3> QED
      BY <3>1
  <2>6. tmp = d
    <3>1. tmp = [i \in 1..L |-> src[i][2]]
      BY <2>2, Zenon
    <3>2. d = [i \in 1..L |-> d[i]]
      <4> HIDE DEF d
      <4> QED
        BY <1>5
    <3>3. [i \in 1..L |-> src[i][2]] = [i \in 1..L |-> d[i]]
      BY <2>5, Zenon
    <3> QED
      BY <3>1, <3>2, <3>3, Zenon
  <2>7. ClientRight(sent, handled + 1, ParseForm(clt, d))
    BY <1>2, <1>3, <1>9, <2>3, ClientStdin, Zenon
  <2> HIDE DEF len, tmp
  <2>8. Prepare(Drain(src, L), ParseForm(clt, d))
    BY <2>1, <2>2, <2>6, Zenon
  <2> QED
    BY <2>7, <2>8, PrepareKeeps, Zenon
<1> QED
  BY <1>6, <1>7, <1>8, <1>9, Zenon

(* fcgi_read handles FCGI_ABORT_REQUEST.                                   *)
LEMMA ReadAbortKeeps ==
  ASSUME FInv, Working, ReadAbort
  PROVE  FInv'
<1> DEFINE rec == sent[handled + 1]
<1>1. fcgi.type = "ABORT"
  BY Zenon DEF ReadAbort, Body
<1>2. /\ Upcoming(sent, handled) /\ rec \in RecordSet /\ Whole(rec) /\ rec.type = "ABORT"
      /\ fcgi.toread = Len(Content(rec))
  BY <1>1, WorkingFacts, Zenon
<1>3. ClientRight(sent, handled + 1, NoClient)
  BY <1>2, ClientAbort, Zenon
<1>4. rec.data = <<>>
  BY <1>2, Zenon DEF Whole
<1>5. fcgi.toread = 0
  <2>1. rec.type # "PARAMS"
    BY <1>2
  <2>2. Len(Content(rec)) = Len(rec.data)
    BY <1>2, <2>1, ContentFacts, Zenon
  <2>3. Len(<<>>) = 0
    OBVIOUS
  <2> QED
    BY <1>2, <1>4, <2>2, <2>3, Zenon
<1>6. src = Drain(src, fcgi.toread)
  <2>1. src \in Seq(Units)
    BY Zenon DEF Working
  <2> QED
    BY <1>5, <2>1, DrainZero
<1>7. Prepare(Drain(src, fcgi.toread), NoClient)
  <2>1. Prepare(IF clt.live THEN src ELSE Drain(src, fcgi.toread), NoClient)
    BY Zenon DEF ReadAbort
  <2>2. (IF clt.live THEN src ELSE Drain(src, fcgi.toread)) = Drain(src, fcgi.toread)
    BY <1>6, Zenon
  <2> QED
    BY <2>1, <2>2, Zenon
<1> QED
  BY <1>3, <1>7, PrepareKeeps, Zenon

(* fcgi_read skips a record of another type.                               *)
LEMMA ReadOtherKeeps ==
  ASSUME FInv, Working, ReadOther
  PROVE  FInv'
<1>1. fcgi.type = "OTHER" /\ Prepare(Drain(src, fcgi.toread), clt)
  BY Zenon DEF ReadOther, Body
<1>2. Upcoming(sent, handled) /\ sent[handled + 1].type = "OTHER"
  BY <1>1, WorkingFacts, Zenon
<1>3. /\ sent[handled + 1].type # "ABORT" /\ sent[handled + 1].type # "BEGIN"
      /\ sent[handled + 1].type # "PARAMS" /\ sent[handled + 1].type # "STDIN"
  BY <1>2
<1>4. ClientRight(sent, handled, clt)
  BY Zenon DEF Working
<1>5. ClientRight(sent, handled + 1, clt)
  BY <1>2, <1>3, <1>4, ClientSame, Zenon
<1> QED
  BY <1>1, <1>5, PrepareKeeps, Zenon

-----------------------------------------------------------------------------
(* The theorems.                                                           *)

(* The invariant holds when the connection is accepted.                    *)
LEMMA InitFInv ==
  ASSUME Init
  PROVE  FInv
<1>1. /\ sent \in Streams /\ net = Wire(sent, 1) /\ src = <<>> /\ fcgi = NextRecord
      /\ clt = NoClient /\ handled = 0 /\ state = "open" /\ late = FALSE
  BY Zenon DEF Init
<1>2. sent \in Seq(RecordSet) /\ Len(sent) \in Nat
  BY <1>1, StreamType
<1>3. net \in Seq(Units)
  <2>1. 1 \in 1..(Len(sent) + 1)
    BY <1>2
  <2> QED
    BY <1>1, <1>2, <2>1, WireType, Zenon
<1>4. src \in Seq(Units)
  BY <1>1
<1>5. src \o net = net
  BY <1>1, <1>3
<1>6. 0 + 1 = 1 /\ 0 \in Nat /\ 0 <= Len(sent)
  BY <1>2
<1>7. ClientRight(sent, 0, NoClient)
  <2>1. ~LiveIn(sent, 0)
    BY DEF LiveIn
  <2> QED
    BY <1>6, <2>1, NoClientRight, Zenon
<1>8. AtHeader
  BY <1>1, <1>5, <1>6, Zenon DEF AtHeader
<1>9. Place
  BY <1>1, <1>8, Zenon DEF Place
<1> QED
  BY <1>1, <1>3, <1>4, <1>6, <1>7, <1>9, Zenon DEF FInv

(* Every step keeps it.                                                    *)
LEMMA NextFInv ==
  ASSUME FInv, [Next]_vars
  PROVE  FInv'
<1>1. CASE Arrive
  BY <1>1, ArriveKeeps
<1>2. CASE ReadHeader
  BY <1>2, ReadHeaderKeeps
<1>3. CASE ReadBegin \/ ReadParams \/ ParamsNoMemory \/ ReadStdin \/ ReadAbort \/ ReadOther
  <2>1. sent' = sent /\ (handled' = handled \/ handled' = handled + 1) /\ Ready("BODY")
    BY <1>3, BodyCounts, Zenon
  <2>2. CASE ~WholeTo(sent, handled)
    BY <2>1, <2>2, NotWhole, Zenon
  <2>3. CASE WholeTo(sent, handled)
    <3>1. Working
      BY <2>1, <2>3, BodyWorking, Zenon
    <3>2. ParamsNoMemory => FInv'
      BY ErrorKeeps, Zenon DEF ParamsNoMemory
    <3> QED
      BY <1>3, <3>1, <3>2, ReadBeginKeeps, ReadParamsKeeps, ReadStdinKeeps, ReadAbortKeeps,
         ReadOtherKeeps, Zenon
  <2> QED
    BY <2>2, <2>3, Zenon
<1>4. CASE UNCHANGED vars
  <2>1. /\ sent' = sent /\ net' = net /\ src' = src /\ fcgi' = fcgi /\ clt' = clt
        /\ handled' = handled /\ state' = state /\ late' = late
    BY <1>4 DEF vars
  <2>2. Place => Place'
    BY <2>1, Zenon DEF Place, AtHeader, AtBody, NextRecord
  <2> QED
    BY <2>1, <2>2, Zenon DEF FInv
<1> QED
  BY <1>1, <1>2, <1>3, <1>4, Zenon DEF Next, FcgiRead

(* So it holds in every reachable state.                                   *)
LEMMA FInvHolds == Spec => []FInv
<1>1. Init => FInv
  BY InitFInv
<1>2. FInv /\ [Next]_vars => FInv'
  BY NextFInv
<1> QED
  BY <1>1, <1>2, PTL DEF Spec

(* Without leftovers, every record handled was handled whole.              *)
LEMMA LeftoverWhole ==
  ASSUME sent \in Streams, handled \in Nat, ~Leftover
  PROVE  WholeTo(sent, handled)
<1>1. sent \in Seq(RecordSet)
  BY StreamType
<1> SUFFICES ASSUME NEW j \in 1..Len(sent), j <= handled + 1 PROVE Whole(sent[j])
  BY Zenon DEF WholeTo
<1> DEFINE rec == sent[j]
<1>2. rec \in RecordSet
  BY <1>1
<1>3. ~ (\/ /\ rec.type = "PARAMS"
            /\ \E i \in 1..Len(rec.data) :
                  rec.data[i].nlen >= PnameSize /\ rec.data[i].value # <<>>
         \/ rec.type = "STDIN" /\ Len(rec.data) >= TmpSize
         \/ rec.type = "ABORT" /\ rec.data # <<>>)
  BY Zenon DEF Leftover
<1> HIDE DEF rec
<1>4. rec.type = "STDIN" => Len(rec.data) \in Nat
  <2>1. rec.type = "STDIN" => rec.data \in Seq(Char)
    BY <1>2, RecordTypes
  <2> QED
    BY <2>1
<1>5. rec.type = "STDIN" => Len(rec.data) < TmpSize
  <2>1. TmpSize \in Nat
    BY FramingAssumption
  <2>2. rec.type = "STDIN" => ~(Len(rec.data) >= TmpSize)
    BY <1>3, Zenon
  <2> QED
    BY <1>4, <2>1, <2>2
<1>6. Whole(rec)
  BY <1>3, <1>5, Zenon DEF Whole
<1> QED
  BY <1>6 DEF rec

(* Given is GivenTo of the records handled.                                *)
LEMMA GivenIs ==
  \A type : Given(type) = GivenTo(sent, handled, type)
  BY Zenon DEF Given, Current, GivenTo, Parts, Part, CurrentIn

(* However the input is cut into pieces, whatever the records and their    *)
(* padding: whenever fcgi_read expects a header, the unread input starts   *)
(* with the header of the next record.                                     *)
THEOREM RecordsInSync == Spec => []InSync
<1>1. FInv => InSync
  <2> SUFFICES ASSUME FInv, ~late, ~Leftover
               PROVE  /\ state # "lost"
                      /\ state = "open" /\ fcgi.want = "HEADER" => src \o net = Wire(sent, handled + 1)
    BY Zenon DEF InSync
  <2>1. WholeTo(sent, handled)
    BY LeftoverWhole, Zenon DEF FInv
  <2>2. Place
    BY <2>1, Zenon DEF FInv
  <2>3. CASE state = "closed"
    BY <2>3
  <2>4. CASE state = "open" /\ AtHeader
    BY <2>4 DEF AtHeader
  <2>5. CASE state = "open" /\ AtBody
    BY <2>5 DEF AtBody
  <2> QED
    BY <2>2, <2>3, <2>4, <2>5, Zenon DEF Place
<1> QED
  BY <1>1, FInvHolds, PTL

(* The fields of the client are those of its parameters: fcgi_parse_params *)
(* gets the last value that fits of each that it knows, from any number of *)
(* records, and makes the script name end and the path start with a slash. *)
THEOREM FieldsAreRight == Spec => []FieldsRight
<1>1. FInv => FieldsRight
  <2> SUFFICES ASSUME FInv, clt.live, ~Leftover
               PROVE  FieldsOf(clt, Given("PARAMS"))
    BY Zenon DEF FieldsRight
  <2>1. WholeTo(sent, handled)
    BY LeftoverWhole, Zenon DEF FInv
  <2>2. ClientRight(sent, handled, clt)
    BY <2>1, Zenon DEF FInv
  <2>3. FieldsOf(clt, GivenTo(sent, handled, "PARAMS"))
    BY <2>2, Zenon DEF ClientRight
  <2> QED
    BY <2>3, GivenIs, Zenon
<1> QED
  BY <1>1, FInvHolds, PTL

(* The query of a POST is field "q" of the form, for any form and any way  *)
(* of cutting it into records: what fcgi_parse_form keeps from one record  *)
(* to the next is enough.                                                  *)
THEOREM FormIsRight == Spec => []FormRight
<1>1. FInv => FormRight
  <2> DEFINE form == Given("STDIN")
  <2> SUFFICES ASSUME FInv, clt.live, clt.method = "POST", Orderly, ~MarkerSplit, ~Leftover
               PROVE  \/ ~ReturnsLast(form)
                      \/ clt.body = FieldQ(form)
                      \/ clt.body = Null /\ clt.bodylen > MaxLen
    BY Zenon DEF FormRight
  <2>1. WholeTo(sent, handled)
    BY LeftoverWhole, Zenon DEF FInv
  <2>2. ClientRight(sent, handled, clt)
    BY <2>1, Zenon DEF FInv
  <2>3. OrderlyIn(sent, handled) /\ ~SplitIn(sent, handled)
    BY Zenon DEF Orderly, MarkerSplit, OrderlyIn, SplitIn, Current, CurrentIn
  <2>4. form = GivenTo(sent, handled, "STDIN")
    BY GivenIs, Zenon
  <2> HIDE DEF form
  <2>5. ASSUME ReturnsLast(form) PROVE FormState(clt, form, EndedIn(sent, handled))
    BY <2>2, <2>3, <2>4, <2>5, Zenon DEF ClientRight, Clean
  <2> QED
    BY <2>5, FormStateRight, Zenon
<1> QED
  BY <1>1, FInvHolds, PTL

=============================================================================

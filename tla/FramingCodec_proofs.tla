------------------------ MODULE FramingCodec_proofs --------------------------
(***************************************************************************)
(* What the operators of Framing compute, for every stream of records: the *)
(* units a record is on the wire, what fcgi_parse_params makes of the      *)
(* content of a PARAMS record (ParseParamsFacts) and what fcgi_parse_form  *)
(* makes of the parts of a form (ParseFormKeeps).                          *)
(*                                                                         *)
(* The operators are recursive functions, so most of these facts need an   *)
(* induction on a number.  It is had from LeastNat and AllNat, which are   *)
(* about sets of numbers and not about an operator.                        *)
(***************************************************************************)
EXTENDS Framing, WellFoundedInduction, TLAPS


(* A set of natural numbers that is not empty has a least element.         *)
LEMMA LeastNat ==
  ASSUME NEW T, T \subseteq Nat, T # {}
  PROVE  \E x \in T : \A y \in T : x <= y
<1> DEFINE R == OpToRel(<, Nat)
<1>1. IsWellFoundedOn(R, Nat)
  BY NatLessThanWellFounded, Zenon
<1>2. \A x, y \in Nat : <<x, y>> \in R <=> x < y
  BY DEF OpToRel
<1> HIDE DEF R
<1>3. PICK x \in T : \A y \in T : ~(<<y, x>> \in R)
  BY <1>1, WFMin, Zenon
<1>4. \A y \in T : ~(y < x)
  BY <1>2, <1>3, Zenon
<1>5. \A y \in T : x <= y
  BY <1>4, SMT
<1> QED
  BY <1>5

(* Whatever holds of 0 and, with n, of n + 1.                              *)
LEMMA AllNat ==
  ASSUME NEW T, 0 \in T, \A n \in Nat : n \in T => n + 1 \in T
  PROVE  Nat \subseteq T
<1> SUFFICES ASSUME Nat \ T # {} PROVE FALSE
  OBVIOUS
<1>1. PICK n \in Nat \ T : \A k \in Nat \ T : n <= k
  BY LeastNat, Zenon
<1>2. n - 1 \in Nat
  BY <1>1
<1>3. n - 1 \in T
  BY <1>1, <1>2
<1>4. (n - 1) + 1 \in T
  BY <1>2, <1>3
<1> QED
  BY <1>1, <1>4

(* Joining with a longer sequence, as the parts of a stream are joined.    *)
LEMMA ConcatAppend ==
  ASSUME NEW S, NEW a \in Seq(S), NEW b \in Seq(S), NEW x \in S
  PROVE  a \o Append(b, x) = Append(a \o b, x)
  OBVIOUS

(* The order in which three sequences are joined does not matter.          *)
LEMMA ConcatAssoc ==
  ASSUME NEW S, NEW a \in Seq(S), NEW b \in Seq(S), NEW c \in Seq(S)
  PROVE  (a \o b) \o c = a \o (b \o c)
  OBVIOUS

FourJoined(a, b, c, d) == ((a \o b) \o c) \o d = a \o (b \o (c \o d))

(* Nor with four: a header, the content, the padding and what follows.     *)
LEMMA ConcatFour ==
  ASSUME NEW S, NEW a \in Seq(S), NEW b \in Seq(S), NEW c \in Seq(S), NEW d \in Seq(S)
  PROVE  FourJoined(a, b, c, d)
<1>1. a \o b \in Seq(S) /\ c \o d \in Seq(S)
  OBVIOUS
<1>2. ((a \o b) \o c) \o d = (a \o b) \o (c \o d)
  BY <1>1, ConcatAssoc, SMTT(20)
<1>3. (a \o b) \o (c \o d) = a \o (b \o (c \o d))
  BY <1>1, ConcatAssoc, SMTT(20)
<1> QED
  BY <1>2, <1>3, Zenon DEF FourJoined

(* Sequences with the same length and the same elements are the same.      *)
LEMMA SameSeq ==
  ASSUME NEW S, NEW s \in Seq(S), NEW t \in Seq(S), Len(s) = Len(t),
         \A i \in 1..Len(t) : s[i] = t[i]
  PROVE  s = t
  OBVIOUS

(* A sequence is its first n elements and the others.                      *)
LEMMA SplitSeq ==
  ASSUME NEW S, NEW s \in Seq(S), NEW n \in 0..Len(s)
  PROVE  /\ SubSeq(s, 1, n) \in Seq(S) /\ Len(SubSeq(s, 1, n)) = n
         /\ SubSeq(s, n + 1, Len(s)) \in Seq(S)
         /\ Len(SubSeq(s, n + 1, Len(s))) = Len(s) - n
         /\ SubSeq(s, 1, n) \o SubSeq(s, n + 1, Len(s)) = s
<1> DEFINE x == SubSeq(s, 1, n)
           y == SubSeq(s, n + 1, Len(s))
<1>1. Len(s) \in Nat /\ n \in Nat /\ n <= Len(s)
  OBVIOUS
<1>2. x \in Seq(S) /\ Len(x) = n /\ \A i \in 1..n : x[i] = s[i]
  BY <1>1
<1>3. y \in Seq(S) /\ Len(y) = Len(s) - n /\ \A i \in 1..(Len(s) - n) : y[i] = s[n + i]
  BY <1>1
<1> HIDE DEF x, y
<1>4. x \o y = s
  <2>1. x \o y \in Seq(S) /\ Len(x \o y) = Len(s)
    BY <1>1, <1>2, <1>3
  <2>2. ASSUME NEW i \in 1..Len(s) PROVE (x \o y)[i] = s[i]
    <3>1. CASE i <= n
      <4>1. i \in 1..n
        BY <1>1, <3>1
      <4>2. (x \o y)[i] = x[i]
        BY <1>2, <1>3, <4>1
      <4> QED
        BY <1>2, <4>1, <4>2, Zenon
    <3>2. CASE i > n
      <4>1. i - n \in 1..(Len(s) - n) /\ n + (i - n) = i
        BY <1>1, <3>2
      <4>2. y[i - n] = s[i]
        BY <1>3, <4>1
      <4>3. (x \o y)[i] = y[i - n]
        BY <1>1, <1>2, <1>3, <3>2
      <4> QED
        BY <4>2, <4>3
    <3>3. i <= n \/ i > n
      BY <1>1
    <3> QED
      BY <3>1, <3>2, <3>3, Zenon
  <2>3. \A i \in 1..Len(s) : (x \o y)[i] = s[i]
    BY <2>2, Zenon
  <2> QED
    BY <2>1, <2>3, SameSeq, Zenon
<1> QED
  BY <1>2, <1>3, <1>4, Zenon DEF x, y

(* The length of two sequences joined.                                     *)
LEMMA ConcatType ==
  ASSUME NEW S, NEW a \in Seq(S), NEW b \in Seq(S)
  PROVE  a \o b \in Seq(S) /\ Len(a \o b) = Len(a) + Len(b)
  OBVIOUS

(* The recursive function behind Joined exists.                            *)
LEMMA JoiningExists ==
  ASSUME NEW ss, Len(ss) \in Nat
  PROVE  \E f : f = [i \in 0..Len(ss) |-> IF i = 0 THEN <<>> ELSE f[i - 1] \o ss[i]]
<1> DEFINE Cat(x, y) == x \o y
           E(k) == \E f : f = [i \in 0..k |-> IF i = 0 THEN <<>> ELSE Cat(f[i - 1], ss[i])]
           T == {k \in Nat : E(k)}
<1> HIDE DEF Cat
<1>1. E(0)
  <2> DEFINE f == [i \in 0..0 |-> <<>>]
  <2>1. f = [i \in 0..0 |-> IF i = 0 THEN <<>> ELSE Cat(f[i - 1], ss[i])]
    OBVIOUS
  <2> QED
    BY <2>1, Zenon
<1>2. ASSUME NEW k \in Nat, E(k) PROVE E(k + 1)
  <2>1. PICK f : f = [i \in 0..k |-> IF i = 0 THEN <<>> ELSE Cat(f[i - 1], ss[i])]
    BY <1>2, Zenon
  <2> DEFINE g == [i \in 0..(k + 1) |-> IF i = k + 1 THEN Cat(f[k], ss[k + 1]) ELSE f[i]]
  <2>2. g = [i \in 0..(k + 1) |-> IF i = 0 THEN <<>> ELSE Cat(g[i - 1], ss[i])]
    BY <2>1
  <2> QED
    BY <2>2, Zenon
<1> HIDE DEF E
<1>3. 0 \in T /\ \A n \in Nat : n \in T => n + 1 \in T
  BY <1>1, <1>2
<1> HIDE DEF T
<1>4. Nat \subseteq T
  BY <1>3, AllNat
<1>5. E(Len(ss))
  BY <1>4 DEF T
<1> QED
  BY <1>5, Zenon DEF E, Cat

(* What it is: each sequence is joined to the ones before it.              *)
LEMMA JoiningDef ==
  ASSUME NEW ss, Len(ss) \in Nat
  PROVE  /\ Joining(ss)[0] = <<>>
         /\ \A i \in 1..Len(ss) : Joining(ss)[i] = Joining(ss)[i - 1] \o ss[i]
<1> DEFINE Cat(x, y) == x \o y
           j == Joining(ss)
<1>1. j = [i \in 0..Len(ss) |-> IF i = 0 THEN <<>> ELSE Cat(j[i - 1], ss[i])]
  BY JoiningExists, Zenon DEF Joining
<1> HIDE DEF Cat, j
<1>2. j[0] = <<>> /\ \A i \in 1..Len(ss) : j[i] = Cat(j[i - 1], ss[i])
  BY <1>1
<1> QED
  BY <1>2, Zenon DEF Cat, j

(* Joining no sequence gives nothing.                                      *)
LEMMA JoinedEmpty == Joined(<<>>) = <<>>
<1>1. Len(<<>>) = 0
  OBVIOUS
<1>2. Len(<<>>) \in Nat
  OBVIOUS
<1>3. Joining(<<>>)[0] = <<>>
  BY <1>2, JoiningDef, Zenon
<1> QED
  BY <1>1, <1>3, Zenon DEF Joined

(* The sequences of a sequence, put together, are one; and what is added   *)
(* to the one is added to the other.                                       *)
LEMMA JoinedType ==
  ASSUME NEW S, NEW ss \in Seq(Seq(S))
  PROVE  Joined(ss) \in Seq(S)
<1> DEFINE f == Joining(ss)
           T == {k \in Nat : k \in 0..Len(ss) => f[k] \in Seq(S)}
<1>1. Len(ss) \in Nat /\ \A i \in 1..Len(ss) : ss[i] \in Seq(S)
  OBVIOUS
<1>2. f[0] = <<>> /\ \A i \in 1..Len(ss) : f[i] = f[i - 1] \o ss[i]
  BY <1>1, JoiningDef, Zenon
<1> HIDE DEF f
<1>3. 0 \in T
  <2>1. f[0] \in Seq(S)
    BY <1>2
  <2> QED
    BY <2>1, Zenon
<1>4. ASSUME NEW k \in Nat, k \in T PROVE k + 1 \in T
  <2> SUFFICES ASSUME k + 1 \in 0..Len(ss) PROVE f[k + 1] \in Seq(S)
    OBVIOUS
  <2>1. k + 1 \in 1..Len(ss) /\ (k + 1) - 1 = k /\ f[k] \in Seq(S)
    BY <1>1, <1>4
  <2>2. f[k + 1] = f[k] \o ss[k + 1]
    BY <1>2, <2>1, Zenon
  <2>3. ss[k + 1] \in Seq(S)
    BY <1>1, <2>1, Zenon
  <2> QED
    BY <2>1, <2>2, <2>3, ConcatType
<1>5. Nat \subseteq T
  <2> HIDE DEF T
  <2> QED
    BY <1>3, <1>4, AllNat, Zenon
<1>6. f[Len(ss)] \in Seq(S)
  BY <1>1, <1>5
<1> QED
  BY <1>6, Zenon DEF Joined, f

(* One more part is joined at the end: how what a request was given grows. *)
LEMMA JoinedAppend ==
  ASSUME NEW S, NEW ss \in Seq(Seq(S)), NEW x \in Seq(S)
  PROVE  Joined(Append(ss, x)) = Joined(ss) \o x
<1> DEFINE tt == Append(ss, x)
           n == Len(ss)
           Cat(a, b) == a \o b
           f == Joining(ss)
           g == Joining(tt)
           T == {k \in Nat : k \in 0..n => f[k] = g[k]}
<1>1. /\ n \in Nat /\ Len(tt) = n + 1 /\ Len(tt) \in Nat /\ tt[n + 1] = x
      /\ \A i \in 1..n : tt[i] = ss[i]
  OBVIOUS
<1> HIDE DEF tt
<1>2. f[0] = <<>> /\ \A i \in 1..n : f[i] = Cat(f[i - 1], ss[i])
  BY <1>1, JoiningDef, Zenon
<1>3. g[0] = <<>> /\ \A i \in 1..(n + 1) : g[i] = Cat(g[i - 1], tt[i])
  BY <1>1, JoiningDef, Zenon
<1> HIDE DEF f, g, n, Cat
<1>4. 0 \in T
  BY <1>2, <1>3
<1>5. ASSUME NEW k \in Nat, k \in T PROVE k + 1 \in T
  BY <1>1, <1>2, <1>3, <1>5
<1>6. Nat \subseteq T
  <2> HIDE DEF T
  <2> QED
    BY <1>4, <1>5, AllNat, Zenon
<1>7. f[n] = g[n]
  BY <1>1, <1>6
<1>8. g[n + 1] = Cat(f[n], x)
  BY <1>1, <1>3, <1>7
<1> QED
  BY <1>1, <1>8, Zenon DEF Joined, f, g, tt, n, Cat

(* Where the units of one sequence are when all are put together.          *)
LEMMA JoiningAt ==
  ASSUME NEW S, NEW ss \in Seq(Seq(S))
  PROVE  /\ \A k \in 0..Len(ss) : Joining(ss)[k] \in Seq(S)
         /\ \A k \in 0..Len(ss), i \in 1..Len(ss) : i <= k =>
               /\ Len(Joining(ss)[i]) = Len(Joining(ss)[i - 1]) + Len(ss[i])
               /\ Len(Joining(ss)[i]) <= Len(Joining(ss)[k])
               /\ \A r \in 1..Len(ss[i]) : Joining(ss)[k][Len(Joining(ss)[i - 1]) + r] = ss[i][r]
<1> DEFINE f == Joining(ss)
           G(k) == /\ f[k] \in Seq(S)
                   /\ \A i \in 1..Len(ss) : i <= k =>
                       /\ Len(f[i]) = Len(f[i - 1]) + Len(ss[i])
                       /\ Len(f[i]) <= Len(f[k])
                       /\ f[i - 1] \in Seq(S)
                       /\ \A r \in 1..Len(ss[i]) : f[k][Len(f[i - 1]) + r] = ss[i][r]
           T == {k \in Nat : k \in 0..Len(ss) => G(k)}
<1>1. Len(ss) \in Nat /\ \A i \in 1..Len(ss) : ss[i] \in Seq(S)
  OBVIOUS
<1>2. f[0] = <<>> /\ \A i \in 1..Len(ss) : f[i] = f[i - 1] \o ss[i]
  BY <1>1, JoiningDef, Zenon
<1> HIDE DEF f
<1>3. 0 \in T
  <2>1. f[0] \in Seq(S)
    BY <1>2
  <2>2. ~ \E i \in 1..Len(ss) : i <= 0
    OBVIOUS
  <2>3. G(0)
    BY <2>1, <2>2, Zenon
  <2> QED
    BY <2>3, Zenon
<1>4. ASSUME NEW k \in Nat, k \in T PROVE k + 1 \in T
  <2> SUFFICES ASSUME k + 1 \in 0..Len(ss) PROVE G(k + 1)
    <3> HIDE DEF G
    <3> QED
      OBVIOUS
  <2>1. k + 1 \in 1..Len(ss) /\ (k + 1) - 1 = k /\ k \in 0..Len(ss)
    BY <1>1
  <2>2. G(k)
    BY <1>4, <2>1, Zenon
  <2> DEFINE a == f[k]
             b == ss[k + 1]
             c == f[k + 1]
  <2>3. a \in Seq(S) /\ b \in Seq(S)
    BY <1>1, <2>1, <2>2, Zenon
  <2>4. c = a \o b
    BY <1>2, <2>1, Zenon
  <2> HIDE DEF a, b, c
  <2>5. /\ c \in Seq(S) /\ Len(c) = Len(a) + Len(b) /\ Len(a) \in Nat /\ Len(b) \in Nat
        /\ \A n \in 1..Len(a) : c[n] = a[n]
        /\ \A n \in 1..Len(b) : c[Len(a) + n] = b[n]
    BY <2>3, <2>4, SMTT(20)
  <2>6. ASSUME NEW i \in 1..Len(ss), i <= k + 1
        PROVE  /\ Len(f[i]) = Len(f[i - 1]) + Len(ss[i])
               /\ Len(f[i]) <= Len(c)
               /\ f[i - 1] \in Seq(S)
               /\ \A r \in 1..Len(ss[i]) : c[Len(f[i - 1]) + r] = ss[i][r]
    <3>1. CASE i = k + 1
      <4>1. f[i] = c /\ f[i - 1] = a /\ ss[i] = b
        BY <3>1 DEF a, b, c
      <4> QED
        BY <2>3, <2>5, <4>1, SMTT(20)
    <3>2. CASE i <= k
      <4> DEFINE x == f[i - 1]
                 y == ss[i]
                 z == f[i]
      <4>1. /\ Len(z) = Len(x) + Len(y) /\ Len(z) <= Len(a) /\ x \in Seq(S)
            /\ \A r \in 1..Len(y) : a[Len(x) + r] = y[r]
        BY <2>2, <3>2, Zenon DEF a
      <4>2. y \in Seq(S)
        BY <1>1, Zenon
      <4> HIDE DEF x, y, z
      <4>3. Len(x) \in Nat /\ Len(y) \in Nat
        BY <4>1, <4>2
      <4>4. \A r \in 1..Len(y) : c[Len(x) + r] = y[r]
        <5>1. ASSUME NEW r \in 1..Len(y) PROVE c[Len(x) + r] = y[r]
          <6>1. Len(x) + r \in 1..Len(a)
            BY <2>5, <4>1, <4>3, SMTT(20)
          <6> QED
            BY <2>5, <4>1, <6>1, Zenon
        <5> QED
          BY <5>1, Zenon
      <4>5. Len(z) <= Len(c)
        BY <2>5, <4>1, <4>3
      <4> QED
        BY <4>1, <4>4, <4>5, Zenon DEF x, y, z
    <3>3. i = k + 1 \/ i <= k
      BY <2>6
    <3> QED
      BY <3>1, <3>2, <3>3, Zenon
  <2> QED
    BY <2>5, <2>6, Zenon DEF c
<1>5. Nat \subseteq T
  <2> HIDE DEF T
  <2> QED
    BY <1>3, <1>4, AllNat
<1>6. \A k \in 0..Len(ss) : G(k)
  <2>1. \A k \in 0..Len(ss) : k \in T
    <3> HIDE DEF T
    <3> QED
      BY <1>1, <1>5
  <2> HIDE DEF G
  <2> QED
    BY <2>1
<1> QED
  BY <1>6, Zenon DEF f

-----------------------------------------------------------------------------
(* What is on the wire.                                                    *)

Units ==
    {<<"x">>, <<"pad">>} \cup ({"len", "len4"} \X Nat)
        \cup ({"name", "value", "data"} \X STRING) \cup ({"header"} \X Nat \X Nat)

(* The units a web server may send.                                        *)
LEMMA UnitsIn ==
  /\ <<"x">> \in Units /\ <<"pad">> \in Units
  /\ \A n \in Nat : <<"len", n>> \in Units /\ <<"len4", n>> \in Units
  /\ \A c \in STRING : <<"name", c>> \in Units /\ <<"value", c>> \in Units /\ <<"data", c>> \in Units
  /\ \A i, j \in Nat : <<"header", j, i>> \in Units
  BY DEF Units

LenSize(long) == IF long THEN 4 ELSE 1

LenUnit(n, long) == IF long THEN <<"len4", n>> ELSE <<"len", n>>

(* A length on the wire: one unit or four, the first of which says it all  *)
(* to parse_len.                                                           *)
LEMMA EncodeLenFacts ==
  ASSUME NEW n \in Nat, NEW long \in BOOLEAN
  PROVE  /\ EncodeLen(n, long) \in Seq(Units)
         /\ Len(EncodeLen(n, long)) = LenSize(long)
         /\ EncodeLen(n, long)[1] = LenUnit(n, long)
<1>1. CASE long
  <2> DEFINE a == <<"len4", n>>
             b == <<"x">>
             e == <<a, b, b, b>>
  <2>1. EncodeLen(n, long) = e /\ LenSize(long) = 4 /\ LenUnit(n, long) = a
    BY <1>1 DEF EncodeLen, LenSize, LenUnit
  <2>2. a \in Units /\ b \in Units
    BY UnitsIn, Zenon
  <2> HIDE DEF a, b
  <2>3. e \in Seq(Units) /\ Len(e) = 4 /\ e[1] = a
    BY <2>2
  <2> QED
    BY <2>1, <2>3
<1>2. CASE ~long
  <2> DEFINE a == <<"len", n>>
             e == <<a>>
  <2>1. EncodeLen(n, long) = e /\ LenSize(long) = 1 /\ LenUnit(n, long) = a
    BY <1>2 DEF EncodeLen, LenSize, LenUnit
  <2>2. a \in Units
    BY UnitsIn, Zenon
  <2> HIDE DEF a
  <2>3. e \in Seq(Units) /\ Len(e) = 1 /\ e[1] = a
    BY <2>2
  <2> QED
    BY <2>1, <2>3
<1> QED
  BY <1>1, <1>2

(* A sequence over a set is one over a larger set.                         *)
LEMMA SeqMono ==
  ASSUME NEW S, NEW T, S \subseteq T, NEW s \in Seq(S)
  PROVE  s \in Seq(T)
  OBVIOUS

(* A function on 1..n is a sequence of n elements.                         *)
LEMMA FunSeq ==
  ASSUME NEW S, NEW n \in Nat, NEW f \in [1..n -> S]
  PROVE  f \in Seq(S) /\ Len(f) = n
  OBVIOUS

(* Element by element: a sequence with one more element.                   *)
LEMMA AppendAt ==
  ASSUME NEW S, NEW s \in Seq(S), NEW x \in S
  PROVE  /\ Append(s, x) \in Seq(S) /\ Len(Append(s, x)) = Len(s) + 1 /\ Len(s) \in Nat
         /\ Append(s, x)[Len(s) + 1] = x
         /\ \A i \in 1..Len(s) : Append(s, x)[i] = s[i]
  OBVIOUS

(* Element by element: two sequences joined.                               *)
LEMMA ConcatAt ==
  ASSUME NEW S, NEW a \in Seq(S), NEW b \in Seq(S)
  PROVE  /\ a \o b \in Seq(S) /\ Len(a \o b) = Len(a) + Len(b)
         /\ Len(a) \in Nat /\ Len(b) \in Nat
         /\ \A i \in 1..Len(a) : (a \o b)[i] = a[i]
         /\ \A i \in 1..Len(b) : (a \o b)[Len(a) + i] = b[i]
  OBVIOUS

(* The units of a parameter.                                               *)
LEMMA EncodeParamAt ==
  ASSUME NEW q \in ParamSet
  PROVE  /\ EncodeParam(q) \in Seq(Units)
         /\ Len(EncodeParam(q)) = 2 * LenSize(q.long) + q.nlen + Len(q.value)
         /\ EncodeParam(q)[1] = LenUnit(q.nlen, q.long)
         /\ EncodeParam(q)[LenSize(q.long) + 1] = LenUnit(Len(q.value), q.long)
         /\ \A i \in 1..q.nlen : EncodeParam(q)[2 * LenSize(q.long) + i] = <<"name", q.name>>
         /\ \A i \in 1..Len(q.value) :
               EncodeParam(q)[2 * LenSize(q.long) + q.nlen + i] = <<"value", q.value[i]>>
<1> DEFINE l == LenSize(q.long)
           n == q.nlen
           v == Len(q.value)
           a == EncodeLen(n, q.long)
           b == EncodeLen(v, q.long)
           c == [i \in 1..n |-> <<"name", q.name>>]
           d == [i \in 1..v |-> <<"value", q.value[i]>>]
<1>1. /\ n \in Nat /\ q.long \in BOOLEAN /\ q.name \in STRING
      /\ q.value \in Seq(STRING)
  <2>1. q \in [name : STRING, nlen : Nat, value : Seq(Char), long : BOOLEAN]
    BY DEF ParamSet
  <2>2. q.value \in Seq(Char) /\ q.nlen \in Nat /\ q.long \in BOOLEAN /\ q.name \in STRING
    BY <2>1
  <2>3. Char \subseteq STRING
    BY DEF Char
  <2>4. q.value \in Seq(STRING)
    BY <2>2, <2>3, SeqMono, Zenon
  <2> QED
    BY <2>2, <2>4
<1>2. v \in Nat /\ \A i \in 1..v : q.value[i] \in STRING
  BY <1>1
<1>3. a \in Seq(Units) /\ Len(a) = l /\ a[1] = LenUnit(n, q.long)
  BY <1>1, EncodeLenFacts
<1>4. b \in Seq(Units) /\ Len(b) = l /\ b[1] = LenUnit(v, q.long)
  BY <1>1, <1>2, EncodeLenFacts
<1>5. c \in Seq(Units) /\ Len(c) = n /\ \A i \in 1..n : c[i] = <<"name", q.name>>
  <2> DEFINE u == <<"name", q.name>>
  <2>1. u \in Units
    BY <1>1, UnitsIn, Zenon
  <2> HIDE DEF u
  <2>2. c \in [1..n -> Units] /\ \A i \in 1..n : c[i] = u
    BY <2>1 DEF u
  <2> HIDE DEF c
  <2> QED
    BY <1>1, <2>2, FunSeq, Zenon DEF u
<1>6. d \in Seq(Units) /\ Len(d) = v /\ \A i \in 1..v : d[i] = <<"value", q.value[i]>>
  <2> DEFINE u(i) == <<"value", q.value[i]>>
  <2>1. \A i \in 1..v : u(i) \in Units
    BY <1>2, UnitsIn, Zenon
  <2> HIDE DEF v
  <2>2. d \in [1..v -> Units] /\ \A i \in 1..v : d[i] = u(i)
    BY <2>1, Zenon
  <2> HIDE DEF d
  <2> QED
    BY <1>2, <2>2, FunSeq, Zenon
<1>7. l \in {1, 4}
  BY <1>1 DEF LenSize
<1>8. EncodeParam(q) = ((a \o b) \o c) \o d
  BY DEF EncodeParam
<1> HIDE DEF a, b, c, d, l, n, v
<1>9. /\ a \o b \in Seq(Units) /\ Len(a \o b) = 2 * l
      /\ (a \o b)[1] = a[1] /\ (a \o b)[l + 1] = b[1]
  BY <1>3, <1>4, <1>7, ConcatAt
<1> DEFINE e == a \o b
           f == e \o c
           g == f \o d
<1> HIDE DEF e
<1>10. /\ f \in Seq(Units) /\ Len(f) = 2 * l + n
       /\ \A i \in 1..(2 * l) : f[i] = e[i]
       /\ \A i \in 1..n : f[2 * l + i] = c[i]
  <2>1. e \in Seq(Units) /\ Len(e) = 2 * l
    BY <1>9, Zenon DEF e
  <2>2. /\ e \o c \in Seq(Units) /\ Len(e \o c) = Len(e) + Len(c)
        /\ \A i \in 1..Len(e) : (e \o c)[i] = e[i]
        /\ \A i \in 1..Len(c) : (e \o c)[Len(e) + i] = c[i]
    <3>1. c \in Seq(Units) /\ e \in Seq(Units)
      BY <1>5, <2>1
    <3> QED
      BY <3>1, ConcatAt
  <2> QED
    BY <1>5, <2>1, <2>2, Zenon
<1> HIDE DEF f
<1>11. /\ g \in Seq(Units) /\ Len(g) = 2 * l + n + v
       /\ \A i \in 1..(2 * l + n) : g[i] = f[i]
       /\ \A i \in 1..v : g[2 * l + n + i] = d[i]
  <2>1. /\ f \o d \in Seq(Units) /\ Len(f \o d) = Len(f) + Len(d)
        /\ \A i \in 1..Len(f) : (f \o d)[i] = f[i]
        /\ \A i \in 1..Len(d) : (f \o d)[Len(f) + i] = d[i]
    <3>1. d \in Seq(Units) /\ f \in Seq(Units)
      BY <1>6, <1>10
    <3> QED
      BY <3>1, ConcatAt
  <2> QED
    BY <1>6, <1>10, <2>1, Zenon
<1> HIDE DEF g
<1>12. EncodeParam(q) = g
  BY <1>8, Zenon DEF e, f, g
<1>13. g[1] = a[1] /\ g[l + 1] = b[1]
  <2>1. 1 \in 1..(2 * l) /\ l + 1 \in 1..(2 * l) /\ 1 \in 1..(2 * l + n) /\ l + 1 \in 1..(2 * l + n)
    BY <1>1, <1>7
  <2>2. g[1] = f[1] /\ g[l + 1] = f[l + 1]
    BY <1>11, <2>1, Zenon
  <2>3. f[1] = e[1] /\ f[l + 1] = e[l + 1]
    BY <1>10, <2>1, Zenon
  <2>4. e[1] = a[1] /\ e[l + 1] = b[1]
    BY <1>9, Zenon DEF e
  <2> QED
    BY <2>2, <2>3, <2>4, Zenon
<1>14. \A i \in 1..n : g[2 * l + i] = c[i]
  <2>1. \A i \in 1..n : 2 * l + i \in 1..(2 * l + n)
    BY <1>1, <1>7
  <2> QED
    BY <1>10, <1>11, <2>1
<1> QED
  BY <1>3, <1>4, <1>5, <1>6, <1>11, <1>12, <1>13, <1>14, Zenon DEF l, n, v

-----------------------------------------------------------------------------
(* fcgi_parse_params.                                                      *)

(* evbuffer_drain, element by element.                                     *)
LEMMA DrainFacts ==
  ASSUME NEW S, NEW s \in Seq(S), NEW n \in 0..Len(s)
  PROVE  /\ Drain(s, n) \in Seq(S) /\ Len(Drain(s, n)) = Len(s) - n
         /\ \A i \in 1..(Len(s) - n) : Drain(s, n)[i] = s[n + i]
  BY DEF Drain

(* Draining twice is draining the sum at once.                             *)
LEMMA DrainTwice ==
  ASSUME NEW S, NEW s \in Seq(S), NEW a \in Nat, NEW b \in Nat, a + b <= Len(s)
  PROVE  Drain(Drain(s, a), b) = Drain(s, a + b)
<1> DEFINE x == Drain(s, a)
           y == Drain(x, b)
           z == Drain(s, a + b)
<1>1. a \in 0..Len(s) /\ a + b \in 0..Len(s) /\ Len(s) \in Nat
  OBVIOUS
<1>2. x \in Seq(S) /\ Len(x) = Len(s) - a /\ \A i \in 1..(Len(s) - a) : x[i] = s[a + i]
  BY <1>1, DrainFacts
<1>3. b \in 0..Len(x)
  BY <1>1, <1>2
<1> HIDE DEF x
<1>4. y \in Seq(S) /\ Len(y) = Len(x) - b /\ \A i \in 1..(Len(x) - b) : y[i] = x[b + i]
  BY <1>2, <1>3, DrainFacts, ZenonT(40)
<1>5. z \in Seq(S) /\ Len(z) = Len(s) - (a + b) /\ \A i \in 1..(Len(s) - (a + b)) : z[i] = s[a + b + i]
  BY <1>1, DrainFacts
<1> HIDE DEF y, z
<1>6. Len(y) = Len(z)
  BY <1>1, <1>2, <1>4, <1>5
<1>7. ASSUME NEW i \in 1..Len(z) PROVE y[i] = z[i]
  <2>1. i \in 1..(Len(x) - b) /\ b + i \in 1..(Len(s) - a) /\ a + (b + i) = a + b + i
    BY <1>1, <1>2, <1>5
  <2> QED
    BY <1>2, <1>4, <1>5, <2>1, Zenon
<1>8. y = z
  BY <1>4, <1>5, <1>6, <1>7, SameSeq, Zenon
<1> QED
  BY <1>8 DEF x, y, z

(* parse_len reads a length that is all there, fails on the long form that *)
(* is cut short, and has something unknown for any other unit.             *)
LEMMA ParseLenGood ==
  ASSUME NEW u \in Seq(Units), NEW t \in Int, NEW n \in Nat, NEW long \in BOOLEAN,
         LenSize(long) <= Len(u), LenSize(long) <= t, u[1] = LenUnit(n, long)
  PROVE  ParseLen(u, t) = [n |-> n, src |-> Drain(u, LenSize(long)), toread |-> t - LenSize(long)]
<1>1. CASE long
  <2>1. u[1] = <<"len4", n>> /\ LenSize(long) = 4
    BY <1>1 DEF LenUnit, LenSize
  <2>2. u[1][1] = "len4" /\ u[1][2] = n
    BY <2>1
  <2>3. ~Tagged(u, 1, "len") /\ Tagged(u, 1, "len4")
    BY <2>1, <2>2 DEF Tagged
  <2>4. ~(t - 1 < 3)
    BY <2>1
  <2> QED
    BY <2>1, <2>2, <2>3, <2>4 DEF ParseLen
<1>2. CASE ~long
  <2>1. u[1] = <<"len", n>> /\ LenSize(long) = 1
    BY <1>2 DEF LenUnit, LenSize
  <2>2. u[1][1] = "len" /\ u[1][2] = n
    BY <2>1
  <2>3. Tagged(u, 1, "len") /\ ~Tagged(u, 1, "len4")
    BY <2>1, <2>2 DEF Tagged
  <2>4. Tail(u) = Drain(u, 1)
    BY <2>1 DEF Drain
  <2> QED
    BY <2>1, <2>2, <2>3, <2>4, Zenon DEF ParseLen
<1> QED
  BY <1>1, <1>2

(* parse_len refuses a length that is not wholly in the record.            *)
LEMMA ParseLenShort ==
  ASSUME NEW u \in Seq(Units), NEW t \in Int, NEW n \in Nat, NEW long \in BOOLEAN,
         1 <= Len(u), 1 <= t, t < LenSize(long), u[1] = LenUnit(n, long)
  PROVE  ParseLen(u, t).n = -1
<1>1. long /\ t - 1 < 3
  BY DEF LenSize
<1>2. u[1][1] = "len4"
  BY <1>1 DEF LenUnit
<1>3. ~Tagged(u, 1, "len") /\ Tagged(u, 1, "len4")
  BY <1>2 DEF Tagged
<1> QED
  BY <1>1, <1>3 DEF ParseLen

(* parse_len on a unit that is no length takes it, and what it returns is  *)
(* unknown.                                                                *)
LEMMA ParseLenOther ==
  ASSUME NEW u \in Seq(Units), NEW t \in Int, Len(u) > 0 => u[1][1] \notin {"len", "len4"}
  PROVE  ParseLen(u, t).n = -2 /\ ParseLen(u, t).toread = t - 1
<1>1. ~Tagged(u, 1, "len") /\ ~Tagged(u, 1, "len4")
  BY DEF Tagged
<1> QED
  BY <1>1 DEF ParseLen

(* The first t units of u are those of e, as far as it goes, and no length *)
(* follows on them.                                                        *)
Meets(u, t, e) ==
    /\ t <= Len(u)
    /\ \A i \in 1..Len(e) : i <= t => u[i] = e[i]
    /\ Len(u) > t => u[t + 1][1] \notin {"len", "len4"}

(* The fields of a parameter; a known name fits in pname.                  *)
LEMMA ParamTypes ==
  ASSUME NEW q \in ParamSet
  PROVE  /\ q.nlen \in Nat /\ q.long \in BOOLEAN /\ q.name \in STRING
         /\ q.value \in Seq(Char) /\ q.value \in Seq(STRING) /\ Len(q.value) \in Nat
         /\ LenSize(q.long) \in {1, 4}
         /\ q.name \in Known => q.nlen \in 1..(PnameSize - 1)
<1>1. /\ q \in [name : STRING, nlen : Nat, value : Seq(Char), long : BOOLEAN]
      /\ q.name \in Known => q.nlen \in 1..(PnameSize - 1)
  BY DEF ParamSet
<1>2. q.value \in Seq(Char) /\ q.nlen \in Nat /\ q.long \in BOOLEAN /\ q.name \in STRING
  BY <1>1
<1>3. Char \subseteq STRING
  BY DEF Char
<1>4. q.value \in Seq(STRING)
  BY <1>2, <1>3, SeqMono, Zenon
<1>5. Len(q.value) \in Nat
  BY <1>2
<1>6. LenSize(q.long) \in {1, 4}
  BY <1>2 DEF LenSize
<1> QED
  BY <1>1, <1>2, <1>4, <1>5, <1>6

(* A parameter that is all in the record is taken from the input.          *)
LEMMA ParamWhole ==
  ASSUME NEW q \in ParamSet, NEW u \in Seq(Units), NEW t \in Nat, NEW k,
         Meets(u, t, EncodeParam(q)), Len(EncodeParam(q)) <= t,
         q.nlen >= PnameSize => q.value = <<>>
  PROVE  ParseParam([res |-> "more", src |-> u, toread |-> t, clt |-> k]) =
            [res |-> "more", src |-> Drain(u, Len(EncodeParam(q))),
             toread |-> t - Len(EncodeParam(q)), clt |-> Store(k, q.name, q.value)]
<1> DEFINE p == [res |-> "more", src |-> u, toread |-> t, clt |-> k]
           e == EncodeParam(q)
           l == LenSize(q.long)
           nl == q.nlen
           vl == Len(q.value)
           n == ParseLen(p.src, p.toread)
           v == ParseLen(n.src, n.toread)
           name == IF n.n = 0 THEN "" ELSE v.src[1][2]
           value == [i \in 1..v.n |-> v.src[n.n + i][2]]
<1>1. ParseParam(p) =
        IF p.res # "more" THEN p
        ELSE IF p.toread <= 0 THEN [p EXCEPT !.res = "ok"]
        ELSE IF n.n = -1 \/ (n.n >= 0 /\ v.n = -1) THEN [p EXCEPT !.res = "fail"]
        ELSE IF n.n >= 0 /\ v.toread < (IF v.n = -2 THEN 0 ELSE n.n + v.n)
        THEN [p EXCEPT !.res = "fail"]
        ELSE IF n.n = -2 \/ v.n = -2 THEN [p EXCEPT !.res = "lost"]
        ELSE IF n.n > PnameSize - 1
        THEN [p EXCEPT !.src = Drain(v.src, n.n + v.n), !.toread = v.toread - (n.n - v.n)]
        ELSE IF ~Tagged(v.src, n.n, "name") \/ ~Tagged(Drain(v.src, n.n), v.n, "value")
        THEN [p EXCEPT !.res = "lost"]
        ELSE [p EXCEPT !.src = Drain(v.src, n.n + v.n), !.toread = v.toread - n.n - v.n,
                       !.clt = Store(@, name, value)]
  BY Zenon DEF ParseParam
<1>2. n = ParseLen(u, t)
  BY Zenon
<1> HIDE DEF n, v
<1>3. /\ nl \in Nat /\ q.long \in BOOLEAN /\ q.name \in STRING
      /\ q.value \in Seq(STRING) /\ vl \in Nat /\ l \in {1, 4}
      /\ q.name \in Known => nl \in 1..(PnameSize - 1)
  BY ParamTypes
<1>4. PnameSize \in Nat \ {0}
  BY FramingAssumption
<1>5. /\ e \in Seq(Units) /\ Len(e) = 2 * l + nl + vl
      /\ e[1] = LenUnit(nl, q.long) /\ e[l + 1] = LenUnit(vl, q.long)
      /\ \A i \in 1..nl : e[2 * l + i] = <<"name", q.name>>
      /\ \A i \in 1..vl : e[2 * l + nl + i] = <<"value", q.value[i]>>
  BY EncodeParamAt, Zenon
<1>6. Len(u) \in Nat /\ t <= Len(u) /\ Len(e) <= t /\ \A i \in 1..Len(e) : u[i] = e[i]
  <2>1. Meets(u, t, e) /\ Len(e) <= t
    OBVIOUS
  <2> HIDE DEF e
  <2>2. Len(e) \in Nat /\ Len(u) \in Nat
    BY <1>5
  <2> QED
    BY <2>1, <2>2 DEF Meets
<1> HIDE DEF e, l, nl, vl
<1>7. n = [n |-> nl, src |-> Drain(u, l), toread |-> t - l]
  <2>1. 1 \in 1..Len(e) /\ l <= Len(u) /\ l <= t
    BY <1>3, <1>5, <1>6
  <2>2. u[1] = LenUnit(nl, q.long)
    BY <1>5, <1>6, <2>1, Zenon
  <2> QED
    BY <1>2, <1>3, <2>1, <2>2, ParseLenGood DEF l
<1> DEFINE w == Drain(u, l)
           x == Drain(u, 2 * l)
<1>8. w \in Seq(Units) /\ Len(w) = Len(u) - l /\ \A i \in 1..(Len(u) - l) : w[i] = u[l + i]
  <2>1. l \in 0..Len(u)
    BY <1>3, <1>5, <1>6
  <2> QED
    BY <2>1, DrainFacts
<1>9. x \in Seq(Units) /\ Len(x) = Len(u) - 2 * l /\ \A i \in 1..(Len(u) - 2 * l) : x[i] = u[2 * l + i]
  <2>1. 2 * l \in 0..Len(u)
    BY <1>3, <1>5, <1>6
  <2> QED
    BY <2>1, DrainFacts, Zenon
<1>10. Drain(w, l) = x
  <2>1. l \in Nat /\ l + l <= Len(u) /\ l + l = 2 * l
    BY <1>3, <1>5, <1>6
  <2> QED
    BY <2>1, DrainTwice
<1>11. n.n = nl /\ n.src = w /\ n.toread = t - l
  BY <1>7
<1> HIDE DEF w
<1>12. v = [n |-> vl, src |-> x, toread |-> t - 2 * l]
  <2>1. 1 \in 1..(Len(u) - l) /\ l + 1 \in 1..Len(e) /\ l <= Len(w) /\ l <= t - l /\ t - l \in Int
        /\ (t - l) - l = t - 2 * l
    <3>1. l \in Nat \ {0} /\ nl \in Nat /\ vl \in Nat /\ t \in Nat
      BY <1>3
    <3>2. Len(e) = 2 * l + nl + vl /\ Len(u) \in Nat /\ t <= Len(u) /\ Len(e) <= t
      BY <1>5, <1>6, Zenon
    <3>3. Len(w) = Len(u) - l
      BY <1>8, Zenon
    <3> QED
      BY <3>1, <3>2, <3>3
  <2>2. w[1] = LenUnit(vl, q.long)
    BY <1>5, <1>6, <1>8, <2>1, Zenon
  <2>3. ParseLen(w, t - l) = [n |-> vl, src |-> Drain(w, l), toread |-> (t - l) - l]
    BY <1>3, <1>8, <2>1, <2>2, ParseLenGood, SMTT(20) DEF l
  <2> QED
    BY <1>10, <1>11, <2>1, <2>3 DEF v
<1>13. v.n = vl /\ v.src = x /\ v.toread = t - 2 * l
  BY <1>12
<1> HIDE DEF x
<1>14. /\ Drain(x, nl + vl) = Drain(u, Len(e))
       /\ t - 2 * l - nl - vl = t - Len(e)
  <2>1. 2 * l \in Nat /\ nl + vl \in Nat /\ 2 * l + (nl + vl) <= Len(u) /\ 2 * l + (nl + vl) = Len(e)
    BY <1>3, <1>5, <1>6
  <2>2. Drain(Drain(u, 2 * l), nl + vl) = Drain(u, 2 * l + (nl + vl))
    BY <2>1, DrainTwice
  <2>3. t - 2 * l - nl - vl = t - (2 * l + (nl + vl))
    BY <1>3
  <2> QED
    BY <2>1, <2>2, <2>3, Zenon DEF x
<1>15. p.res = "more" /\ p.toread = t /\ t > 0 /\ p.clt = k
  BY <1>3, <1>5, <1>6
<1>16. t - 2 * l >= nl + vl
  BY <1>3, <1>5, <1>6, SMTT(20)
<1>17. ParseParam(p) =
         IF nl > PnameSize - 1
         THEN [p EXCEPT !.src = Drain(x, nl + vl), !.toread = (t - 2 * l) - (nl - vl)]
         ELSE IF ~Tagged(x, nl, "name") \/ ~Tagged(Drain(x, nl), vl, "value")
         THEN [p EXCEPT !.res = "lost"]
         ELSE [p EXCEPT !.src = Drain(x, nl + vl), !.toread = (t - 2 * l) - nl - vl,
                        !.clt = Store(@, name, value)]
  <2>1. /\ ~(p.res # "more") /\ ~(p.toread <= 0) /\ n.n # -1 /\ v.n # -1 /\ n.n # -2 /\ v.n # -2
        /\ ~(v.toread < (IF v.n = -2 THEN 0 ELSE n.n + v.n))
    BY <1>3, <1>11, <1>13, <1>15, <1>16
  <2> HIDE DEF p, name, value
  <2> QED
    BY <1>1, <1>11, <1>13, <2>1, Zenon
<1> DEFINE r == [res |-> "more", src |-> Drain(u, Len(e)), toread |-> t - Len(e),
                 clt |-> Store(k, q.name, q.value)]
<1>18. CASE nl > PnameSize - 1
  <2>1. vl = 0 /\ q.name \notin Known
    BY <1>3, <1>4, <1>18 DEF nl, vl
  <2>2. Store(k, q.name, q.value) = k
    BY <2>1 DEF Store
  <2>3. ParseParam(p) = [p EXCEPT !.src = Drain(x, nl + vl), !.toread = (t - 2 * l) - (nl - vl)]
    BY <1>17, <1>18, Zenon
  <2>4. (t - 2 * l) - (nl - vl) = t - Len(e)
    BY <1>3, <1>5, <1>6, <2>1
  <2>5. ParseParam(p) = r
    BY <1>14, <2>2, <2>3, <2>4, Zenon
  <2> QED
    BY <2>5 DEF e
<1>19. CASE ~(nl > PnameSize - 1)
  <2>1. \A i \in 1..nl : x[i] = <<"name", q.name>>
    <3>1. \A i \in 1..nl : i \in 1..(Len(u) - 2 * l) /\ 2 * l + i \in 1..Len(e)
      BY <1>3, <1>5, <1>6
    <3> QED
      BY <1>5, <1>6, <1>9, <3>1
  <2>2. Tagged(x, nl, "name")
    BY <1>3, <1>5, <1>6, <1>9, <2>1, SMTT(20) DEF Tagged
  <2>3. \A i \in 1..vl : x[nl + i] = <<"value", q.value[i]>>
    <3>1. \A i \in 1..vl : nl + i \in 1..(Len(u) - 2 * l) /\ 2 * l + (nl + i) \in 1..Len(e)
                           /\ 2 * l + (nl + i) = 2 * l + nl + i
      <4>1. 2 * l \in Nat /\ nl \in Nat /\ vl \in Nat /\ Len(u) \in Nat
        BY <1>3
      <4>2. 2 * l + nl + vl = Len(e) /\ Len(e) <= Len(u)
        BY <1>5, <1>6
      <4> DEFINE m == 2 * l
      <4> HIDE DEF m
      <4>3. \A i \in 1..vl : nl + i \in 1..(Len(u) - m) /\ m + (nl + i) \in 1..Len(e)
                           /\ m + (nl + i) = m + nl + i
        BY <4>1, <4>2, SMTT(20) DEF m
      <4> QED
        BY <4>3 DEF m
    <3> QED
      BY <1>5, <1>6, <1>9, <3>1, SMTT(20)
  <2>4. nl \in 0..Len(x)
    BY <1>3, <1>5, <1>6, <1>9
  <2>5. /\ Drain(x, nl) \in Seq(Units) /\ Len(Drain(x, nl)) = Len(x) - nl
        /\ \A i \in 1..(Len(x) - nl) : Drain(x, nl)[i] = x[nl + i]
    BY <1>9, <2>4, DrainFacts, ZenonT(40)
  <2>6. Tagged(Drain(x, nl), vl, "value")
    <3> DEFINE y == Drain(x, nl)
    <3>1. Len(y) >= vl
      BY <1>3, <1>5, <1>6, <1>9, <2>5
    <3>2. ASSUME NEW i \in 1..vl PROVE y[i][1] = "value"
      <4>1. i \in 1..(Len(x) - nl)
        BY <1>3, <1>5, <1>6, <1>9
      <4>2. y[i] = <<"value", q.value[i]>>
        BY <2>3, <2>5, <4>1
      <4> HIDE DEF y
      <4> QED
        BY <4>2
    <3> HIDE DEF y
    <3>3. Tagged(y, vl, "value")
      BY <3>1, <3>2 DEF Tagged
    <3> QED
      BY <3>3 DEF y
  <2>7. value = q.value
    <3>1. value = [i \in 1..vl |-> x[nl + i][2]]
      BY <1>11, <1>13
    <3>2. \A i \in 1..vl : x[nl + i][2] = q.value[i]
      BY <2>3
    <3>3. value = [i \in 1..vl |-> q.value[i]]
      BY <3>1, <3>2, Zenon
    <3>4. q.value = [i \in 1..vl |-> q.value[i]]
      BY <1>3 DEF vl
    <3> QED
      BY <3>3, <3>4, Zenon
  <2>8. Store(k, name, value) = Store(k, q.name, q.value)
    <3>1. CASE nl = 0
      <4>1. name = "" /\ "" \notin Known /\ q.name \notin Known
        BY <1>3, <1>11, <3>1 DEF Known
      <4>2. Store(k, name, value) = k /\ Store(k, q.name, q.value) = k
        BY <4>1, Zenon DEF Store
      <4> QED
        BY <4>2, Zenon
    <3>2. CASE nl # 0
      <4>1. 1 \in 1..nl
        BY <1>3, <3>2
      <4>2. name = x[1][2]
        BY <1>11, <1>13, <3>2
      <4>3. x[1] = <<"name", q.name>>
        BY <2>1, <4>1, Zenon
      <4> HIDE DEF name
      <4>4. name = q.name
        BY <4>2, <4>3
      <4> QED
        BY <2>7, <4>4, Zenon
    <3> QED
      BY <3>1, <3>2, Zenon
  <2>9. ParseParam(p) = [p EXCEPT !.src = Drain(x, nl + vl), !.toread = (t - 2 * l) - nl - vl,
                                  !.clt = Store(@, name, value)]
    <3> HIDE DEF p, name, value
    <3> QED
      BY <1>17, <1>19, <2>2, <2>6, Zenon
  <2> HIDE DEF name, value
  <2>10. ParseParam(p) = r
    BY <1>14, <2>8, <2>9, Zenon
  <2> QED
    BY <2>10 DEF e
<1> QED
  BY <1>18, <1>19, Zenon

(* A parameter that goes on in the next record is refused: nothing after   *)
(* the end of the record is ever taken for a part of it.                   *)
LEMMA ParamCut ==
  ASSUME NEW q \in ParamSet, NEW u \in Seq(Units), NEW t \in Nat, NEW k,
         Meets(u, t, EncodeParam(q)), t > 0, t < Len(EncodeParam(q))
  PROVE  ParseParam([res |-> "more", src |-> u, toread |-> t, clt |-> k]).res = "fail"
<1> DEFINE p == [res |-> "more", src |-> u, toread |-> t, clt |-> k]
           e == EncodeParam(q)
           l == LenSize(q.long)
           nl == q.nlen
           vl == Len(q.value)
           n == ParseLen(p.src, p.toread)
           v == ParseLen(n.src, n.toread)
           name == IF n.n = 0 THEN "" ELSE v.src[1][2]
           value == [i \in 1..v.n |-> v.src[n.n + i][2]]
<1>1. ParseParam(p) =
        IF p.res # "more" THEN p
        ELSE IF p.toread <= 0 THEN [p EXCEPT !.res = "ok"]
        ELSE IF n.n = -1 \/ (n.n >= 0 /\ v.n = -1) THEN [p EXCEPT !.res = "fail"]
        ELSE IF n.n >= 0 /\ v.toread < (IF v.n = -2 THEN 0 ELSE n.n + v.n)
        THEN [p EXCEPT !.res = "fail"]
        ELSE IF n.n = -2 \/ v.n = -2 THEN [p EXCEPT !.res = "lost"]
        ELSE IF n.n > PnameSize - 1
        THEN [p EXCEPT !.src = Drain(v.src, n.n + v.n), !.toread = v.toread - (n.n - v.n)]
        ELSE IF ~Tagged(v.src, n.n, "name") \/ ~Tagged(Drain(v.src, n.n), v.n, "value")
        THEN [p EXCEPT !.res = "lost"]
        ELSE [p EXCEPT !.src = Drain(v.src, n.n + v.n), !.toread = v.toread - n.n - v.n,
                       !.clt = Store(@, name, value)]
  BY Zenon DEF ParseParam
<1>2. n = ParseLen(u, t)
  BY Zenon
<1> HIDE DEF n, v
<1>3. /\ nl \in Nat /\ q.long \in BOOLEAN /\ vl \in Nat /\ l \in {1, 4}
  BY ParamTypes
<1>4. /\ e \in Seq(Units) /\ Len(e) = 2 * l + nl + vl
      /\ e[1] = LenUnit(nl, q.long) /\ e[l + 1] = LenUnit(vl, q.long)
  BY EncodeParamAt
<1>5. /\ Len(u) \in Nat /\ t <= Len(u) /\ \A i \in 1..Len(e) : i <= t => u[i] = e[i]
      /\ Len(u) > t => u[t + 1][1] \notin {"len", "len4"}
      /\ t < Len(e)
  <2>1. Meets(u, t, e) /\ t < Len(e)
    OBVIOUS
  <2> HIDE DEF e
  <2> QED
    BY <2>1 DEF Meets
<1> HIDE DEF e, l, nl, vl
<1>6. u[1] = LenUnit(nl, q.long)
  <2>1. 1 \in 1..Len(e) /\ 1 <= t
    BY <1>3, <1>4
  <2> QED
    BY <1>4, <1>5, <2>1, Zenon
<1>7. p.res = "more" /\ p.toread = t
  OBVIOUS
<1>8. SUFFICES \/ n.n = -1
               \/ n.n >= 0 /\ v.n = -1
               \/ n.n >= 0 /\ v.toread < (IF v.n = -2 THEN 0 ELSE n.n + v.n)
  <2>1. ~(p.res # "more") /\ ~(p.toread <= 0)
    BY <1>7
  <2>2. ParseParam(p) = [p EXCEPT !.res = "fail"]
    <3> HIDE DEF p, name, value
    <3> QED
      BY <1>1, <1>8, <2>1, Zenon
  <2> QED
    BY <2>2
<1>9. CASE t < l
  BY <1>2, <1>3, <1>5, <1>6, <1>9, ParseLenShort DEF l
<1>10. CASE l <= t
  <2>1. n = [n |-> nl, src |-> Drain(u, l), toread |-> t - l]
    <3>1. l <= Len(u)
      BY <1>3, <1>5, <1>10
    <3> QED
      BY <1>2, <1>3, <1>6, <1>10, <3>1, ParseLenGood DEF l
  <2> DEFINE w == Drain(u, l)
  <2>2. w \in Seq(Units) /\ Len(w) = Len(u) - l /\ \A i \in 1..(Len(u) - l) : w[i] = u[l + i]
    <3>1. l \in 0..Len(u)
      BY <1>3, <1>5, <1>10
    <3> QED
      BY <3>1, DrainFacts
  <2>3. n.n = nl /\ n.src = w /\ n.toread = t - l
    BY <2>1
  <2> HIDE DEF w
  <2>4. v = ParseLen(w, t - l) /\ t - l \in Int
    BY <1>3, <2>3 DEF v
  <2>5. CASE t = l
    <3>1. Len(w) > 0 => w[1] = u[t + 1] /\ Len(u) > t
      BY <1>3, <1>5, <2>2, <2>5
    <3>2. Len(w) > 0 => w[1][1] \notin {"len", "len4"}
      BY <1>5, <3>1
    <3>3. v.n = -2 /\ v.toread = (t - l) - 1
      BY <2>2, <2>4, <3>2, ParseLenOther, Zenon
    <3> QED
      BY <1>3, <2>3, <2>5, <3>3
  <2>6. CASE t > l
    <3>1. w[1] = LenUnit(vl, q.long)
      <4>1. 1 \in 1..(Len(u) - l) /\ l + 1 \in 1..Len(e) /\ l + 1 <= t
        BY <1>3, <1>4, <1>5, <2>6
      <4> QED
        BY <1>4, <1>5, <2>2, <4>1, Zenon
    <3>2. CASE t - l < l
      <4>1. 1 <= Len(w) /\ 1 <= t - l
        BY <1>3, <1>5, <2>2, <2>6
      <4>2. v.n = -1
        BY <1>3, <2>2, <2>4, <3>1, <3>2, <4>1, ParseLenShort DEF l
      <4> QED
        BY <1>3, <2>3, <4>2
    <3>3. CASE l <= t - l
      <4>1. l <= Len(w)
        BY <1>3, <1>5, <2>2, <3>3
      <4>2. v = [n |-> vl, src |-> Drain(w, l), toread |-> (t - l) - l]
        BY <1>3, <2>2, <2>4, <3>1, <3>3, <4>1, ParseLenGood DEF l
      <4>3. v.n = vl /\ v.toread = (t - l) - l
        BY <4>2
      <4> QED
        BY <1>3, <1>4, <1>5, <2>3, <4>3
    <3> QED
      BY <1>3, <3>2, <3>3
  <2> QED
    BY <1>3, <1>10, <2>5, <2>6
<1> QED
  BY <1>3, <1>9, <1>10

-----------------------------------------------------------------------------
(* The fields of a client.                                                 *)

Fits(q, name) == q.name = name /\ Len(q.value) < Room[name]

FitsAt(ps, name) == {i \in 1..Len(ps) : Fits(ps[i], name)}

(* A set of numbers up to n that is not empty has a greatest element.      *)
LEMMA GreatestNat ==
  ASSUME NEW n \in Nat, NEW A, A \subseteq 1..n, A # {}
  PROVE  \E i \in A : \A j \in A : j <= i
<1> DEFINE T == {m \in Nat : n - m \in A}
<1>1. PICK i \in A : TRUE
  BY Zenon
<1>2. n - i \in T
  BY <1>1
<1>3. PICK m \in T : \A x \in T : m <= x
  BY <1>2, LeastNat, Zenon
<1>4. n - m \in A
  BY <1>3
<1>5. \A j \in A : n - j \in T
  OBVIOUS
<1>6. \A j \in A : j <= n - m
  BY <1>3, <1>5
<1> QED
  BY <1>4, <1>6

(* LastValue, with the set it chooses from named.                          *)
LEMMA LastValueDef ==
  ASSUME NEW ps, NEW name
  PROVE  LastValue(ps, name) =
            IF FitsAt(ps, name) = {} THEN Null
            ELSE ps[CHOOSE i \in FitsAt(ps, name) : \A j \in FitsAt(ps, name) : j <= i].value
  BY Zenon DEF LastValue, FitsAt, Fits

(* One more parameter: it counts when it has the name and fits.            *)
LEMMA LastValueAppend ==
  ASSUME NEW ps \in Seq(ParamSet), NEW q \in ParamSet, NEW name
  PROVE  LastValue(Append(ps, q), name) =
            IF Fits(q, name) THEN q.value ELSE LastValue(ps, name)
<1> DEFINE qs == Append(ps, q)
           n == Len(ps)
           A == FitsAt(ps, name)
           B == FitsAt(qs, name)
<1>1. /\ n \in Nat /\ Len(qs) = n + 1 /\ qs[n + 1] = q
      /\ \A i \in 1..n : qs[i] = ps[i]
  OBVIOUS
<1> HIDE DEF qs, n
<1>2. /\ LastValue(ps, name) = IF A = {} THEN Null ELSE ps[CHOOSE i \in A : \A j \in A : j <= i].value
      /\ LastValue(qs, name) = IF B = {} THEN Null ELSE qs[CHOOSE i \in B : \A j \in B : j <= i].value
  BY LastValueDef, Zenon
<1>3. B = IF Fits(q, name) THEN A \cup {n + 1} ELSE A
  BY <1>1 DEF FitsAt, n
<1>4. A \subseteq 1..n
  BY DEF FitsAt, n
<1> HIDE DEF A, B
<1>5. CASE Fits(q, name)
  <2>1. n + 1 \in B /\ \A j \in B : j <= n + 1
    BY <1>1, <1>3, <1>4, <1>5
  <2>2. \A i \in B : (\A j \in B : j <= i) => i = n + 1
    BY <1>1, <1>3, <1>4, <1>5
  <2>3. (CHOOSE i \in B : \A j \in B : j <= i) = n + 1
    BY <2>1, <2>2
  <2> QED
    BY <1>1, <1>2, <1>5, <2>1, <2>3 DEF qs
<1>6. CASE ~Fits(q, name)
  <2>1. A = B
    BY <1>3, <1>6
  <2>2. CASE A = {}
    BY <1>2, <1>6, <2>1, <2>2, Zenon DEF qs
  <2>3. CASE A # {}
    <3> DEFINE c == CHOOSE i \in A : \A j \in A : j <= i
    <3>1. c \in A
      <4>1. \E i \in A : \A j \in A : j <= i
        BY <1>1, <1>4, <2>3, GreatestNat, Zenon
      <4> QED
        BY <4>1, Zenon
    <3>2. ps[c] = qs[c]
      BY <1>1, <1>4, <3>1, Zenon
    <3>3. LastValue(ps, name) = ps[c].value /\ LastValue(qs, name) = qs[c].value
      BY <1>2, <2>1, <2>3, Zenon
    <3> HIDE DEF c
    <3> QED
      BY <1>6, <3>2, <3>3, Zenon DEF qs
  <2> QED
    BY <2>2, <2>3, Zenon
<1> QED
  BY <1>5, <1>6, Zenon

(* NULL is not the value of any parameter.                                 *)
LEMMA NullNoValue == Null \notin Seq(Char)
<1> SUFFICES ASSUME Null \in Seq(Char) PROVE FALSE
  OBVIOUS
<1> DEFINE v == Null
<1>1. Len(v) = 1 /\ v[1] = "NULL"
  BY DEF Null
<1>2. v \in Seq(Char)
  OBVIOUS
<1> HIDE DEF v
<1>3. "NULL" \in Char
  BY <1>1, <1>2
<1> QED
  BY <1>3 DEF Char

Str == STRING \cup {"/", "NULL", "GET", "POST", "UNKNOWN"}

ClientSet ==
    [live : BOOLEAN, method : Str, server : Seq(Str), script : Seq(Str),
     path : Seq(Str), query : Seq(Str), body : Seq(Str), bodylen : Nat,
     bodydone : BOOLEAN, started : BOOLEAN]

(* Client k2 is k with the fields of the parameters ps.                    *)
Took(k, k2, ps) ==
    /\ k2 \in ClientSet
    /\ k2.live = k.live /\ k2.body = k.body /\ k2.bodylen = k.bodylen
    /\ k2.bodydone = k.bodydone /\ k2.started = k.started
    /\ FieldsOf(k2, ps)

ScriptOk(f, v) ==
    IF v = Null THEN f = Null
    ELSE f \in {v, Append(v, "/")} /\ f # <<>> /\ f[Len(f)] = "/"

PathOk(f, v) ==
    IF v = Null THEN f = Null
    ELSE f # <<>> /\ f[1] = "/" /\ f \in {v, <<"/">> \o v}

QueryOk(f, v) == (v \notin {Null, <<>>} => f = v) /\ (v = Null => f = Null)

(* FieldsOf, field by field.                                               *)
LEMMA FieldsOfDef ==
  ASSUME NEW k, NEW ps
  PROVE  FieldsOf(k, ps) <=> /\ k.server = LastValue(ps, "SERVER_NAME")
                             /\ ScriptOk(k.script, LastValue(ps, "SCRIPT_NAME"))
                             /\ PathOk(k.path, LastValue(ps, "PATH_INFO"))
                             /\ QueryOk(k.query, LastValue(ps, "QUERY_STRING"))
  BY Zenon DEF FieldsOf, ScriptOk, PathOk, QueryOk

(* What fcgi_parse_params makes of SCRIPT_NAME: it ends with a slash.      *)
LEMMA ScriptNameOk ==
  ASSUME NEW v \in Seq(Str), v # Null
  PROVE  ScriptName(v) \in Seq(Str) /\ ScriptOk(ScriptName(v), v)
<1>1. "/" \in Str
  BY DEF Str
<1>2. CASE v = <<>> \/ v[Len(v)] # "/"
  <2> DEFINE f == Append(v, "/")
  <2>1. ScriptName(v) = f
    BY <1>2 DEF ScriptName
  <2>2. f \in Seq(Str) /\ Len(f) = Len(v) + 1 /\ f[Len(v) + 1] = "/" /\ Len(v) \in Nat
    BY <1>1, AppendAt
  <2> HIDE DEF f
  <2>3. f \in Seq(Str) /\ f # <<>> /\ f[Len(f)] = "/"
    BY <2>2
  <2> QED
    BY <2>1, <2>3 DEF ScriptOk, f
<1>3. CASE ~(v = <<>> \/ v[Len(v)] # "/")
  <2>1. ScriptName(v) = v
    BY <1>3 DEF ScriptName
  <2> QED
    BY <1>3, <2>1 DEF ScriptOk
<1> QED
  BY <1>2, <1>3

(* What fcgi_parse_params makes of PATH_INFO: it begins with a slash.      *)
LEMMA PathInfoOk ==
  ASSUME NEW v \in Seq(Str), v # Null
  PROVE  PathInfo(v) \in Seq(Str) /\ PathOk(PathInfo(v), v)
<1>1. CASE v = <<>> \/ v[1] # "/"
  <2> DEFINE a == <<"/">>
             f == a \o v
  <2>1. PathInfo(v) = f
    BY <1>1 DEF PathInfo
  <2>2. a \in Seq(Str) /\ Len(a) = 1 /\ a[1] = "/"
    <3>1. "/" \in Str
      BY DEF Str
    <3> QED
      BY <3>1
  <2>3. f \in Seq(Str) /\ f # <<>> /\ f[1] = "/"
    <3> HIDE DEF a
    <3>1. f \in Seq(Str) /\ Len(f) = 1 + Len(v) /\ f[1] = a[1] /\ Len(v) \in Nat
      BY <2>2, ConcatAt
    <3> HIDE DEF f
    <3> QED
      BY <2>2, <3>1
  <2> QED
    BY <2>1, <2>3 DEF PathOk
<1>2. CASE ~(v = <<>> \/ v[1] # "/")
  <2>1. PathInfo(v) = v
    BY <1>2 DEF PathInfo
  <2> QED
    BY <1>2, <2>1 DEF PathOk
<1> QED
  BY <1>1, <1>2

(* Storing a parameter keeps the fields those of the parameters so far.    *)
LEMMA StoreTook ==
  ASSUME NEW k, NEW k2, NEW ps \in Seq(ParamSet), NEW q \in ParamSet, Took(k, k2, ps)
  PROVE  Took(k, Store(k2, q.name, q.value), Append(ps, q))
<1> DEFINE V(n) == LastValue(ps, n)
           W(n) == LastValue(Append(ps, q), n)
           v == q.value
           k3 == Store(k2, q.name, v)
<1>1. v \in Seq(Char) /\ v \in Seq(Str) /\ v # Null
  <2>1. v \in Seq(Char)
    BY ParamTypes
  <2>2. Char \subseteq Str
    BY DEF Char, Str
  <2> QED
    BY <2>1, <2>2, SeqMono, NullNoValue
<1>2. /\ W("SERVER_NAME") = IF Fits(q, "SERVER_NAME") THEN v ELSE V("SERVER_NAME")
      /\ W("SCRIPT_NAME") = IF Fits(q, "SCRIPT_NAME") THEN v ELSE V("SCRIPT_NAME")
      /\ W("PATH_INFO") = IF Fits(q, "PATH_INFO") THEN v ELSE V("PATH_INFO")
      /\ W("QUERY_STRING") = IF Fits(q, "QUERY_STRING") THEN v ELSE V("QUERY_STRING")
  BY LastValueAppend, Zenon
<1>3. /\ k2 \in ClientSet
      /\ k2.live = k.live /\ k2.body = k.body /\ k2.bodylen = k.bodylen
      /\ k2.bodydone = k.bodydone /\ k2.started = k.started
  BY Zenon DEF Took
<1>4. /\ k2.server = V("SERVER_NAME") /\ ScriptOk(k2.script, V("SCRIPT_NAME"))
      /\ PathOk(k2.path, V("PATH_INFO")) /\ QueryOk(k2.query, V("QUERY_STRING"))
  BY FieldsOfDef, Zenon DEF Took
<1> HIDE DEF V, W
<1>5. SUFFICES /\ k3 \in ClientSet
               /\ k3.live = k2.live /\ k3.body = k2.body /\ k3.bodylen = k2.bodylen
               /\ k3.bodydone = k2.bodydone /\ k3.started = k2.started
               /\ k3.server = W("SERVER_NAME") /\ ScriptOk(k3.script, W("SCRIPT_NAME"))
               /\ PathOk(k3.path, W("PATH_INFO")) /\ QueryOk(k3.query, W("QUERY_STRING"))
  <2>1. FieldsOf(k3, Append(ps, q))
    BY <1>5, FieldsOfDef, Zenon DEF W
  <2> HIDE DEF k3
  <2>2. Took(k, k3, Append(ps, q))
    BY <1>3, <1>5, <2>1, Zenon DEF Took
  <2> QED
    BY <2>2 DEF k3
<1>6. CASE q.name \notin Known \/ Len(v) >= Room[q.name]
  <2>1. k3 = k2
    BY <1>6, Zenon DEF Store
  <2>2. q.name \in Known => Room[q.name] \in Nat
    BY FramingAssumption
  <2>3. Len(v) \in Nat
    BY <1>1
  <2>4. ~Fits(q, "SERVER_NAME") /\ ~Fits(q, "SCRIPT_NAME") /\ ~Fits(q, "PATH_INFO") /\ ~Fits(q, "QUERY_STRING")
    BY <1>6, <2>2, <2>3 DEF Fits, Known
  <2> HIDE DEF k3
  <2> QED
    BY <1>2, <1>3, <1>4, <2>1, <2>4, Zenon
<1>7. CASE q.name \in Known /\ ~(Len(v) >= Room[q.name])
  <2>1. Room[q.name] \in Nat /\ Len(v) \in Nat
    BY <1>1, <1>7, FramingAssumption
  <2>2. Fits(q, q.name) /\ \A n : n # q.name => ~Fits(q, n)
    BY <1>7, <2>1 DEF Fits
  <2>3. CASE q.name = "SERVER_NAME"
    <3>1. k3 = [k2 EXCEPT !.server = v]
      BY <1>7, <2>3 DEF Store
    <3> HIDE DEF k3
    <3>2. /\ k3 \in ClientSet /\ k3.server = v /\ k3.script = k2.script /\ k3.path = k2.path /\ k3.query = k2.query
          /\ k3.live = k2.live /\ k3.body = k2.body /\ k3.bodylen = k2.bodylen
          /\ k3.bodydone = k2.bodydone /\ k3.started = k2.started
      BY <1>1, <1>3, <3>1, Zenon DEF ClientSet
    <3>3. W("SERVER_NAME") = v /\ W("SCRIPT_NAME") = V("SCRIPT_NAME") /\ W("PATH_INFO") = V("PATH_INFO")
          /\ W("QUERY_STRING") = V("QUERY_STRING")
      BY <1>2, <2>2, <2>3
    <3> QED
      BY <1>4, <3>2, <3>3, Zenon
  <2>4. CASE q.name = "SCRIPT_NAME"
    <3> DEFINE f == ScriptName(v)
    <3>1. k3 = [k2 EXCEPT !.script = f]
      BY <1>7, <2>4 DEF Store
    <3>2. f \in Seq(Str) /\ ScriptOk(f, v)
      BY <1>1, ScriptNameOk
    <3> HIDE DEF k3, f
    <3>3. /\ k3 \in ClientSet /\ k3.server = k2.server /\ k3.script = f /\ k3.path = k2.path /\ k3.query = k2.query
          /\ k3.live = k2.live /\ k3.body = k2.body /\ k3.bodylen = k2.bodylen
          /\ k3.bodydone = k2.bodydone /\ k3.started = k2.started
      BY <1>3, <3>1, <3>2, Zenon DEF ClientSet
    <3>4. W("SERVER_NAME") = V("SERVER_NAME") /\ W("SCRIPT_NAME") = v /\ W("PATH_INFO") = V("PATH_INFO")
          /\ W("QUERY_STRING") = V("QUERY_STRING")
      BY <1>2, <2>2, <2>4
    <3> QED
      BY <1>4, <3>2, <3>3, <3>4, Zenon
  <2>5. CASE q.name = "PATH_INFO"
    <3> DEFINE f == PathInfo(v)
    <3>1. k3 = [k2 EXCEPT !.path = f]
      BY <1>7, <2>5 DEF Store
    <3>2. f \in Seq(Str) /\ PathOk(f, v)
      BY <1>1, PathInfoOk
    <3> HIDE DEF k3, f
    <3>3. /\ k3 \in ClientSet /\ k3.server = k2.server /\ k3.script = k2.script /\ k3.path = f /\ k3.query = k2.query
          /\ k3.live = k2.live /\ k3.body = k2.body /\ k3.bodylen = k2.bodylen
          /\ k3.bodydone = k2.bodydone /\ k3.started = k2.started
      BY <1>3, <3>1, <3>2, Zenon DEF ClientSet
    <3>4. W("SERVER_NAME") = V("SERVER_NAME") /\ W("SCRIPT_NAME") = V("SCRIPT_NAME") /\ W("PATH_INFO") = v
          /\ W("QUERY_STRING") = V("QUERY_STRING")
      BY <1>2, <2>2, <2>5
    <3> QED
      BY <1>4, <3>2, <3>3, <3>4, Zenon
  <2>6. CASE q.name = "QUERY_STRING"
    <3> DEFINE f == IF v = <<>> THEN k2.query ELSE v
    <3>1. k3 = [k2 EXCEPT !.query = f]
      BY <1>7, <2>6 DEF Store
    <3>2. f \in Seq(Str) /\ QueryOk(f, v)
      <4>1. k2.query \in Seq(Str)
        BY <1>3 DEF ClientSet
      <4> QED
        BY <1>1, <4>1 DEF QueryOk
    <3> HIDE DEF k3, f
    <3>3. /\ k3 \in ClientSet /\ k3.server = k2.server /\ k3.script = k2.script /\ k3.path = k2.path /\ k3.query = f
          /\ k3.live = k2.live /\ k3.body = k2.body /\ k3.bodylen = k2.bodylen
          /\ k3.bodydone = k2.bodydone /\ k3.started = k2.started
      BY <1>3, <3>1, <3>2, Zenon DEF ClientSet
    <3>4. W("SERVER_NAME") = V("SERVER_NAME") /\ W("SCRIPT_NAME") = V("SCRIPT_NAME") /\ W("PATH_INFO") = V("PATH_INFO")
          /\ W("QUERY_STRING") = v
      BY <1>2, <2>2, <2>6
    <3> QED
      BY <1>4, <3>2, <3>3, <3>4, Zenon
  <2>7. CASE q.name = "REQUEST_METHOD"
    <3> DEFINE m == Method(k2.method, v)
    <3>1. k3 = [k2 EXCEPT !.method = m]
      BY <1>7, <2>7 DEF Store
    <3>2. m \in Str
      <4>1. k2.method \in Str
        BY <1>3 DEF ClientSet
      <4>2. v \in {<<"GET">>, <<"POST">>} => v[1] \in Str
        BY DEF Str
      <4> QED
        BY <4>1, <4>2, Zenon DEF Method
    <3> HIDE DEF k3, m
    <3>3. /\ k3 \in ClientSet /\ k3.server = k2.server /\ k3.script = k2.script /\ k3.path = k2.path /\ k3.query = k2.query
          /\ k3.live = k2.live /\ k3.body = k2.body /\ k3.bodylen = k2.bodylen
          /\ k3.bodydone = k2.bodydone /\ k3.started = k2.started
      BY <1>3, <3>1, <3>2, Zenon DEF ClientSet
    <3>4. W("SERVER_NAME") = V("SERVER_NAME") /\ W("SCRIPT_NAME") = V("SCRIPT_NAME") /\ W("PATH_INFO") = V("PATH_INFO")
          /\ W("QUERY_STRING") = V("QUERY_STRING")
      BY <1>2, <2>2, <2>7
    <3> QED
      BY <1>4, <3>3, <3>4, Zenon
  <2> QED
    BY <1>7, <2>3, <2>4, <2>5, <2>6, <2>7, Zenon DEF Known
<1> QED
  BY <1>6, <1>7, Zenon

-----------------------------------------------------------------------------
(* The parameters of a record.                                             *)

Encoded(d) == [i \in 1..Len(d) |-> EncodeParam(d[i])]

LenTo(d, i) == Len(Joining(Encoded(d))[i])

(* Where each parameter is in the content of a PARAMS record: parameter i  *)
(* starts after LenTo(d, i - 1) units.                                     *)
LEMMA EncodeParamsAt ==
  ASSUME NEW d \in Seq(ParamSet)
  PROVE  /\ EncodeParams(d) \in Seq(Units) /\ Len(EncodeParams(d)) = LenTo(d, Len(d))
         /\ LenTo(d, 0) = 0
         /\ \A i \in 0..Len(d) : LenTo(d, i) \in Nat /\ i <= LenTo(d, i)
         /\ \A i \in 1..Len(d) :
               /\ EncodeParam(d[i]) \in Seq(Units)
               /\ LenTo(d, i) = LenTo(d, i - 1) + Len(EncodeParam(d[i]))
               /\ \A r \in 1..Len(EncodeParam(d[i])) :
                     EncodeParams(d)[LenTo(d, i - 1) + r] = EncodeParam(d[i])[r]
         /\ \A i, j \in 0..Len(d) : i <= j => LenTo(d, i) <= LenTo(d, j)
<1> DEFINE n == Len(d)
           es == Encoded(d)
           f == Joining(es)
<1>1. n \in Nat /\ \A i \in 1..n : d[i] \in ParamSet
  OBVIOUS
<1>2. \A i \in 1..n : EncodeParam(d[i]) \in Seq(Units) /\ Len(EncodeParam(d[i])) \in Nat /\ Len(EncodeParam(d[i])) >= 2
  <2> SUFFICES ASSUME NEW i \in 1..n
               PROVE  EncodeParam(d[i]) \in Seq(Units) /\ Len(EncodeParam(d[i])) \in Nat /\ Len(EncodeParam(d[i])) >= 2
    OBVIOUS
  <2> DEFINE q == d[i]
  <2>1. q \in ParamSet
    BY <1>1
  <2> HIDE DEF q
  <2>2. EncodeParam(q) \in Seq(Units) /\ Len(EncodeParam(q)) = 2 * LenSize(q.long) + q.nlen + Len(q.value)
    BY <2>1, EncodeParamAt
  <2>3. q.nlen \in Nat /\ Len(q.value) \in Nat /\ LenSize(q.long) \in {1, 4}
    BY <2>1, ParamTypes
  <2>4. EncodeParam(q) \in Seq(Units) /\ Len(EncodeParam(q)) \in Nat /\ Len(EncodeParam(q)) >= 2
    BY <2>2, <2>3
  <2> QED
    BY <2>4 DEF q
<1>3. es \in Seq(Seq(Units)) /\ Len(es) = n /\ \A i \in 1..n : es[i] = EncodeParam(d[i])
  <2>1. es \in [1..n -> Seq(Units)] /\ \A i \in 1..n : es[i] = EncodeParam(d[i])
    BY <1>2, Zenon DEF Encoded
  <2> HIDE DEF es, n
  <2> QED
    BY <1>1, <2>1, FunSeq, Zenon
<1> HIDE DEF n
<1>4. /\ \A k \in 0..n : f[k] \in Seq(Units)
      /\ \A k \in 0..n, i \in 1..n : i <= k =>
            /\ Len(f[i]) = Len(f[i - 1]) + Len(es[i])
            /\ Len(f[i]) <= Len(f[k])
            /\ \A r \in 1..Len(es[i]) : f[k][Len(f[i - 1]) + r] = es[i][r]
  <2> HIDE DEF es
  <2> DEFINE m == Len(es)
  <2>1. /\ \A k \in 0..m : f[k] \in Seq(Units)
        /\ \A k \in 0..m, i \in 1..m : i <= k =>
              /\ Len(f[i]) = Len(f[i - 1]) + Len(es[i])
              /\ Len(f[i]) <= Len(f[k])
              /\ \A r \in 1..Len(es[i]) : f[k][Len(f[i - 1]) + r] = es[i][r]
    BY <1>3, JoiningAt, Zenon
  <2>2. m = n
    BY <1>3
  <2> HIDE DEF m, f
  <2> QED
    BY <2>1, <2>2, Zenon
<1>5. f[0] = <<>>
  <2> HIDE DEF es
  <2> QED
    BY <1>1, <1>3, JoiningDef, Zenon
<1>6. EncodeParams(d) = f[n]
  BY <1>3, Zenon DEF EncodeParams, Joined, Encoded, n
<1>7. \A i : LenTo(d, i) = Len(f[i])
  BY Zenon DEF LenTo
<1> HIDE DEF f, es
<1>8. n \in 0..n /\ \A i \in 1..n : i <= n /\ i \in 0..n /\ i - 1 \in 0..n
  BY <1>1
<1>9. LenTo(d, 0) = 0
  <2>1. Len(<<>>) = 0
    OBVIOUS
  <2> QED
    BY <1>5, <1>7, <2>1, Zenon
<1>10. \A i \in 0..n : LenTo(d, i) \in Nat
  <2>1. \A i \in 0..n : Len(f[i]) \in Nat
    BY <1>4
  <2> QED
    BY <1>7, <2>1, Zenon
<1>11. \A i \in 1..n : /\ LenTo(d, i) = LenTo(d, i - 1) + Len(EncodeParam(d[i]))
                       /\ \A r \in 1..Len(EncodeParam(d[i])) :
                             EncodeParams(d)[LenTo(d, i - 1) + r] = EncodeParam(d[i])[r]
  <2> SUFFICES ASSUME NEW i \in 1..n
               PROVE  /\ LenTo(d, i) = LenTo(d, i - 1) + Len(EncodeParam(d[i]))
                      /\ \A r \in 1..Len(EncodeParam(d[i])) :
                             EncodeParams(d)[LenTo(d, i - 1) + r] = EncodeParam(d[i])[r]
    BY Zenon
  <2>1. /\ Len(f[i]) = Len(f[i - 1]) + Len(es[i])
        /\ \A r \in 1..Len(es[i]) : f[n][Len(f[i - 1]) + r] = es[i][r]
    BY <1>4, <1>8, Zenon
  <2>2. es[i] = EncodeParam(d[i])
    BY <1>3, Zenon
  <2> QED
    BY <1>6, <1>7, <2>1, <2>2, Zenon
<1>12. \A i, j \in 0..n : i <= j => LenTo(d, i) <= LenTo(d, j)
  <2> SUFFICES ASSUME NEW i \in 0..n, NEW j \in 0..n, i <= j
               PROVE  LenTo(d, i) <= LenTo(d, j)
    OBVIOUS
  <2>1. CASE i = 0
    BY <1>9, <1>10, <2>1
  <2>2. CASE i # 0
    <3>1. i \in 1..n
      BY <1>1, <2>2
    <3>2. Len(f[i]) <= Len(f[j])
      BY <1>4, <3>1, Zenon
    <3>3. LenTo(d, i) = Len(f[i]) /\ LenTo(d, j) = Len(f[j])
      BY <1>7, Zenon
    <3> QED
      BY <3>2, <3>3
  <2> QED
    BY <2>1, <2>2
<1>13. \A i \in 0..n : i <= LenTo(d, i)
  <2> DEFINE T == {i \in Nat : i \in 0..n => i <= LenTo(d, i)}
  <2>1. 0 \in T
    BY <1>9
  <2>2. ASSUME NEW i \in Nat, i \in T PROVE i + 1 \in T
    <3> SUFFICES ASSUME i + 1 \in 0..n PROVE i + 1 <= LenTo(d, i + 1)
      OBVIOUS
    <3>1. i + 1 \in 1..n /\ (i + 1) - 1 = i /\ i \in 0..n /\ i <= LenTo(d, i)
      BY <1>1, <2>2
    <3>2. LenTo(d, i + 1) = LenTo(d, i) + Len(EncodeParam(d[i + 1]))
      BY <1>11, <3>1
    <3>3. Len(EncodeParam(d[i + 1])) \in Nat /\ Len(EncodeParam(d[i + 1])) >= 2
      BY <1>2, <3>1
    <3>4. LenTo(d, i) \in Nat
      BY <1>10, <3>1
    <3> QED
      BY <3>1, <3>2, <3>3, <3>4
  <2>3. Nat \subseteq T
    <3> HIDE DEF T
    <3> QED
      BY <2>1, <2>2, AllNat
  <2> QED
    BY <1>1, <2>3
<1>14. EncodeParams(d) \in Seq(Units) /\ Len(EncodeParams(d)) = LenTo(d, n)
  BY <1>4, <1>6, <1>7, <1>8, Zenon
<1> QED
  BY <1>2, <1>9, <1>10, <1>11, <1>12, <1>13, <1>14, Zenon DEF n

LoopOf(p, N, z) == p = [i \in 0..N |-> IF i = 0 THEN z ELSE ParseParam(p[i - 1])]

(* The iteration of fcgi_parse_params exists, as a function.               *)
LEMMA ParsingExists ==
  ASSUME NEW N \in Nat, NEW z
  PROVE  \E p : LoopOf(p, N, z)
<1> DEFINE E(k) == \E p : p = [i \in 0..k |-> IF i = 0 THEN z ELSE ParseParam(p[i - 1])]
           T == {k \in Nat : E(k)}
<1>1. E(0)
  <2> DEFINE p == [i \in 0..0 |-> z]
  <2>1. p = [i \in 0..0 |-> IF i = 0 THEN z ELSE ParseParam(p[i - 1])]
    OBVIOUS
  <2> QED
    BY <2>1, Zenon
<1>2. ASSUME NEW k \in Nat, E(k) PROVE E(k + 1)
  <2>1. PICK p : p = [i \in 0..k |-> IF i = 0 THEN z ELSE ParseParam(p[i - 1])]
    BY <1>2, Zenon
  <2> DEFINE g == [i \in 0..(k + 1) |-> IF i = k + 1 THEN ParseParam(p[k]) ELSE p[i]]
  <2>2. g = [i \in 0..(k + 1) |-> IF i = 0 THEN z ELSE ParseParam(g[i - 1])]
    BY <2>1
  <2> QED
    BY <2>2, Zenon
<1> HIDE DEF E
<1>3. 0 \in T /\ \A n \in Nat : n \in T => n + 1 \in T
  BY <1>1, <1>2
<1> HIDE DEF T
<1>4. Nat \subseteq T
  BY <1>3, AllNat
<1>5. E(N)
  BY <1>4 DEF T
<1> QED
  BY <1>5, Zenon DEF E, LoopOf

(* What it is: each round is one of the loop's.                            *)
LEMMA ParsingDef ==
  ASSUME NEW s \in Seq(Units), NEW t \in Nat, NEW k
  PROVE  /\ Parsing(s, t, k)[0] = [res |-> "more", src |-> s, toread |-> t, clt |-> k]
         /\ \A i \in 1..(t + 1) : Parsing(s, t, k)[i] = ParseParam(Parsing(s, t, k)[i - 1])
<1> DEFINE z == [res |-> "more", src |-> s, toread |-> t, clt |-> k]
           N == t + 1
           p == Parsing(s, t, k)
<1>1. N \in Nat
  OBVIOUS
<1>2. \E x : LoopOf(x, N, z)
  <2> HIDE DEF z, N
  <2> QED
    BY <1>1, ParsingExists, Zenon
<1>3. p = CHOOSE x : LoopOf(x, N, z)
  BY Zenon DEF Parsing, LoopOf
<1> HIDE DEF z, N, p
<1>4. p = [i \in 0..N |-> IF i = 0 THEN z ELSE ParseParam(p[i - 1])]
  BY <1>2, <1>3, Zenon DEF LoopOf
<1>5. p[0] = z /\ \A i \in 1..N : p[i] = ParseParam(p[i - 1])
  BY <1>1, <1>4
<1> QED
  BY <1>5, Zenon DEF z, N, p

(* The input s starts with the L units of a record with the parameters d,  *)
(* none of which is too large, and no length follows on them.              *)
Holds(d, over, s, L) ==
    /\ L = LenTo(d, Len(d)) - over
    /\ over # 0 => d # <<>> /\ over < Len(EncodeParam(d[Len(d)]))
    /\ \A i \in 1..Len(d) : d[i].nlen >= PnameSize => d[i].value = <<>>
    /\ L <= Len(s)
    /\ \A i \in 1..L : s[i] = EncodeParams(d)[i]
    /\ Len(s) > L => s[L + 1][1] \notin {"len", "len4"}

(* After i times round the loop i parameters have been taken; or it ended. *)
More(p, i, d, s, L, k, ps) ==
    /\ i <= Len(d) /\ LenTo(d, i) <= L
    /\ p = [res |-> "more", src |-> Drain(s, LenTo(d, i)), toread |-> L - LenTo(d, i), clt |-> p.clt]
    /\ Took(k, p.clt, ps \o SubSeq(d, 1, i))

Done(p, d, s, L, k, ps) ==
    /\ p.res = "ok"
    /\ p.src = Drain(s, L)
    /\ Took(k, p.clt, ps \o d)

(* One more of the parameters of a record.                                 *)
LEMMA SubSeqNext ==
  ASSUME NEW S, NEW a \in Seq(S), NEW d \in Seq(S), NEW i \in Nat, i < Len(d)
  PROVE  /\ a \o SubSeq(d, 1, i) \in Seq(S)
         /\ a \o SubSeq(d, 1, i + 1) = Append(a \o SubSeq(d, 1, i), d[i + 1])
         /\ d[i + 1] \in S
<1> DEFINE b == SubSeq(d, 1, i)
           c == SubSeq(d, 1, i + 1)
           x == d[i + 1]
<1>1. Len(d) \in Nat /\ x \in S
  OBVIOUS
<1>2. b \in Seq(S) /\ Len(b) = i /\ \A j \in 1..i : b[j] = d[j]
  BY <1>1
<1>3. c \in Seq(S) /\ Len(c) = i + 1 /\ \A j \in 1..(i + 1) : c[j] = d[j]
  BY <1>1
<1>4. c = Append(b, x)
  <2> DEFINE e == Append(b, x)
  <2> HIDE DEF b, c
  <2>1. e \in Seq(S) /\ Len(e) = i + 1 /\ e[i + 1] = x /\ \A j \in 1..i : e[j] = b[j]
    BY <1>1, <1>2, AppendAt
  <2> HIDE DEF e
  <2>2. \A j \in 1..(i + 1) : c[j] = e[j]
    <3>1. c[i + 1] = x
      BY <1>3 DEF x
    <3>2. ASSUME NEW j \in 1..i PROVE c[j] = e[j]
      <4>1. j \in 1..(i + 1)
        OBVIOUS
      <4> QED
        BY <1>2, <1>3, <2>1, <4>1, Zenon
    <3>3. \A j \in 1..(i + 1) : j \in 1..i \/ j = i + 1
      OBVIOUS
    <3> QED
      BY <2>1, <3>1, <3>2, <3>3, Zenon
  <2>3. c = e
    BY <1>3, <2>1, <2>2, SameSeq
  <2> QED
    BY <2>3 DEF e
<1> HIDE DEF b, c, x
<1>5. a \o b \in Seq(S)
  BY <1>2, ConcatType
<1>6. a \o Append(b, x) = Append(a \o b, x)
  BY <1>1, <1>2, ConcatAppend
<1> QED
  BY <1>1, <1>4, <1>5, <1>6 DEF b, c, x

(* One round of the loop of fcgi_parse_params: it reads the next parameter *)
(* whole and stores it, or it is done with the record, or it fails on a    *)
(* parameter that goes on in the next record.                              *)
LEMMA ParseStep ==
  ASSUME NEW d \in Seq(ParamSet), NEW over \in Nat, NEW s \in Seq(Units), NEW L \in Nat,
         NEW k, NEW ps \in Seq(ParamSet), Holds(d, over, s, L),
         NEW i \in Nat, NEW p, More(p, i, d, s, L, k, ps)
  PROVE  \/ More(ParseParam(p), i + 1, d, s, L, k, ps)
         \/ Done(ParseParam(p), d, s, L, k, ps)
         \/ over # 0 /\ ParseParam(p).res = "fail"
<1> DEFINE n == Len(d)
           x == LenTo(d, i)
           u == Drain(s, x)
           t == L - x
           c == p.clt
<1>1. /\ n \in Nat /\ i \in 0..n /\ x <= L
      /\ p = [res |-> "more", src |-> u, toread |-> t, clt |-> c]
      /\ Took(k, c, ps \o SubSeq(d, 1, i))
  BY DEF More
<1>2. /\ L = LenTo(d, n) - over /\ L <= Len(s) /\ Len(s) \in Nat
      /\ over # 0 => d # <<>> /\ over < Len(EncodeParam(d[n]))
      /\ \A j \in 1..n : d[j].nlen >= PnameSize => d[j].value = <<>>
      /\ \A j \in 1..L : s[j] = EncodeParams(d)[j]
      /\ Len(s) > L => s[L + 1][1] \notin {"len", "len4"}
  BY DEF Holds
<1>3. /\ \A j \in 0..n : LenTo(d, j) \in Nat
      /\ \A j \in 1..n : /\ EncodeParam(d[j]) \in Seq(Units)
                         /\ LenTo(d, j) = LenTo(d, j - 1) + Len(EncodeParam(d[j]))
                         /\ \A r \in 1..Len(EncodeParam(d[j])) :
                               EncodeParams(d)[LenTo(d, j - 1) + r] = EncodeParam(d[j])[r]
      /\ \A j, h \in 0..n : j <= h => LenTo(d, j) <= LenTo(d, h)
  BY EncodeParamsAt
<1>4. x \in Nat /\ LenTo(d, n) \in Nat
  <2>1. i \in 0..n /\ n \in 0..n
    BY <1>1
  <2> QED
    BY <1>3, <2>1, Zenon
<1> HIDE DEF n
<1>5. CASE x = L
  <2>1. i = n
    <3> SUFFICES ASSUME i < n PROVE FALSE
      BY <1>1
    <3>1. n \in 1..n /\ n - 1 \in 0..n /\ i <= n - 1
      BY <1>1
    <3>2. x <= LenTo(d, n - 1) /\ LenTo(d, n - 1) \in Nat
      BY <1>1, <1>3, <3>1
    <3>3. LenTo(d, n) = LenTo(d, n - 1) + Len(EncodeParam(d[n]))
      BY <1>3, <3>1, Zenon
    <3>4. Len(EncodeParam(d[n])) \in Nat /\ Len(EncodeParam(d[n])) > 0
      <4>1. d[n] \in ParamSet
        BY <3>1 DEF n
      <4> DEFINE q == d[n]
      <4> HIDE DEF q
      <4>2. Len(EncodeParam(q)) = 2 * LenSize(q.long) + q.nlen + Len(q.value)
        BY <4>1, EncodeParamAt DEF q
      <4>3. q.nlen \in Nat /\ Len(q.value) \in Nat /\ LenSize(q.long) \in {1, 4}
        BY <4>1, ParamTypes DEF q
      <4>4. Len(EncodeParam(q)) \in Nat /\ Len(EncodeParam(q)) > 0
        BY <4>2, <4>3, SMTT(20)
      <4> QED
        BY <4>4 DEF q
    <3> HIDE DEF x
    <3> QED
      BY <1>2, <1>4, <1>5, <3>2, <3>3, <3>4
  <2>2. SubSeq(d, 1, i) = d
    BY <2>1 DEF n
  <2>3. p.res = "more" /\ p.toread <= 0
    BY <1>1, <1>4, <1>5
  <2>4. ParseParam(p) = [p EXCEPT !.res = "ok"]
    BY <2>3, Zenon DEF ParseParam
  <2>5. ParseParam(p) = [res |-> "ok", src |-> u, toread |-> t, clt |-> c]
    BY <1>1, <2>4
  <2>6. Done(ParseParam(p), d, s, L, k, ps)
    <3>1. ParseParam(p).res = "ok" /\ ParseParam(p).src = u /\ ParseParam(p).clt = c
      BY <2>5
    <3> QED
      BY <1>1, <1>5, <2>2, <3>1, Zenon DEF Done
  <2> QED
    BY <2>6
<1>6. CASE x # L
  <2>1. i < n /\ t \in Nat /\ t > 0
    <3>1. i = n => x >= L
      BY <1>2, <1>4
    <3> QED
      BY <1>1, <1>4, <1>6, <3>1
  <2> DEFINE q == d[i + 1]
             e == EncodeParam(q)
  <2>2. i + 1 \in 1..n /\ (i + 1) - 1 = i
    BY <1>1, <2>1
  <2>3. q \in ParamSet
    BY <2>2 DEF n
  <2>4. /\ e \in Seq(Units) /\ LenTo(d, i + 1) = x + Len(e)
        /\ \A r \in 1..Len(e) : EncodeParams(d)[x + r] = e[r]
    BY <1>3, <2>2, Zenon
  <2>5. u \in Seq(Units) /\ Len(u) = Len(s) - x /\ \A j \in 1..(Len(s) - x) : u[j] = s[x + j]
    <3>1. x \in 0..Len(s)
      BY <1>1, <1>2, <1>4
    <3> QED
      BY <3>1, DrainFacts, Zenon
  <2>6. q.nlen >= PnameSize => q.value = <<>>
    BY <1>2, <2>2, Zenon
  <2> HIDE DEF x, u, e
  <2>7. Meets(u, t, e)
    <3>1. t <= Len(u)
      BY <1>1, <1>2, <1>4, <2>5
    <3>2. ASSUME NEW j \in 1..Len(e), j <= t PROVE u[j] = e[j]
      <4>1. j \in 1..(Len(s) - x) /\ x + j \in 1..L
        <5>1. Len(e) \in Nat
          BY <2>4
        <5>2. j \in Nat /\ j >= 1 /\ j <= t
          BY <3>2, <5>1
        <5> QED
          BY <1>1, <1>2, <1>4, <5>2, SMTT(20)
      <4> QED
        BY <1>2, <2>4, <2>5, <4>1, Zenon
    <3>3. ASSUME Len(u) > t PROVE u[t + 1][1] \notin {"len", "len4"}
      <4>1. t + 1 \in 1..(Len(s) - x) /\ x + (t + 1) = L + 1 /\ Len(s) > L
        BY <1>1, <1>2, <1>4, <2>5, <3>3, SMTT(20)
      <4>2. u[t + 1] = s[L + 1]
        BY <2>5, <4>1
      <4> QED
        BY <1>2, <4>1, <4>2, Zenon
    <3> QED
      BY <3>1, <3>2, <3>3 DEF Meets
  <2> HIDE DEF t
  <2>8. CASE t < Len(e)
    <3>1. ParseParam([res |-> "more", src |-> u, toread |-> t, clt |-> c]).res = "fail"
      BY <2>1, <2>3, <2>5, <2>7, <2>8, ParamCut DEF e
    <3>2. over # 0
      <4>1. LenTo(d, i + 1) <= LenTo(d, n)
        <5>1. i + 1 \in 0..n /\ n \in 0..n
          BY <1>1, <2>2
        <5> QED
          BY <1>1, <1>3, <2>2, <5>1
      <4>2. Len(e) \in Nat
        BY <2>4
      <4>3. x + Len(e) <= LenTo(d, n)
        BY <2>4, <4>1, Zenon
      <4> QED
        BY <1>2, <1>4, <2>8, <4>2, <4>3 DEF t
    <3> QED
      BY <1>1, <3>1, <3>2, Zenon
  <2>9. CASE Len(e) <= t
    <3> DEFINE c2 == Store(c, q.name, q.value)
               p2 == ParseParam(p)
               y == x + Len(e)
    <3>1. ParseParam([res |-> "more", src |-> u, toread |-> t, clt |-> c])
            = [res |-> "more", src |-> Drain(u, Len(e)), toread |-> t - Len(e), clt |-> c2]
      BY <2>1, <2>3, <2>5, <2>6, <2>7, <2>9, ParamWhole DEF e
    <3>2. Drain(u, Len(e)) = Drain(s, y) /\ t - Len(e) = L - y /\ y <= L
      <4>1. Len(e) \in Nat /\ x + Len(e) <= Len(s) /\ y <= L
        BY <1>1, <1>2, <1>4, <2>4, <2>9 DEF t
      <4>2. Drain(u, Len(e)) = Drain(s, y)
        BY <1>4, <4>1, DrainTwice DEF u
      <4> QED
        BY <1>4, <2>4, <4>1, <4>2 DEF t
    <3>3. p2 = [res |-> "more", src |-> Drain(s, y), toread |-> L - y, clt |-> c2]
      BY <1>1, <3>1, <3>2, Zenon
    <3>4. LenTo(d, i + 1) = y
      BY <2>4
    <3> HIDE DEF p2, y, c2
    <3>5. p2.clt = c2
      BY <3>3
    <3>6. Took(k, c2, ps \o SubSeq(d, 1, i + 1))
      <4>1. /\ ps \o SubSeq(d, 1, i) \in Seq(ParamSet)
            /\ ps \o SubSeq(d, 1, i + 1) = Append(ps \o SubSeq(d, 1, i), q)
        BY <2>1, SubSeqNext, SMTT(20) DEF n
      <4>2. Took(k, c2, Append(ps \o SubSeq(d, 1, i), q))
        BY <1>1, <2>3, <4>1, StoreTook, Zenon DEF c2
      <4> QED
        BY <4>1, <4>2, Zenon
    <3>7. i + 1 <= Len(d)
      BY <2>2 DEF n
    <3>8. More(p2, i + 1, d, s, L, k, ps)
      BY <3>2, <3>3, <3>4, <3>5, <3>6, <3>7, Zenon DEF More
    <3> QED
      BY <3>8 DEF p2
  <2>10. Len(e) \in Nat
    BY <2>4
  <2> QED
    BY <2>1, <2>8, <2>9, <2>10
<1> QED
  BY <1>5, <1>6, Zenon

(* fcgi_parse_params fails on a record whose last parameter is not all     *)
(* there, and else takes its content from the input, no more and no less.  *)
LEMMA ParseParamsFacts ==
  ASSUME NEW d \in Seq(ParamSet), NEW over \in Nat, NEW s \in Seq(Units), NEW L \in Nat,
         NEW k, NEW ps \in Seq(ParamSet), Holds(d, over, s, L), Took(k, k, ps)
  PROVE  \/ over # 0 /\ ParseParams(s, L, k).res = "fail"
         \/ Done(ParseParams(s, L, k), d, s, L, k, ps)
<1> DEFINE p == Parsing(s, L, k)
           N == L + 1
           G(i) == \/ More(p[i], i, d, s, L, k, ps)
                   \/ Done(p[i], d, s, L, k, ps)
                   \/ over # 0 /\ p[i].res = "fail"
           T == {i \in Nat : i \in 0..N => G(i)}
<1>1. N \in Nat
  OBVIOUS
<1>2. /\ p[0] = [res |-> "more", src |-> s, toread |-> L, clt |-> k]
      /\ \A i \in 1..N : p[i] = ParseParam(p[i - 1])
  BY ParsingDef
<1>3. /\ LenTo(d, 0) = 0 /\ \A i \in 0..Len(d) : LenTo(d, i) \in Nat /\ i <= LenTo(d, i)
  BY EncodeParamsAt
<1> HIDE DEF p
<1>4. 0 \in T
  <2>1. p[0].clt = k
    BY <1>2
  <2>2. Drain(s, 0) = s /\ L - 0 = L /\ 0 <= L /\ 0 <= Len(d)
    BY DEF Drain
  <2>3. ps \o SubSeq(d, 1, 0) = ps
    OBVIOUS
  <2>4. More(p[0], 0, d, s, L, k, ps)
    BY <1>2, <1>3, <2>1, <2>2, <2>3, Zenon DEF More
  <2> HIDE DEF N
  <2> QED
    BY <2>4
<1>5. ASSUME NEW i \in Nat, i \in T PROVE i + 1 \in T
  <2> SUFFICES ASSUME i + 1 \in 0..N PROVE G(i + 1)
    <3> HIDE DEF G
    <3> QED
      OBVIOUS
  <2>1. i + 1 \in 1..N /\ (i + 1) - 1 = i /\ i \in 0..N
    BY <1>1
  <2>2. G(i)
    BY <1>5, <2>1, Zenon
  <2>3. p[i + 1] = ParseParam(p[i])
    BY <1>2, <2>1, Zenon
  <2>4. CASE More(p[i], i, d, s, L, k, ps)
    <3> DEFINE z == p[i]
    <3>1. More(z, i, d, s, L, k, ps)
      BY <2>4
    <3> HIDE DEF z
    <3>2. \/ More(ParseParam(z), i + 1, d, s, L, k, ps)
          \/ Done(ParseParam(z), d, s, L, k, ps)
          \/ over # 0 /\ ParseParam(z).res = "fail"
      BY <3>1, ParseStep
    <3> QED
      BY <2>3, <3>2, Zenon DEF z
  <2>5. CASE p[i].res # "more"
    <3>1. ParseParam(p[i]) = p[i]
      BY <2>5, Zenon DEF ParseParam
    <3>2. ~More(p[i], i, d, s, L, k, ps)
      <4>1. More(p[i], i, d, s, L, k, ps) => p[i].res = "more"
        BY DEF More
      <4> QED
        BY <2>5, <4>1, Zenon
    <3> QED
      BY <2>2, <2>3, <3>1, <3>2, Zenon
  <2>6. Done(p[i], d, s, L, k, ps) => p[i].res = "ok"
    BY Zenon DEF Done
  <2>7. More(p[i], i, d, s, L, k, ps) \/ p[i].res # "more"
    <3> HIDE DEF p
    <3>1. "ok" # "more" /\ "fail" # "more"
      OBVIOUS
    <3> QED
      BY <2>2, <2>6, <3>1, Zenon
  <2> QED
    BY <2>4, <2>5, <2>7, Zenon
<1>6. Nat \subseteq T
  <2> HIDE DEF T
  <2> QED
    BY <1>4, <1>5, AllNat, SMTT(20)
<1>7. G(N)
  <2>1. N \in T
    <3> HIDE DEF T, N
    <3> QED
      BY <1>1, <1>6
  <2>2. N \in 0..N
    BY <1>1
  <2> HIDE DEF G, N
  <2> QED
    BY <2>1, <2>2
<1>8. ~More(p[N], N, d, s, L, k, ps)
  <2> SUFFICES ASSUME More(p[N], N, d, s, L, k, ps) PROVE FALSE
    OBVIOUS
  <2>1. N <= Len(d) /\ LenTo(d, N) <= L
    BY Zenon DEF More
  <2>2. N \in 0..Len(d)
    BY <1>1, <2>1
  <2>3. N <= LenTo(d, N) /\ LenTo(d, N) \in Nat
    BY <1>3, <2>2
  <2> QED
    BY <2>1, <2>3
<1>9. ParseParams(s, L, k) = p[N]
  BY Zenon DEF ParseParams, p
<1> QED
  BY <1>7, <1>8, <1>9, Zenon

-----------------------------------------------------------------------------
(* The units of a stream.                                                  *)

(* The fields of a record; only a PARAMS record can be cut short, in its   *)
(* last parameter.                                                         *)
LEMMA RecordTypes ==
  ASSUME NEW rec \in RecordSet
  PROVE  /\ rec.type \in {"BEGIN", "PARAMS", "STDIN", "ABORT", "OTHER"}
         /\ rec.pad \in Nat /\ rec.over \in Nat
         /\ rec.type = "PARAMS" =>
               /\ rec.data \in Seq(ParamSet)
               /\ rec.over # 0 => /\ rec.data # <<>>
                                  /\ rec.over < Len(EncodeParam(rec.data[Len(rec.data)]))
         /\ rec.type # "PARAMS" => rec.data \in Seq(Char)
<1> DEFINE A == [type : {"BEGIN", "STDIN", "ABORT", "OTHER"}, data : Seq(Char), pad : Nat, over : {0}]
           B == [type : {"PARAMS"}, data : Seq(ParamSet), pad : Nat, over : Nat]
<1>1. \/ rec \in A
      \/ rec \in B /\ (rec.over # 0 => /\ rec.data # <<>>
                                       /\ rec.over < Len(EncodeParam(rec.data[Len(rec.data)])))
  BY Zenon DEF RecordSet
<1>2. CASE rec \in A
  BY <1>2
<1>3. CASE rec \in B
  <2>1. rec.type = "PARAMS" /\ rec.data \in Seq(ParamSet) /\ rec.pad \in Nat /\ rec.over \in Nat
    BY <1>3
  <2>2. rec \notin A
    BY <2>1
  <2> QED
    BY <1>1, <2>1, <2>2, Zenon
<1> QED
  BY <1>1, <1>2, <1>3, Zenon

(* The content of a record, unit by unit.                                  *)
LEMMA ContentFacts ==
  ASSUME NEW rec \in RecordSet
  PROVE  /\ Content(rec) \in Seq(Units) /\ Len(Content(rec)) \in Nat
         /\ rec.type = "PARAMS" =>
               /\ Len(Content(rec)) = LenTo(rec.data, Len(rec.data)) - rec.over
               /\ \A i \in 1..Len(Content(rec)) : Content(rec)[i] = EncodeParams(rec.data)[i]
         /\ rec.type # "PARAMS" =>
               /\ Len(Content(rec)) = Len(rec.data)
               /\ \A i \in 1..Len(rec.data) : Content(rec)[i] = <<"data", rec.data[i]>>
<1>1. CASE rec.type = "PARAMS"
  <2> DEFINE d == rec.data
             o == rec.over
             x == EncodeParams(d)
             n == Len(d)
             c == SubSeq(x, 1, Len(x) - o)
  <2>1. /\ d \in Seq(ParamSet) /\ o \in Nat
        /\ o # 0 => d # <<>> /\ o < Len(EncodeParam(d[n]))
    BY <1>1, RecordTypes
  <2>2. Content(rec) = c
    BY <1>1, Zenon DEF Content
  <2> HIDE DEF d, o
  <2>3. /\ x \in Seq(Units) /\ Len(x) = LenTo(d, n)
        /\ \A i \in 0..n : LenTo(d, i) \in Nat
        /\ \A i \in 1..n : EncodeParam(d[i]) \in Seq(Units) /\ LenTo(d, i) = LenTo(d, i - 1) + Len(EncodeParam(d[i]))
    BY <2>1, EncodeParamsAt
  <2>4. n \in Nat /\ LenTo(d, n) \in Nat
    BY <2>1, <2>3
  <2> HIDE DEF x
  <2>5. o <= Len(x)
    <3>1. CASE o = 0
      BY <2>3, <2>4, <3>1
    <3>2. CASE o # 0
      <4>1. n \in 1..n /\ n - 1 \in 0..n
        BY <2>1, <2>4, <3>2
      <4>2. LenTo(d, n) = LenTo(d, n - 1) + Len(EncodeParam(d[n])) /\ LenTo(d, n - 1) \in Nat
            /\ Len(EncodeParam(d[n])) \in Nat
        BY <2>3, <4>1
      <4> HIDE DEF n
      <4> QED
        BY <2>1, <2>3, <3>2, <4>2
    <3> QED
      BY <3>1, <3>2
  <2>6. c \in Seq(Units) /\ Len(c) = Len(x) - o /\ Len(c) \in Nat /\ \A i \in 1..(Len(x) - o) : c[i] = x[i]
    BY <2>1, <2>3, <2>4, <2>5
  <2> HIDE DEF c
  <2>7. \A i \in 1..Len(c) : c[i] = x[i]
    BY <2>6
  <2> QED
    BY <1>1, <2>2, <2>3, <2>6, <2>7 DEF d, o, x
<1>2. CASE rec.type # "PARAMS"
  <2> DEFINE d == rec.data
             n == Len(d)
             c == [i \in 1..n |-> <<"data", d[i]>>]
             u(i) == <<"data", d[i]>>
  <2>1. d \in Seq(Char)
    BY <1>2, RecordTypes
  <2>2. Content(rec) = c
    BY <1>2, Zenon DEF Content
  <2>3. n \in Nat /\ \A i \in 1..n : d[i] \in Char
    BY <2>1
  <2>4. \A i \in 1..n : u(i) \in Units
    <3>1. \A i \in 1..n : d[i] \in STRING
      BY <2>3 DEF Char
    <3> QED
      BY <3>1, UnitsIn, Zenon
  <2> HIDE DEF n
  <2>5. c \in [1..n -> Units] /\ \A i \in 1..n : c[i] = u(i)
    BY <2>4, Zenon
  <2> HIDE DEF c
  <2>6. c \in Seq(Units) /\ Len(c) = n
    BY <2>3, <2>5, FunSeq, Zenon
  <2> QED
    BY <1>2, <2>2, <2>3, <2>5, <2>6 DEF n
<1> QED
  BY <1>1, <1>2, Zenon

(* The padding of a record.                                                *)
LEMMA PaddingFacts ==
  ASSUME NEW rec \in RecordSet
  PROVE  /\ Padding(rec) \in Seq(Units) /\ Len(Padding(rec)) = rec.pad /\ rec.pad \in Nat
         /\ \A i \in 1..rec.pad : Padding(rec)[i] = <<"pad">>
<1> DEFINE n == rec.pad
           u == <<"pad">>
           c == [i \in 1..n |-> u]
<1>1. n \in Nat
  BY RecordTypes
<1>2. u \in Units
  BY UnitsIn
<1> HIDE DEF u, n
<1>3. c \in [1..n -> Units] /\ \A i \in 1..n : c[i] = u
  BY <1>2, Zenon
<1> HIDE DEF c
<1>4. c \in Seq(Units) /\ Len(c) = n
  BY <1>1, <1>3, FunSeq, Zenon
<1>5. Padding(rec) = c
  BY Zenon DEF Padding, c, n, u
<1> QED
  BY <1>1, <1>3, <1>4, <1>5, Zenon DEF n, u

Header(j) == [i \in 1..HdrSize |-> <<"header", j, i>>]

(* The header of a record.                                                 *)
LEMMA HeaderFacts ==
  ASSUME NEW j \in Nat
  PROVE  /\ Header(j) \in Seq(Units) /\ Len(Header(j)) = HdrSize /\ HdrSize \in Nat \ {0}
         /\ \A i \in 1..HdrSize : Header(j)[i] = <<"header", j, i>>
<1> DEFINE c == Header(j)
           u(i) == <<"header", j, i>>
<1>1. HdrSize \in Nat \ {0}
  BY FramingAssumption
<1>2. \A i \in 1..HdrSize : u(i) \in Units
  BY <1>1, UnitsIn
<1>3. c \in [1..HdrSize -> Units] /\ \A i \in 1..HdrSize : c[i] = u(i)
  BY <1>2, Zenon DEF Header
<1> HIDE DEF c
<1>4. HdrSize \in Nat
  BY <1>1
<1>5. c \in Seq(Units) /\ Len(c) = HdrSize
  BY <1>3, <1>4, FunSeq, Zenon
<1> QED
  BY <1>1, <1>3, <1>5, Zenon DEF c

WireOf(w, s, m) ==
    w = [j \in m..(Len(s) + 1) |-> IF j = Len(s) + 1 THEN <<>> ELSE Encode(s[j], j) \o w[j + 1]]

(* The recursive function behind Wire exists.                              *)
LEMMA WireExists ==
  ASSUME NEW s, Len(s) \in Nat
  PROVE  \E w : WireOf(w, s, 1)
<1> DEFINE Cat(x, y) == x \o y
           N == Len(s) + 1
           E(m) == \E w : w = [j \in (N - m)..N |-> IF j = N THEN <<>> ELSE Cat(Encode(s[j], j), w[j + 1])]
           T == {m \in Nat : E(m)}
<1>1. N \in Nat /\ N - 1 \in Nat /\ N - (N - 1) = 1
  OBVIOUS
<1> HIDE DEF Cat, N
<1>2. E(0)
  <2> DEFINE w == [j \in (N - 0)..N |-> <<>>]
  <2>1. w = [j \in (N - 0)..N |-> IF j = N THEN <<>> ELSE Cat(Encode(s[j], j), w[j + 1])]
    BY <1>1
  <2> QED
    BY <2>1, Zenon
<1>3. ASSUME NEW m \in Nat, E(m) PROVE E(m + 1)
  <2>1. PICK w : w = [j \in (N - m)..N |-> IF j = N THEN <<>> ELSE Cat(Encode(s[j], j), w[j + 1])]
    BY <1>3, Zenon
  <2> DEFINE k == N - (m + 1)
             v == [j \in k..N |-> IF j = k THEN Cat(Encode(s[k], k), w[k + 1]) ELSE w[j]]
  <2>2. k \in Int /\ k + 1 = N - m /\ k # N
    BY <1>1
  <2> HIDE DEF k
  <2>3. v = [j \in k..N |-> IF j = N THEN <<>> ELSE Cat(Encode(s[j], j), v[j + 1])]
    BY <1>1, <2>1, <2>2
  <2> QED
    BY <2>3, Zenon DEF k
<1> HIDE DEF E
<1>4. 0 \in T /\ \A n \in Nat : n \in T => n + 1 \in T
  BY <1>2, <1>3
<1> HIDE DEF T
<1>5. Nat \subseteq T
  BY <1>4, AllNat
<1>6. E(N - 1)
  BY <1>1, <1>5 DEF T
<1>7. \E w : w = [j \in 1..N |-> IF j = N THEN <<>> ELSE Cat(Encode(s[j], j), w[j + 1])]
  BY <1>1, <1>6 DEF E
<1> QED
  BY <1>7, Zenon DEF WireOf, N, Cat

(* What it is: a record, then the ones after it.                           *)
LEMMA WireDef ==
  ASSUME NEW s \in Seq(RecordSet)
  PROVE  /\ Wire(s, Len(s) + 1) = <<>>
         /\ \A j \in 1..Len(s) : Wire(s, j) = Encode(s[j], j) \o Wire(s, j + 1)
<1> DEFINE Cat(x, y) == x \o y
           n == Len(s)
           w == WireFrom(s)
<1>1. n \in Nat
  OBVIOUS
<1>2. \E x : WireOf(x, s, 1)
  BY <1>1, WireExists, Zenon
<1>3. w = CHOOSE x : WireOf(x, s, 1)
  BY Zenon DEF WireFrom, WireOf
<1> HIDE DEF w
<1>4. WireOf(w, s, 1)
  BY <1>2, <1>3, Zenon
<1>5. w = [j \in 1..(n + 1) |-> IF j = n + 1 THEN <<>> ELSE Cat(Encode(s[j], j), w[j + 1])]
  BY <1>4, Zenon DEF WireOf
<1> HIDE DEF n, Cat
<1>6. w[n + 1] = <<>> /\ \A j \in 1..n : w[j] = Cat(Encode(s[j], j), w[j + 1])
  BY <1>1, <1>5
<1> QED
  BY <1>6, Zenon DEF Wire, w, n, Cat

(* A record on the wire: header, content, padding.                         *)
LEMMA EncodeType ==
  ASSUME NEW rec \in RecordSet, NEW j \in Nat
  PROVE  Encode(rec, j) = (Header(j) \o Content(rec)) \o Padding(rec) /\ Encode(rec, j) \in Seq(Units)
<1>1. Encode(rec, j) = (Header(j) \o Content(rec)) \o Padding(rec)
  BY Zenon DEF Encode, Header
<1> DEFINE a == Header(j)
           b == Content(rec)
           c == Padding(rec)
<1>2. a \in Seq(Units) /\ b \in Seq(Units) /\ c \in Seq(Units)
  BY HeaderFacts, ContentFacts, PaddingFacts
<1> HIDE DEF a, b, c
<1>3. (a \o b) \o c \in Seq(Units)
  BY <1>2
<1> QED
  BY <1>1, <1>3, Zenon DEF a, b, c

(* What is on the wire is made of units.                                   *)
LEMMA WireType ==
  ASSUME NEW s \in Seq(RecordSet)
  PROVE  \A j \in 1..(Len(s) + 1) : Wire(s, j) \in Seq(Units)
<1> DEFINE n == Len(s)
           T == {m \in Nat : \A j \in 1..(n + 1) : n + 1 - j = m => Wire(s, j) \in Seq(Units)}
<1>1. n \in Nat /\ \A j \in 1..n : s[j] \in RecordSet
  OBVIOUS
<1>2. /\ Wire(s, n + 1) = <<>>
      /\ \A j \in 1..n : Wire(s, j) = Encode(s[j], j) \o Wire(s, j + 1)
  BY WireDef
<1> HIDE DEF n
<1>3. 0 \in T
  <2>1. Wire(s, n + 1) \in Seq(Units)
    <3>1. <<>> \in Seq(Units)
      OBVIOUS
    <3> QED
      BY <1>2, <3>1, Zenon
  <2>2. \A j \in 1..(n + 1) : n + 1 - j = 0 => j = n + 1
    BY <1>1
  <2> QED
    BY <2>1, <2>2
<1>4. ASSUME NEW m \in Nat, m \in T PROVE m + 1 \in T
  <2> SUFFICES ASSUME NEW j \in 1..(n + 1), n + 1 - j = m + 1 PROVE Wire(s, j) \in Seq(Units)
    OBVIOUS
  <2>1. j \in 1..n /\ j + 1 \in 1..(n + 1) /\ n + 1 - (j + 1) = m /\ j \in Nat
    BY <1>1
  <2>2. Wire(s, j + 1) \in Seq(Units)
    BY <1>4, <2>1
  <2>3. Encode(s[j], j) \in Seq(Units)
    BY <1>1, <2>1, EncodeType
  <2>4. Wire(s, j) = Encode(s[j], j) \o Wire(s, j + 1)
    BY <1>2, <2>1
  <2> QED
    BY <2>2, <2>3, <2>4, ConcatType
<1>5. Nat \subseteq T
  <2> HIDE DEF T
  <2> QED
    BY <1>3, <1>4, AllNat
<1>6. ASSUME NEW j \in 1..(n + 1) PROVE Wire(s, j) \in Seq(Units)
  <2>1. n + 1 - j \in Nat
    BY <1>1
  <2>2. n + 1 - j \in T
    <3> HIDE DEF T
    <3> QED
      BY <1>5, <2>1
  <2> QED
    BY <2>2
<1> QED
  BY <1>6 DEF n

(* What follows on the content of the j-th record.                         *)
After(s, j) == Padding(s[j]) \o Wire(s, j + 1)

(* What follows the content of a record is padding or a header. A parser   *)
(* that goes past the end of a record does not find a length there.        *)
LEMMA AfterFacts ==
  ASSUME NEW s \in Seq(RecordSet), NEW j \in 1..Len(s)
  PROVE  /\ s[j] \in RecordSet /\ Content(s[j]) \in Seq(Units) /\ Header(j) \in Seq(Units)
         /\ Wire(s, j + 1) \in Seq(Units)
         /\ After(s, j) \in Seq(Units)
         /\ Wire(s, j) = Header(j) \o (Content(s[j]) \o After(s, j))
         /\ Len(After(s, j)) > 0 => After(s, j)[1][1] \in {"pad", "header"}
<1> DEFINE rec == s[j]
           a == Header(j)
           b == Content(rec)
           c == Padding(rec)
           w == Wire(s, j + 1)
           x == c \o w
<1>1. rec \in RecordSet /\ j \in Nat /\ j + 1 \in 1..(Len(s) + 1) /\ Len(s) \in Nat
  OBVIOUS
<1>2. a \in Seq(Units) /\ b \in Seq(Units) /\ c \in Seq(Units)
  BY <1>1, HeaderFacts, ContentFacts, PaddingFacts
<1>3. w \in Seq(Units)
  BY <1>1, WireType
<1>4. Wire(s, j) = ((a \o b) \o c) \o w
  BY <1>1, WireDef, EncodeType, Zenon
<1>5. After(s, j) = x
  BY DEF After
<1>6. c # <<>> => Len(c) > 0 /\ c[1] = <<"pad">>
  BY <1>1, PaddingFacts, SMTT(20)
<1>7. CASE c # <<>>
  <2>1. Len(c) > 0 /\ c[1][1] = "pad"
    BY <1>6, <1>7
  <2> HIDE DEF c, w
  <2>2. x[1] = c[1]
    BY <1>2, <1>3, <2>1
  <2>3. x[1][1] = "pad"
    BY <2>1, <2>2
  <2> HIDE DEF x, a, b, rec
  <2>4. x \in Seq(Units)
    BY <1>2, <1>3, ConcatType DEF x
  <2>5. ((a \o b) \o c) \o w = a \o (b \o x)
    <3>1. FourJoined(a, b, c, w)
      BY <1>2, <1>3, ConcatFour, Zenon
    <3> QED
      BY <3>1, Zenon DEF FourJoined, x
  <2> QED
    BY <1>1, <1>2, <1>3, <1>4, <1>5, <2>3, <2>4, <2>5, Zenon DEF rec, a, b, w
<1>8. CASE c = <<>>
  <2>1. w = <<>> \/ (w # <<>> /\ w[1][1] = "header")
    <3>1. CASE j = Len(s)
      BY <3>1, WireDef
    <3>2. CASE j < Len(s)
      <4> DEFINE r2 == s[j + 1]
                 a2 == Header(j + 1)
                 b2 == Content(r2)
                 c2 == Padding(r2)
                 w2 == Wire(s, (j + 1) + 1)
      <4>1. j + 1 \in 1..Len(s) /\ r2 \in RecordSet /\ j + 1 \in Nat /\ (j + 1) + 1 \in 1..(Len(s) + 1)
        BY <3>2
      <4>2. a2 \in Seq(Units) /\ b2 \in Seq(Units) /\ c2 \in Seq(Units) /\ w2 \in Seq(Units)
        BY <4>1, HeaderFacts, ContentFacts, PaddingFacts, WireType
      <4>3. w = ((a2 \o b2) \o c2) \o w2
        BY <4>1, WireDef, EncodeType, Zenon
      <4>4. Len(a2) > 0 /\ a2[1] = <<"header", j + 1, 1>>
        BY <4>1, HeaderFacts
      <4>5. a2[1][1] = "header"
        BY <4>4
      <4> HIDE DEF a2, b2, c2, w2, w
      <4>6. w[1] = a2[1] /\ w # <<>>
        BY <4>2, <4>3, <4>4
      <4> QED
        BY <4>5, <4>6
    <3> QED
      BY <3>1, <3>2
  <2>2. x = w
    BY <1>3, <1>8
  <2> HIDE DEF x, a, b, rec, c, w
  <2>3. x \in Seq(Units)
    BY <1>3, <2>2
  <2>4. ((a \o b) \o c) \o w = a \o (b \o x)
    <3>1. FourJoined(a, b, c, w)
      BY <1>2, <1>3, ConcatFour, Zenon
    <3> QED
      BY <3>1, Zenon DEF FourJoined, x
  <2>5. Len(x) > 0 => x[1][1] = "header"
    BY <2>1, <2>2, <2>3
  <2> QED
    BY <1>1, <1>2, <1>3, <1>4, <1>5, <2>3, <2>4, <2>5, Zenon DEF rec, a, b, w
<1> QED
  BY <1>7, <1>8, SMTT(20)

(* Input of which s has arrived and t has not, and that is c and then x.   *)
Joins(S, s, t, c, x) ==
    /\ s \in Seq(S) /\ t \in Seq(S) /\ c \in Seq(S) /\ x \in Seq(S)
    /\ s \o t = c \o x /\ Len(c) <= Len(s)

Spliced(S, s, t, c, x) ==
    /\ \A i \in 1..Len(c) : s[i] = c[i]
    /\ Drain(s, Len(c)) \in Seq(S) /\ Drain(s, Len(c)) \o t = x
    /\ Len(Drain(s, Len(c))) = Len(s) - Len(c)
    /\ Len(s) > Len(c) => Len(x) > 0 /\ s[Len(c) + 1] = x[1]

(* What is in the buffer and what is still on the wire, after the content  *)
(* of a record has been drained from the buffer.                           *)
LEMMA Splice ==
  ASSUME NEW S, NEW s, NEW t, NEW c, NEW x, Joins(S, s, t, c, x)
  PROVE  Spliced(S, s, t, c, x)
<1> SUFFICES ASSUME s \in Seq(S), t \in Seq(S), c \in Seq(S), x \in Seq(S),
                    Len(c) <= Len(s), Joins(S, s, t, c, x)
             PROVE  /\ \A i \in 1..Len(c) : s[i] = c[i]
                    /\ Drain(s, Len(c)) \in Seq(S) /\ Drain(s, Len(c)) \o t = x
                    /\ Len(Drain(s, Len(c))) = Len(s) - Len(c)
                    /\ Len(s) > Len(c) => Len(x) > 0 /\ s[Len(c) + 1] = x[1]
  BY Zenon DEF Joins, Spliced
<1> DEFINE n == Len(c)
           u == Drain(s, n)
           z == s \o t
           y == u \o t
<1>1. n \in Nat /\ Len(s) \in Nat /\ Len(t) \in Nat /\ Len(x) \in Nat /\ n \in 0..Len(s)
  OBVIOUS
<1>2. u \in Seq(S) /\ Len(u) = Len(s) - n /\ \A i \in 1..(Len(s) - n) : u[i] = s[n + i]
  BY <1>1, DrainFacts
<1>3. /\ z \in Seq(S) /\ Len(z) = Len(s) + Len(t)
      /\ \A i \in 1..Len(s) : z[i] = s[i]
      /\ \A i \in 1..Len(t) : z[Len(s) + i] = t[i]
  BY ConcatAt
<1>4. /\ z \in Seq(S) /\ Len(z) = n + Len(x)
      /\ \A i \in 1..n : z[i] = c[i]
      /\ \A i \in 1..Len(x) : z[n + i] = x[i]
  <2> DEFINE v == c \o x
  <2>1. /\ v \in Seq(S) /\ Len(v) = n + Len(x)
        /\ \A i \in 1..n : v[i] = c[i]
        /\ \A i \in 1..Len(x) : v[n + i] = x[i]
    BY ConcatAt
  <2>2. z = v
    BY Zenon DEF Joins
  <2> HIDE DEF z, v, n
  <2> QED
    BY <2>1, <2>2, Zenon
<1> HIDE DEF n, u, z
<1>5. /\ y \in Seq(S) /\ Len(y) = Len(u) + Len(t)
      /\ \A i \in 1..Len(u) : y[i] = u[i]
      /\ \A i \in 1..Len(t) : y[Len(u) + i] = t[i]
  <2>1. u \in Seq(S)
    BY <1>2
  <2> QED
    BY <2>1, ConcatAt
<1> HIDE DEF y
<1>6. Len(y) = Len(x) /\ Len(u) = Len(s) - n /\ Len(s) + Len(t) = n + Len(x)
  <2>1. Len(z) = Len(s) + Len(t) /\ Len(z) = n + Len(x) /\ Len(y) = Len(u) + Len(t) /\ Len(u) = Len(s) - n
    BY <1>2, <1>3, <1>4, <1>5, Zenon
  <2> QED
    BY <1>1, <2>1
<1>7. ASSUME NEW i \in 1..Len(x) PROVE y[i] = x[i]
  <2>1. CASE i <= Len(u)
    <3>1. i \in 1..Len(u) /\ i \in 1..(Len(s) - n) /\ n + i \in 1..Len(s)
      BY <1>1, <1>2, <2>1
    <3> QED
      BY <1>2, <1>3, <1>4, <1>5, <3>1, Zenon
  <2>2. CASE i > Len(u)
    <3> DEFINE h == i - Len(u)
    <3>1. h \in 1..Len(t) /\ Len(u) + h = i /\ Len(s) + h = n + i
      BY <1>1, <1>6, <2>2
    <3> HIDE DEF h
    <3> QED
      BY <1>3, <1>4, <1>5, <3>1, Zenon
  <2> QED
    BY <1>1, <1>2, <2>1, <2>2
<1>8. y = x
  BY <1>5, <1>6, <1>7, SameSeq, Zenon
<1>9. \A i \in 1..n : s[i] = c[i]
  <2>1. \A i \in 1..n : i \in 1..Len(s)
    BY <1>1
  <2> QED
    BY <1>3, <1>4, <2>1
<1>10. ASSUME Len(s) > n PROVE Len(x) > 0 /\ s[n + 1] = x[1]
  <2>1. n + 1 \in 1..Len(s) /\ 1 \in 1..Len(x)
    BY <1>1, <1>3, <1>4, <1>10
  <2> QED
    BY <1>1, <1>3, <1>4, <2>1
<1> QED
  BY <1>2, <1>8, <1>9, <1>10 DEF n, u, y

-----------------------------------------------------------------------------
(* fcgi_parse_form.                                                        *)

Stops == {"&", "\r"}

IsFirst(r, s, C) ==
    \/ r = 0 /\ \A i \in 1..Len(s) : s[i] \notin C
    \/ r \in 1..Len(s) /\ s[r] \in C /\ \A i \in 1..Len(s) : i < r => s[i] \notin C

LeastOf(A) == IF A = {} THEN 0 ELSE CHOOSE i \in A : \A j \in A : i <= j

(* The least number of a set, 0 when it is empty.                          *)
LEMMA LeastIs ==
  ASSUME NEW A, A \subseteq Nat
  PROVE  \/ LeastOf(A) = 0 /\ A = {}
         \/ LeastOf(A) \in A /\ \A j \in A : LeastOf(A) <= j
<1>1. CASE A = {}
  BY <1>1, Zenon DEF LeastOf
<1>2. CASE A # {}
  <2>1. \E i \in A : \A j \in A : i <= j
    BY <1>2, LeastNat, Zenon
  <2>2. LeastOf(A) = CHOOSE i \in A : \A j \in A : i <= j
    BY <1>2, Zenon DEF LeastOf
  <2> QED
    BY <2>1, <2>2, Zenon
<1> QED
  BY <1>1, <1>2

(* FirstOf finds the first, or 0.                                          *)
LEMMA FirstOfIs ==
  ASSUME NEW S, NEW s \in Seq(S), NEW C
  PROVE  IsFirst(FirstOf(s, C), s, C)
<1> DEFINE A == {i \in 1..Len(s) : s[i] \in C}
           c == FirstOf(s, C)
<1>1. c = LeastOf(A)
  BY Zenon DEF FirstOf, LeastOf
<1>2. A \subseteq Nat
  OBVIOUS
<1>3. \/ c = 0 /\ A = {}
      \/ c \in A /\ \A j \in A : c <= j
  <2> HIDE DEF A, c
  <2> QED
    BY <1>1, <1>2, LeastIs, Zenon
<1> HIDE DEF c
<1>4. CASE c = 0 /\ A = {}
  BY <1>4 DEF IsFirst, c
<1>5. CASE c \in A /\ \A j \in A : c <= j
  <2>1. c \in 1..Len(s) /\ s[c] \in C
    BY <1>5
  <2>2. \A i \in 1..Len(s) : i < c => s[i] \notin C
    BY <1>5, <2>1
  <2> QED
    BY <2>1, <2>2 DEF IsFirst, c
<1> QED
  BY <1>3, <1>4, <1>5, Zenon

(* There is one first.                                                     *)
LEMMA FirstOnly ==
  ASSUME NEW S, NEW s \in Seq(S), NEW C, NEW a, NEW b, IsFirst(a, s, C), IsFirst(b, s, C)
  PROVE  a = b
  BY DEF IsFirst

(* The first of some characters in two sequences.                          *)
LEMMA FirstOfConcat ==
  ASSUME NEW S, NEW s \in Seq(S), NEW t \in Seq(S), NEW C
  PROVE  FirstOf(s \o t, C) = IF FirstOf(s, C) # 0 THEN FirstOf(s, C)
                              ELSE IF FirstOf(t, C) = 0 THEN 0 ELSE Len(s) + FirstOf(t, C)
<1> DEFINE u == s \o t
           a == FirstOf(s, C)
           b == FirstOf(t, C)
           c == FirstOf(u, C)
<1>1. IsFirst(a, s, C) /\ IsFirst(b, t, C)
  BY FirstOfIs
<1>2. /\ u \in Seq(S) /\ Len(u) = Len(s) + Len(t) /\ Len(s) \in Nat /\ Len(t) \in Nat
      /\ \A i \in 1..Len(s) : u[i] = s[i]
      /\ \A i \in 1..Len(t) : u[Len(s) + i] = t[i]
  BY ConcatAt
<1> HIDE DEF u
<1>3. IsFirst(c, u, C)
  <2>1. u \in Seq(S)
    BY <1>2, Zenon
  <2> QED
    BY <2>1, FirstOfIs, Zenon
<1> HIDE DEF a, b, c
<1>4. ASSUME NEW i \in 1..Len(u)
      PROVE  i \in 1..Len(s) \/ (i - Len(s) \in 1..Len(t) /\ u[i] = t[i - Len(s)] /\ i > Len(s))
  <2>1. Len(u) = Len(s) + Len(t) /\ Len(s) \in Nat /\ Len(t) \in Nat
    BY <1>2, Zenon
  <2>2. CASE i <= Len(s)
    BY <2>1, <2>2
  <2>3. CASE i > Len(s)
    <3>1. i - Len(s) \in 1..Len(t) /\ Len(s) + (i - Len(s)) = i
      BY <2>1, <2>3
    <3>2. u[Len(s) + (i - Len(s))] = t[i - Len(s)]
      BY <1>2, <3>1, Zenon
    <3>3. u[i] = t[i - Len(s)]
      BY <3>1, <3>2, Zenon
    <3> QED
      BY <2>3, <3>1, <3>3, Zenon
  <2> QED
    BY <2>1, <2>2, <2>3
<1>5. CASE a # 0
  <2>1. a \in 1..Len(s) /\ s[a] \in C /\ \A i \in 1..Len(s) : i < a => s[i] \notin C
    BY <1>1, <1>5 DEF IsFirst
  <2>2. IsFirst(a, u, C)
    BY <1>2, <2>1 DEF IsFirst
  <2>3. c = a
    BY <1>2, <1>3, <2>2, FirstOnly
  <2> QED
    BY <1>5, <2>3 DEF a, b, c, u
<1>6. CASE a = 0 /\ b = 0
  <2>1. (\A i \in 1..Len(s) : s[i] \notin C) /\ \A i \in 1..Len(t) : t[i] \notin C
    BY <1>1, <1>6 DEF IsFirst
  <2>2. \A i \in 1..Len(u) : u[i] \notin C
    BY <1>2, <1>4, <2>1, Zenon
  <2>3. IsFirst(0, u, C)
    BY <2>2 DEF IsFirst
  <2>4. c = 0
    BY <1>2, <1>3, <2>3, FirstOnly
  <2> QED
    BY <1>6, <2>4 DEF a, b, c, u
<1>7. CASE a = 0 /\ b # 0
  <2>1. \A i \in 1..Len(s) : s[i] \notin C
    BY <1>1, <1>7 DEF IsFirst
  <2>2. b \in 1..Len(t) /\ t[b] \in C /\ \A i \in 1..Len(t) : i < b => t[i] \notin C
    BY <1>1, <1>7 DEF IsFirst
  <2> DEFINE r == Len(s) + b
  <2>3. r \in 1..Len(u) /\ u[r] = t[b]
    BY <1>2, <2>2
  <2>4. ASSUME NEW i \in 1..Len(u), i < r PROVE u[i] \notin C
    <3>1. CASE i \in 1..Len(s)
      BY <1>2, <2>1, <3>1
    <3>2. CASE i - Len(s) \in 1..Len(t) /\ u[i] = t[i - Len(s)] /\ i > Len(s)
      <4>1. i - Len(s) < b
        BY <1>2, <2>2, <2>4
      <4> QED
        BY <2>2, <3>2, <4>1
    <3> QED
      BY <1>4, <3>1, <3>2
  <2> HIDE DEF r
  <2>5. IsFirst(r, u, C)
    BY <2>2, <2>3, <2>4 DEF IsFirst
  <2>6. c = r
    BY <1>2, <1>3, <2>5, FirstOnly
  <2> QED
    BY <1>7, <2>6 DEF a, b, c, u, r
<1> QED
  BY <1>5, <1>6, <1>7

QAt(s, i) == s[i] = "q" /\ s[i + 1] = "="

IsFindQ(r, s) ==
    \/ r = 0 /\ \A i \in 1..(Len(s) - 1) : ~QAt(s, i)
    \/ r \in 1..(Len(s) - 1) /\ QAt(s, r) /\ \A i \in 1..(Len(s) - 1) : i < r => ~QAt(s, i)

(* FindQ finds the first q=, or 0.                                         *)
LEMMA FindQIs ==
  ASSUME NEW S, NEW s \in Seq(S)
  PROVE  IsFindQ(FindQ(s), s)
<1> DEFINE A == {i \in 1..(Len(s) - 1) : QAt(s, i)}
           c == FindQ(s)
<1>1. c = LeastOf(A)
  BY Zenon DEF FindQ, LeastOf, QAt
<1>2. A \subseteq Nat
  OBVIOUS
<1>3. \/ c = 0 /\ A = {}
      \/ c \in A /\ \A j \in A : c <= j
  <2> HIDE DEF A, c
  <2> QED
    BY <1>1, <1>2, LeastIs, Zenon
<1> HIDE DEF c
<1>4. CASE c = 0 /\ A = {}
  BY <1>4 DEF IsFindQ, c
<1>5. CASE c \in A /\ \A j \in A : c <= j
  <2>1. c \in 1..(Len(s) - 1) /\ QAt(s, c)
    BY <1>5
  <2>2. \A i \in 1..(Len(s) - 1) : i < c => ~QAt(s, i)
    BY <1>5, <2>1
  <2> QED
    BY <2>1, <2>2 DEF IsFindQ, c
<1> QED
  BY <1>3, <1>4, <1>5, Zenon

(* There is one first q=.                                                  *)
LEMMA FindQOnly ==
  ASSUME NEW S, NEW s \in Seq(S), NEW a, NEW b, IsFindQ(a, s), IsFindQ(b, s)
  PROVE  a = b
  BY DEF IsFindQ

(* Where the marker is in two sequences, unless the first ends inside it.  *)
LEMMA FindQConcat ==
  ASSUME NEW S, NEW s \in Seq(S), NEW t \in Seq(S), s = <<>> \/ s[Len(s)] # "q"
  PROVE  FindQ(s \o t) = IF FindQ(s) # 0 THEN FindQ(s)
                         ELSE IF FindQ(t) = 0 THEN 0 ELSE Len(s) + FindQ(t)
<1> DEFINE u == s \o t
           a == FindQ(s)
           b == FindQ(t)
           c == FindQ(u)
           n == Len(s)
           m == Len(t)
<1>1. IsFindQ(a, s) /\ IsFindQ(b, t)
  BY FindQIs
<1>2. /\ u \in Seq(S) /\ Len(u) = n + m /\ n \in Nat /\ m \in Nat
      /\ \A i \in 1..n : u[i] = s[i]
      /\ \A i \in 1..m : u[n + i] = t[i]
  BY ConcatAt
<1>3. n = 0 \/ s[n] # "q"
  OBVIOUS
<1> HIDE DEF u
<1>4. IsFindQ(c, u)
  BY <1>2, FindQIs
<1> HIDE DEF a, b, c, n, m
<1>5. \A i \in 1..(n - 1) : QAt(u, i) <=> QAt(s, i)
  <2> SUFFICES ASSUME NEW i \in 1..(n - 1) PROVE QAt(u, i) <=> QAt(s, i)
    OBVIOUS
  <2>1. i \in 1..n /\ i + 1 \in 1..n
    BY <1>2
  <2> QED
    BY <1>2, <2>1 DEF QAt
<1>6. \A i \in 1..(m - 1) : QAt(u, n + i) <=> QAt(t, i)
  <2> SUFFICES ASSUME NEW i \in 1..(m - 1) PROVE QAt(u, n + i) <=> QAt(t, i)
    OBVIOUS
  <2>1. i \in 1..m /\ i + 1 \in 1..m /\ (n + i) + 1 = n + (i + 1)
    BY <1>2
  <2> QED
    BY <1>2, <2>1 DEF QAt
<1>7. n > 0 => ~QAt(u, n)
  <2>1. n > 0 => u[n] = s[n]
    BY <1>2
  <2> QED
    BY <1>2, <1>3, <2>1 DEF QAt
<1>8. \A i \in 1..(Len(u) - 1) : i \in 1..(n - 1) \/ (i = n /\ n > 0) \/ (i - n \in 1..(m - 1) /\ n + (i - n) = i /\ i > n)
  BY <1>2
<1>9. CASE a # 0
  <2>1. a \in 1..(n - 1) /\ QAt(s, a) /\ \A i \in 1..(n - 1) : i < a => ~QAt(s, i)
    BY <1>1, <1>9 DEF IsFindQ, n
  <2>2. a \in 1..(Len(u) - 1) /\ QAt(u, a)
    BY <1>2, <1>5, <2>1
  <2>3. ASSUME NEW i \in 1..(Len(u) - 1), i < a PROVE ~QAt(u, i)
    <3>1. i \in 1..(n - 1)
      BY <1>2, <2>1, <2>3
    <3> QED
      BY <1>5, <2>1, <2>3, <3>1
  <2>4. IsFindQ(a, u)
    BY <2>2, <2>3 DEF IsFindQ
  <2>5. c = a
    BY <1>2, <1>4, <2>4, FindQOnly
  <2> QED
    BY <1>9, <2>5 DEF a, b, c, u
<1>10. CASE a = 0
  <2>1. \A i \in 1..(n - 1) : ~QAt(s, i)
    BY <1>1, <1>10 DEF IsFindQ, n
  <2>2. CASE b = 0
    <3>1. \A i \in 1..(m - 1) : ~QAt(t, i)
      BY <1>1, <2>2 DEF IsFindQ, m
    <3>2. ASSUME NEW i \in 1..(Len(u) - 1) PROVE ~QAt(u, i)
      <4>1. CASE i \in 1..(n - 1)
        BY <1>5, <2>1, <4>1
      <4>2. CASE i = n /\ n > 0
        BY <1>7, <4>2
      <4>3. CASE i - n \in 1..(m - 1) /\ n + (i - n) = i /\ i > n
        <5> DEFINE h == i - n
        <5>1. h \in 1..(m - 1) /\ n + h = i
          BY <4>3
        <5> HIDE DEF h
        <5> QED
          BY <1>6, <3>1, <5>1
      <4> QED
        BY <1>8, <4>1, <4>2, <4>3, Zenon
    <3>3. IsFindQ(0, u)
      BY <3>2 DEF IsFindQ
    <3>4. c = 0
      BY <1>2, <1>4, <3>3, FindQOnly
    <3> QED
      BY <1>10, <2>2, <3>4 DEF a, b, c, u
  <2>3. CASE b # 0
    <3>1. b \in 1..(m - 1) /\ QAt(t, b) /\ \A i \in 1..(m - 1) : i < b => ~QAt(t, i)
      BY <1>1, <2>3 DEF IsFindQ, m
    <3> DEFINE r == n + b
    <3>2. r \in 1..(Len(u) - 1)
      BY <1>2, <3>1
    <3>3. QAt(u, r)
      BY <1>6, <3>1
    <3>4. ASSUME NEW i \in 1..(Len(u) - 1), i < r PROVE ~QAt(u, i)
      <4>1. CASE i \in 1..(n - 1)
        BY <1>5, <2>1, <4>1
      <4>2. CASE i = n /\ n > 0
        BY <1>7, <4>2
      <4>3. CASE i - n \in 1..(m - 1) /\ n + (i - n) = i /\ i > n
        <5> DEFINE h == i - n
        <5>1. h \in 1..(m - 1) /\ n + h = i /\ h < b
          BY <1>2, <3>1, <3>4, <4>3
        <5> HIDE DEF h
        <5> QED
          BY <1>6, <3>1, <5>1
      <4> QED
        BY <1>8, <4>1, <4>2, <4>3, Zenon
    <3> HIDE DEF r
    <3>5. IsFindQ(r, u)
      BY <3>2, <3>3, <3>4 DEF IsFindQ
    <3>6. c = r
      BY <1>2, <1>4, <3>5, FindQOnly
    <3> QED
      BY <1>10, <2>3, <3>6 DEF a, b, c, u, r, n
  <2> QED
    BY <2>2, <2>3
<1> QED
  BY <1>9, <1>10

(* The part of s before the first "&" or "\r".                             *)
UpTo(s) == IF FirstOf(s, Stops) = 0 THEN s ELSE SubSeq(s, 1, FirstOf(s, Stops) - 1)

(* What follows the first "q=".                                            *)
QTail(F) == Drain(F, FindQ(F) + 1)

(* FieldQ, in terms of what follows the first q=.                          *)
LEMMA FieldQDef ==
  ASSUME NEW F
  PROVE  FieldQ(F) = IF FindQ(F) = 0 THEN Null ELSE UpTo(QTail(F))
  BY Zenon DEF FieldQ, UpTo, QTail, Stops

(* Draining the first of two sequences leaves the second.                  *)
LEMMA DrainPrefix ==
  ASSUME NEW S, NEW a \in Seq(S), NEW b \in Seq(S)
  PROVE  Drain(a \o b, Len(a)) = b
<1> DEFINE s == a \o b
           n == Len(a)
           d == Drain(s, n)
<1>1. /\ s \in Seq(S) /\ Len(s) = n + Len(b) /\ n \in Nat /\ Len(b) \in Nat
      /\ \A i \in 1..Len(b) : s[n + i] = b[i]
  BY ConcatAt
<1> HIDE DEF s, n
<1>2. n \in 0..Len(s)
  BY <1>1
<1>3. s \in Seq(S)
  BY <1>1
<1>4. d \in Seq(S) /\ Len(d) = Len(s) - n /\ \A i \in 1..Len(d) : d[i] = s[n + i]
  BY <1>2, <1>3, DrainFacts, Zenon
<1> HIDE DEF d
<1>5. Len(d) = Len(b)
  BY <1>1, <1>4
<1>6. \A i \in 1..Len(b) : d[i] = b[i]
  BY <1>1, <1>4, <1>5, Zenon
<1>7. d \in Seq(S)
  BY <1>4
<1>8. d = b
  BY <1>5, <1>6, <1>7, SameSeq
<1> QED
  BY <1>8 DEF d, s, n

(* Draining less than the first of two sequences.                          *)
LEMMA DrainConcat ==
  ASSUME NEW S, NEW a \in Seq(S), NEW b \in Seq(S), NEW n \in 0..Len(a)
  PROVE  Drain(a \o b, n) = Drain(a, n) \o b
<1> DEFINE x == SubSeq(a, 1, n)
           y == SubSeq(a, n + 1, Len(a))
<1>1. x \in Seq(S) /\ Len(x) = n /\ y \in Seq(S) /\ x \o y = a
  BY SplitSeq, Zenon
<1>2. Drain(a, n) = y
  BY DEF Drain
<1> HIDE DEF x, y
<1>3. a \o b = x \o (y \o b)
  <2>1. x \in Seq(S) /\ y \in Seq(S)
    BY <1>1
  <2>2. (x \o y) \o b = x \o (y \o b)
    BY <2>1, ConcatAssoc
  <2> QED
    BY <1>1, <2>2, Zenon
<1>4. y \o b \in Seq(S)
  BY <1>1
<1>5. Drain(x \o (y \o b), Len(x)) = y \o b
  <2> DEFINE z == y \o b
  <2>1. z \in Seq(S) /\ x \in Seq(S)
    BY <1>1, <1>4
  <2> HIDE DEF z
  <2>2. Drain(x \o z, Len(x)) = z
    BY <2>1, DrainPrefix
  <2> QED
    BY <2>2 DEF z
<1> QED
  BY <1>1, <1>2, <1>3, <1>5, Zenon

(* Draining more than the first of two sequences.                          *)
LEMMA DrainPast ==
  ASSUME NEW S, NEW a \in Seq(S), NEW b \in Seq(S), NEW n \in 0..Len(b)
  PROVE  Drain(a \o b, Len(a) + n) = Drain(b, n)
<1> DEFINE c == a \o b
<1>1. c \in Seq(S) /\ Len(c) = Len(a) + Len(b) /\ Len(a) \in Nat /\ Len(b) \in Nat
  BY ConcatAt
<1>2. Drain(c, Len(a)) = b
  BY DrainPrefix
<1> HIDE DEF c
<1>3. n \in Nat /\ Len(a) + n <= Len(c)
  BY <1>1
<1>4. Drain(Drain(c, Len(a)), n) = Drain(c, Len(a) + n)
  BY <1>1, <1>3, DrainTwice
<1> QED
  BY <1>2, <1>4, Zenon DEF c

(* What is before a stop is a sequence too.                                *)
LEMMA UpToType ==
  ASSUME NEW S, NEW s \in Seq(S)
  PROVE  UpTo(s) \in Seq(S) /\ Len(UpTo(s)) \in Nat
<1> DEFINE r == FirstOf(s, Stops)
<1>1. IsFirst(r, s, Stops)
  BY FirstOfIs
<1> HIDE DEF r
<1>2. r = 0 \/ r \in 1..Len(s)
  BY <1>1 DEF IsFirst
<1>3. UpTo(s) = IF r = 0 THEN s ELSE SubSeq(s, 1, r - 1)
  BY Zenon DEF UpTo, r
<1>4. UpTo(s) \in Seq(S)
  BY <1>2, <1>3
<1> QED
  BY <1>4

(* What is before the first stop of two sequences: fcgi_parse_form stops   *)
(* in the record where it finds one, and appends the record otherwise.     *)
LEMMA UpToConcat ==
  ASSUME NEW S, NEW s \in Seq(S), NEW t \in Seq(S)
  PROVE  UpTo(s \o t) = IF FirstOf(s, Stops) # 0 THEN UpTo(s) ELSE s \o UpTo(t)
<1> DEFINE u == s \o t
           a == FirstOf(s, Stops)
           b == FirstOf(t, Stops)
           c == FirstOf(u, Stops)
<1>1. c = IF a # 0 THEN a ELSE IF b = 0 THEN 0 ELSE Len(s) + b
  BY FirstOfConcat
<1>2. IsFirst(a, s, Stops) /\ IsFirst(b, t, Stops)
  BY FirstOfIs
<1>3. /\ UpTo(u) = IF c = 0 THEN u ELSE SubSeq(u, 1, c - 1)
      /\ UpTo(s) = IF a = 0 THEN s ELSE SubSeq(s, 1, a - 1)
      /\ UpTo(t) = IF b = 0 THEN t ELSE SubSeq(t, 1, b - 1)
  BY Zenon DEF UpTo
<1>4. /\ u \in Seq(S) /\ Len(u) = Len(s) + Len(t) /\ Len(s) \in Nat /\ Len(t) \in Nat
      /\ \A i \in 1..Len(s) : u[i] = s[i]
      /\ \A i \in 1..Len(t) : u[Len(s) + i] = t[i]
  BY ConcatAt
<1>5. UpTo(s \o t) = UpTo(u) /\ FirstOf(s, Stops) = a
  OBVIOUS
<1> HIDE DEF a, b, c
<1>6. (a = 0 \/ a \in 1..Len(s)) /\ (b = 0 \/ b \in 1..Len(t))
  BY <1>2 DEF IsFirst
<1>7. CASE a # 0
  <2> DEFINE x == SubSeq(u, 1, a - 1)
             y == SubSeq(s, 1, a - 1)
  <2>1. UpTo(u) = x /\ UpTo(s) = y
    BY <1>1, <1>3, <1>7, Zenon
  <2>2. a \in 1..Len(s) /\ a - 1 \in Nat /\ a - 1 <= Len(s)
    BY <1>6, <1>7
  <2> HIDE DEF u
  <2>3. x \in Seq(S) /\ Len(x) = a - 1 /\ \A i \in 1..(a - 1) : x[i] = u[i]
    BY <1>4, <2>2
  <2>4. y \in Seq(S) /\ Len(y) = a - 1 /\ \A i \in 1..(a - 1) : y[i] = s[i]
    BY <1>4, <2>2
  <2>5. \A i \in 1..(a - 1) : x[i] = y[i]
    BY <1>4, <2>2, <2>3, <2>4
  <2> HIDE DEF x, y
  <2>6. x = y
    BY <2>3, <2>4, <2>5, SameSeq
  <2> QED
    BY <1>5, <1>7, <2>1, <2>6, Zenon
<1>8. CASE a = 0 /\ b = 0
  <2>1. UpTo(u) = u /\ UpTo(t) = t
    BY <1>1, <1>3, <1>8, Zenon
  <2> QED
    BY <1>5, <1>8, <2>1, Zenon
<1>9. CASE a = 0 /\ b # 0
  <2> DEFINE n == b - 1
             y == SubSeq(t, 1, n)
             z == SubSeq(t, n + 1, Len(t))
             m == Len(s) + n
             x == SubSeq(u, 1, m)
             v == s \o y
  <2>1. UpTo(t) = y /\ UpTo(u) = SubSeq(u, 1, (Len(s) + b) - 1)
    <3>1. Len(s) + b # 0
      BY <1>4, <1>6, <1>9
    <3> QED
      BY <1>1, <1>3, <1>9, <3>1, Zenon
  <2>2. n \in 0..Len(t) /\ (Len(s) + b) - 1 = m /\ m \in Nat /\ m <= Len(u) /\ n \in Nat /\ n <= Len(t)
    BY <1>4, <1>6, <1>9
  <2> HIDE DEF u, n
  <2>3. y \in Seq(S) /\ Len(y) = n /\ \A i \in 1..n : y[i] = t[i]
    BY <2>2
  <2>4. x \in Seq(S) /\ Len(x) = m /\ \A i \in 1..m : x[i] = u[i]
    BY <1>4, <2>2
  <2> HIDE DEF y
  <2>5. /\ v \in Seq(S) /\ Len(v) = Len(s) + Len(y)
        /\ \A i \in 1..Len(s) : v[i] = s[i]
        /\ \A i \in 1..Len(y) : v[Len(s) + i] = y[i]
    <3>1. y \in Seq(S)
      BY <2>3
    <3> QED
      BY <3>1, ConcatAt
  <2> HIDE DEF x, v
  <2>6. Len(v) = Len(x)
    BY <2>3, <2>4, <2>5, Zenon
  <2>7. ASSUME NEW i \in 1..Len(x) PROVE v[i] = x[i]
    <3>1. i \in 1..m
      BY <2>4
    <3>2. CASE i <= Len(s)
      <4>1. i \in 1..Len(s)
        BY <1>4, <3>1, <3>2
      <4> QED
        BY <1>4, <2>4, <2>5, <3>1, <4>1, Zenon
    <3>3. CASE i > Len(s)
      <4> DEFINE h == i - Len(s)
      <4>1. h \in 1..n /\ Len(s) + h = i /\ h \in 1..Len(t)
        BY <1>4, <2>2, <3>1, <3>3
      <4> HIDE DEF h
      <4>2. v[i] = y[h] /\ y[h] = t[h]
        BY <2>3, <2>5, <4>1, Zenon
      <4>3. x[i] = u[i] /\ u[i] = t[h]
        BY <1>4, <2>4, <3>1, <4>1, Zenon
      <4> QED
        BY <4>2, <4>3, Zenon
    <3> QED
      BY <1>4, <3>1, <3>2, <3>3
  <2>8. v = x
    BY <2>4, <2>5, <2>6, <2>7, SameSeq
  <2> QED
    BY <1>5, <1>9, <2>1, <2>2, <2>8, Zenon DEF v, x
<1> QED
  BY <1>7, <1>8, <1>9, Zenon

(* Unless a "\r" comes before a "&", the value that fcgi_parse_form cuts   *)
(* ends at the first of them.                                              *)
LEMMA CutIsUpTo ==
  ASSUME NEW S, NEW s \in Seq(S), ReturnsLast(s)
  PROVE  CutAt(s) = FirstOf(s, Stops) /\ Cut(s) = UpTo(s)
<1> DEFINE a == FirstOf(s, {"&"})
           b == FirstOf(s, {"\r"})
           c == FirstOf(s, Stops)
<1>1. IsFirst(a, s, {"&"}) /\ IsFirst(b, s, {"\r"}) /\ IsFirst(c, s, Stops)
  BY FirstOfIs
<1>2. CutAt(s) = IF a # 0 THEN a ELSE b
  BY Zenon DEF CutAt
<1>3. \A i, j \in 1..Len(s) : i < j /\ s[i] = "\r" => s[j] # "&"
  BY Zenon DEF ReturnsLast
<1> HIDE DEF a, b, c
<1>4. \A i \in 1..Len(s) : s[i] \in Stops <=> s[i] = "&" \/ s[i] = "\r"
  BY DEF Stops
<1>5. ASSUME a # 0 PROVE a = c
  <2>1. a \in 1..Len(s) /\ s[a] = "&" /\ \A i \in 1..Len(s) : i < a => s[i] # "&"
    BY <1>1, <1>5 DEF IsFirst
  <2>2. \A i \in 1..Len(s) : i < a => s[i] # "\r"
    BY <1>3, <2>1, Zenon
  <2>3. IsFirst(a, s, Stops)
    BY <1>4, <2>1, <2>2 DEF IsFirst
  <2> QED
    BY <1>1, <2>3, FirstOnly
<1>6. ASSUME a = 0 PROVE b = c
  <2>1. \A i \in 1..Len(s) : s[i] # "&"
    BY <1>1, <1>6 DEF IsFirst
  <2>2. IsFirst(b, s, Stops)
    BY <1>1, <1>4, <2>1 DEF IsFirst
  <2> QED
    BY <1>1, <2>2, FirstOnly
<1>7. CutAt(s) = c
  BY <1>2, <1>5, <1>6, Zenon
<1> QED
  BY <1>7, Zenon DEF Cut, UpTo, c

(* When a form has its returns last, so has each of its parts.             *)
LEMMA ReturnsLastParts ==
  ASSUME NEW S, NEW s \in Seq(S), NEW t \in Seq(S), ReturnsLast(s \o t)
  PROVE  ReturnsLast(s) /\ ReturnsLast(t)
<1> DEFINE u == s \o t
<1>1. /\ u \in Seq(S) /\ Len(u) = Len(s) + Len(t) /\ Len(s) \in Nat /\ Len(t) \in Nat
      /\ \A i \in 1..Len(s) : u[i] = s[i]
      /\ \A i \in 1..Len(t) : u[Len(s) + i] = t[i]
  BY ConcatAt
<1>2. \A i, j \in 1..Len(u) : i < j /\ u[i] = "\r" => u[j] # "&"
  BY Zenon DEF ReturnsLast
<1> HIDE DEF u
<1>3. ReturnsLast(s)
  <2> SUFFICES ASSUME NEW i \in 1..Len(s), NEW j \in 1..Len(s), i < j, s[i] = "\r"
               PROVE  s[j] # "&"
    BY Zenon DEF ReturnsLast
  <2>1. i \in 1..Len(u) /\ j \in 1..Len(u)
    BY <1>1
  <2> QED
    BY <1>1, <1>2, <2>1, Zenon
<1>4. ReturnsLast(t)
  <2> SUFFICES ASSUME NEW i \in 1..Len(t), NEW j \in 1..Len(t), i < j, t[i] = "\r"
               PROVE  t[j] # "&"
    BY Zenon DEF ReturnsLast
  <2> DEFINE x == Len(s) + i
             y == Len(s) + j
  <2>1. x \in 1..Len(u) /\ y \in 1..Len(u) /\ x < y
    BY <1>1
  <2>2. u[x] = t[i] /\ u[y] = t[j]
    BY <1>1
  <2> HIDE DEF x, y
  <2> QED
    BY <1>2, <2>1, <2>2, Zenon
<1> QED
  BY <1>3, <1>4

(* What follows the first "q=" of a form, and what it is when more of the  *)
(* form comes.                                                             *)
LEMMA QTailFacts ==
  ASSUME NEW S, NEW s \in Seq(S), FindQ(s) # 0
  PROVE  /\ FindQ(s) + 1 \in 0..Len(s) /\ QTail(s) \in Seq(S)
         /\ s = SubSeq(s, 1, FindQ(s) + 1) \o QTail(s)
         /\ SubSeq(s, 1, FindQ(s) + 1) \in Seq(S)
<1> DEFINE r == FindQ(s)
<1>1. IsFindQ(r, s)
  BY FindQIs
<1>2. r # 0
  OBVIOUS
<1>3. QTail(s) = SubSeq(s, (r + 1) + 1, Len(s))
  BY Zenon DEF QTail, Drain
<1> HIDE DEF r
<1>4. r + 1 \in 0..Len(s)
  BY <1>1, <1>2 DEF IsFindQ, QAt
<1> DEFINE n == r + 1
<1>5. n \in 0..Len(s)
  BY <1>4
<1> HIDE DEF n
<1>6. /\ SubSeq(s, 1, n) \in Seq(S) /\ SubSeq(s, n + 1, Len(s)) \in Seq(S)
      /\ SubSeq(s, 1, n) \o SubSeq(s, n + 1, Len(s)) = s
  BY <1>5, SplitSeq, Zenon
<1> QED
  BY <1>3, <1>4, <1>6, Zenon DEF n, r

(* What follows q= in two parts of a form, when q= is not split between    *)
(* them: the case fcgi_parse_form handles.                                 *)
LEMMA QTailConcat ==
  ASSUME NEW S, NEW s \in Seq(S), NEW t \in Seq(S), s = <<>> \/ s[Len(s)] # "q"
  PROVE  /\ FindQ(s) # 0 => FindQ(s \o t) # 0 /\ QTail(s \o t) = QTail(s) \o t
         /\ FindQ(s) = 0 /\ FindQ(t) # 0 => FindQ(s \o t) # 0 /\ QTail(s \o t) = QTail(t)
         /\ FindQ(s) = 0 /\ FindQ(t) = 0 => FindQ(s \o t) = 0
<1> DEFINE a == FindQ(s)
           b == FindQ(t)
           u == s \o t
           c == FindQ(u)
<1>1. c = IF a # 0 THEN a ELSE IF b = 0 THEN 0 ELSE Len(s) + b
  BY FindQConcat
<1>2. QTail(s) = Drain(s, a + 1) /\ QTail(t) = Drain(t, b + 1) /\ QTail(u) = Drain(u, c + 1)
  BY Zenon DEF QTail
<1>3. (a # 0 => a + 1 \in 0..Len(s)) /\ (b # 0 => b + 1 \in 0..Len(t))
  BY QTailFacts, Zenon
<1>4. IsFindQ(b, t)
  BY FindQIs
<1>5. ASSUME a # 0 PROVE c # 0 /\ QTail(u) = QTail(s) \o t
  <2> HIDE DEF a, c
  <2>1. a + 1 \in 0..Len(s)
    BY <1>3, <1>5
  <2> DEFINE n == a + 1
  <2>2. n \in 0..Len(s)
    BY <2>1
  <2> HIDE DEF n
  <2>3. Drain(s \o t, n) = Drain(s, n) \o t
    BY <2>2, DrainConcat, Zenon
  <2> QED
    BY <1>1, <1>2, <1>5, <2>3, Zenon DEF n
<1>6. ASSUME a = 0, b # 0 PROVE c # 0 /\ QTail(u) = QTail(t)
  <2> HIDE DEF a, b, c
  <2>1. b + 1 \in 0..Len(t)
    BY <1>3, <1>6
  <2>2. b \in Nat
    BY <1>4, <1>6 DEF IsFindQ, QAt
  <2>3. c = Len(s) + b
    BY <1>1, <1>6, Zenon
  <2> DEFINE n == b + 1
             l == Len(s)
  <2>4. l \in Nat
    OBVIOUS
  <2>5. n \in 0..Len(t)
    BY <2>1
  <2>6. c + 1 = l + n /\ c # 0
    BY <1>6, <2>2, <2>3, <2>4
  <2> HIDE DEF n
  <2>7. Drain(s \o t, Len(s) + n) = Drain(t, n)
    BY <2>5, DrainPast
  <2> QED
    BY <1>2, <2>6, <2>7, Zenon DEF n
<1>7. ASSUME a = 0, b = 0 PROVE c = 0
  BY <1>1, <1>7, Zenon
<1> QED
  BY <1>5, <1>6, <1>7, Zenon

(* The body of client k is right for the form F; ended: its end was seen.  *)
FormState(k, F, ended) ==
    \/ k.body = Null /\ k.bodylen = 0 /\ FindQ(F) = 0 /\ (k.bodydone => ended)
    \/ /\ k.body \in Seq(Char) /\ k.bodylen = Len(k.body) /\ FindQ(F) # 0
       /\ k.body = UpTo(QTail(F))
       /\ k.bodydone => ended \/ FirstOf(QTail(F), Stops) # 0
       /\ ~k.bodydone => FirstOf(QTail(F), Stops) = 0
    \/ k.body = Null /\ k.bodylen > MaxLen

(* FormState is what FormRight says of a request that is over.             *)
LEMMA FormStateRight ==
  ASSUME NEW k, NEW F, NEW ended, FormState(k, F, ended)
  PROVE  k.body = FieldQ(F) \/ (k.body = Null /\ k.bodylen > MaxLen)
<1>1. FieldQ(F) = IF FindQ(F) = 0 THEN Null ELSE UpTo(QTail(F))
  BY FieldQDef
<1>2. \/ k.body = Null /\ FindQ(F) = 0
      \/ FindQ(F) # 0 /\ k.body = UpTo(QTail(F))
      \/ k.body = Null /\ k.bodylen > MaxLen
  BY Zenon DEF FormState
<1> QED
  BY <1>1, <1>2

(* What fcgi_parse_form does, by the state that it finds.                  *)
LEMMA ParseFormCases ==
  ASSUME NEW k \in ClientSet, NEW c \in Seq(Char)
  PROVE  /\ k.bodydone => ParseForm(k, c) = k
         /\ ~k.bodydone /\ k.bodylen > MaxLen => ParseForm(k, c) = [k EXCEPT !.body = Null]
         /\ ~k.bodydone /\ ~(k.bodylen > MaxLen) /\ k.body # Null =>
                ParseForm(k, c) = [k EXCEPT !.body = @ \o Cut(c), !.bodylen = @ + Len(Cut(c)),
                                            !.bodydone = CutAt(c) # 0]
         /\ ~k.bodydone /\ ~(k.bodylen > MaxLen) /\ k.body = Null /\ (k.bodylen # 0 \/ FindQ(c) = 0) =>
                ParseForm(k, c) = k
         /\ ~k.bodydone /\ ~(k.bodylen > MaxLen) /\ k.body = Null /\ k.bodylen = 0 /\ FindQ(c) # 0 =>
                ParseForm(k, c) = [k EXCEPT !.body = Cut(QTail(c)), !.bodylen = Len(Cut(QTail(c))),
                                            !.bodydone = CutAt(QTail(c)) # 0]
  BY Zenon DEF ParseForm, QTail

(* Characters are strings.                                                 *)
LEMMA CharStr == \A v : v \in Seq(Char) => v \in Seq(Str)
<1>1. Char \subseteq Str
  BY DEF Char, Str
<1> QED
  BY <1>1, SeqMono

(* So is NULL, as it is modelled.                                          *)
LEMMA NullStr == Null \in Seq(Str)
  BY DEF Null, Str

(* The types of what fcgi_parse_form keeps of a record.                    *)
LEMMA CutType ==
  ASSUME NEW S, NEW s \in Seq(S)
  PROVE  Cut(s) \in Seq(S) /\ Len(Cut(s)) \in Nat /\ CutAt(s) \in Nat
<1> DEFINE a == FirstOf(s, {"&"})
           b == FirstOf(s, {"\r"})
<1>1. IsFirst(a, s, {"&"}) /\ IsFirst(b, s, {"\r"})
  BY FirstOfIs
<1>2. CutAt(s) = IF a # 0 THEN a ELSE b
  BY Zenon DEF CutAt
<1> HIDE DEF a, b
<1>3. (a = 0 \/ a \in 1..Len(s)) /\ (b = 0 \/ b \in 1..Len(s))
  BY <1>1 DEF IsFirst
<1>4. CutAt(s) = 0 \/ CutAt(s) \in 1..Len(s)
  BY <1>2, <1>3, Zenon
<1>5. Cut(s) = IF CutAt(s) = 0 THEN s ELSE SubSeq(s, 1, CutAt(s) - 1)
  BY Zenon DEF Cut
<1>6. Cut(s) \in Seq(S)
  BY <1>4, <1>5
<1> QED
  BY <1>4, <1>6

(* A chunk of the form leaves the rest of the client alone.                *)
LEMMA ParseFormType ==
  ASSUME NEW k \in ClientSet, NEW c \in Seq(Char)
  PROVE  /\ ParseForm(k, c) \in ClientSet
         /\ ParseForm(k, c).live = k.live /\ ParseForm(k, c).method = k.method
         /\ ParseForm(k, c).server = k.server /\ ParseForm(k, c).script = k.script
         /\ ParseForm(k, c).path = k.path /\ ParseForm(k, c).query = k.query
<1> DEFINE Same(r) == /\ r \in ClientSet
                      /\ r.live = k.live /\ r.method = k.method
                      /\ r.server = k.server /\ r.script = k.script
                      /\ r.path = k.path /\ r.query = k.query
<1>1. ASSUME NEW b \in Seq(Str), NEW n \in Nat, NEW d \in BOOLEAN
      PROVE  Same([k EXCEPT !.body = b, !.bodylen = n, !.bodydone = d])
  BY Zenon DEF ClientSet
<1>2. Same([k EXCEPT !.body = Null])
  BY NullStr, Zenon DEF ClientSet
<1>3. Same(k)
  OBVIOUS
<1>4. Cut(c) \in Seq(Char) /\ Len(Cut(c)) \in Nat
  BY CutType
<1>5. k.body \in Seq(Str) /\ k.bodylen \in Nat /\ k.bodydone \in BOOLEAN
  BY DEF ClientSet
<1>6. CASE k.bodydone
  BY <1>3, <1>6, ParseFormCases, Zenon
<1>7. CASE ~k.bodydone /\ k.bodylen > MaxLen
  BY <1>2, <1>7, ParseFormCases, Zenon
<1>8. CASE ~k.bodydone /\ ~(k.bodylen > MaxLen) /\ k.body # Null
  <2> DEFINE b == k.body \o Cut(c)
             n == k.bodylen + Len(Cut(c))
             d == CutAt(c) # 0
  <2>1. b \in Seq(Str)
    <3>1. Cut(c) \in Seq(Str)
      BY <1>4, CharStr
    <3> QED
      BY <1>5, <3>1
  <2>2. n \in Nat /\ d \in BOOLEAN
    BY <1>4, <1>5
  <2>3. ParseForm(k, c) = [k EXCEPT !.body = b, !.bodylen = n, !.bodydone = d]
    BY <1>8, ParseFormCases, Zenon
  <2> HIDE DEF b, n, d, Same
  <2>4. Same([k EXCEPT !.body = b, !.bodylen = n, !.bodydone = d])
    BY <1>1, <2>1, <2>2, Zenon
  <2>5. Same(ParseForm(k, c))
    BY <2>3, <2>4, Zenon
  <2> QED
    BY <2>5, Zenon DEF Same
<1>9. CASE ~k.bodydone /\ ~(k.bodylen > MaxLen) /\ k.body = Null /\ (k.bodylen # 0 \/ FindQ(c) = 0)
  BY <1>3, <1>9, ParseFormCases, Zenon
<1>10. CASE ~k.bodydone /\ ~(k.bodylen > MaxLen) /\ k.body = Null /\ k.bodylen = 0 /\ FindQ(c) # 0
  <2> DEFINE s == QTail(c)
             b == Cut(s)
             n == Len(b)
             d == CutAt(s) # 0
  <2>1. s \in Seq(Char)
    BY <1>10, QTailFacts, Zenon
  <2>2. ParseForm(k, c) = [k EXCEPT !.body = b, !.bodylen = n, !.bodydone = d]
    BY <1>10, ParseFormCases, Zenon
  <2> HIDE DEF s
  <2>3. b \in Seq(Char) /\ n \in Nat
    BY <2>1, CutType
  <2>4. b \in Seq(Str) /\ d \in BOOLEAN
    BY <2>3, CharStr
  <2> HIDE DEF b, n, d, Same
  <2>5. Same([k EXCEPT !.body = b, !.bodylen = n, !.bodydone = d])
    BY <1>1, <2>3, <2>4, Zenon
  <2>6. Same(ParseForm(k, c))
    BY <2>2, <2>5, Zenon
  <2> QED
    BY <2>6, Zenon DEF Same
<1> QED
  BY <1>6, <1>7, <1>8, <1>9, <1>10, Zenon

(* A chunk that does not start inside a "q=" keeps the body right.         *)
LEMMA ParseFormKeeps ==
  ASSUME NEW k \in ClientSet, NEW F \in Seq(Char), NEW c \in Seq(Char),
         FormState(k, F, FALSE), F = <<>> \/ F[Len(F)] # "q", ReturnsLast(F \o c)
  PROVE  FormState(ParseForm(k, c), F \o c, FALSE)
<1> DEFINE G == F \o c
           r == ParseForm(k, c)
<1>1. G \in Seq(Char)
  BY ConcatAt
<1>2. /\ FindQ(F) # 0 => FindQ(G) # 0 /\ QTail(G) = QTail(F) \o c
      /\ FindQ(F) = 0 /\ FindQ(c) # 0 => FindQ(G) # 0 /\ QTail(G) = QTail(c)
      /\ FindQ(F) = 0 /\ FindQ(c) = 0 => FindQ(G) = 0
  BY QTailConcat
<1>3. ReturnsLast(F) /\ ReturnsLast(c)
  BY ReturnsLastParts
<1>4. /\ k.body \in Seq(Str) /\ k.bodylen \in Nat /\ k.bodydone \in BOOLEAN
      /\ MaxLen \in Nat
  BY FramingAssumption DEF ClientSet
<1>5. FormState(ParseForm(k, c), F \o c, FALSE) <=> FormState(r, G, FALSE)
  OBVIOUS
<1> HIDE DEF G, r
<1>6. CASE k.body = Null /\ k.bodylen > MaxLen
  <2>1. r.body = Null /\ r.bodylen > MaxLen
    <3>1. k.bodydone => r = k
      BY ParseFormCases, Zenon DEF r
    <3>2. ~k.bodydone => r = [k EXCEPT !.body = Null]
      BY <1>6, ParseFormCases, Zenon DEF r
    <3>3. [k EXCEPT !.body = Null].body = Null /\ [k EXCEPT !.body = Null].bodylen = k.bodylen
      BY DEF ClientSet
    <3> QED
      BY <1>4, <1>6, <3>1, <3>2, <3>3, Zenon
  <2> QED
    BY <1>5, <2>1, Zenon DEF FormState
<1>7. CASE k.body = Null /\ k.bodylen = 0 /\ FindQ(F) = 0 /\ ~k.bodydone
  <2>1. ~(k.bodylen > MaxLen)
    BY <1>4, <1>7
  <2>2. CASE FindQ(c) = 0
    <3>1. r = k
      BY <1>7, <2>1, <2>2, ParseFormCases, Zenon DEF r
    <3>2. FindQ(G) = 0
      BY <1>2, <1>7, <2>2, Zenon
    <3> QED
      BY <1>5, <1>7, <3>1, <3>2, Zenon DEF FormState
  <2>3. CASE FindQ(c) # 0
    <3> DEFINE s == QTail(c)
               b == Cut(s)
               n == Len(b)
               d == CutAt(s) # 0
    <3>1. s \in Seq(Char)
      BY <2>3, QTailFacts, Zenon
    <3>2. r = [k EXCEPT !.body = b, !.bodylen = n, !.bodydone = d]
      BY <1>7, <2>1, <2>3, ParseFormCases, Zenon DEF r
    <3>3. ReturnsLast(s)
      <4> DEFINE x == SubSeq(c, 1, FindQ(c) + 1)
      <4>1. x \in Seq(Char) /\ c = x \o s
        BY <2>3, QTailFacts, Zenon
      <4> HIDE DEF x, s
      <4>2. ReturnsLast(x \o s)
        BY <1>3, <4>1, Zenon
      <4>3. x \in Seq(Char)
        BY <4>1
      <4> QED
        BY <3>1, <4>2, <4>3, ReturnsLastParts
    <3>4. FindQ(G) # 0 /\ QTail(G) = s
      BY <1>2, <1>7, <2>3, Zenon
    <3> HIDE DEF s
    <3>5. CutAt(s) = FirstOf(s, Stops) /\ b = UpTo(s)
      BY <3>1, <3>3, CutIsUpTo
    <3>6. b \in Seq(Char) /\ d \in BOOLEAN
      BY <3>1, CutType
    <3>7. d <=> FirstOf(s, Stops) # 0
      BY <3>5
    <3> HIDE DEF b, d
    <3>8. r.body = b /\ r.bodylen = n /\ r.bodydone = d
      BY <3>2 DEF ClientSet
    <3> QED
      BY <1>5, <3>4, <3>5, <3>6, <3>7, <3>8, Zenon DEF FormState
  <2> QED
    BY <2>2, <2>3, Zenon
<1>8. CASE /\ k.body \in Seq(Char) /\ k.bodylen = Len(k.body) /\ FindQ(F) # 0
           /\ k.body = UpTo(QTail(F))
           /\ k.bodydone => FirstOf(QTail(F), Stops) # 0
           /\ ~k.bodydone => FirstOf(QTail(F), Stops) = 0
  <2> DEFINE q == QTail(F)
             f == FirstOf(q, Stops)
  <2>1. q \in Seq(Char)
    BY <1>8, QTailFacts, Zenon
  <2>2. FindQ(G) # 0 /\ QTail(G) = q \o c
    BY <1>2, <1>8, Zenon
  <2>3. k.body = UpTo(q) /\ (k.bodydone => f # 0) /\ (~k.bodydone => f = 0)
    BY <1>8, Zenon
  <2> HIDE DEF q
  <2>4. UpTo(q \o c) = IF f # 0 THEN UpTo(q) ELSE q \o UpTo(c)
    BY <2>1, UpToConcat
  <2>5. FirstOf(q \o c, Stops) = IF f # 0 THEN f
                                 ELSE IF FirstOf(c, Stops) = 0 THEN 0 ELSE Len(q) + FirstOf(c, Stops)
    BY <2>1, FirstOfConcat
  <2>6. k.body # Null
    BY <1>8, NullNoValue, Zenon
  <2>7. UpTo(q) = IF f = 0 THEN q ELSE SubSeq(q, 1, f - 1)
    BY Zenon DEF UpTo
  <2>8. CASE k.bodydone
    <3>1. r = k
      BY <2>8, ParseFormCases, Zenon DEF r
    <3>2. UpTo(q \o c) = k.body /\ FirstOf(q \o c, Stops) # 0
      BY <2>3, <2>4, <2>5, <2>8, Zenon
    <3> QED
      BY <1>5, <1>8, <2>2, <2>8, <3>1, <3>2, Zenon DEF FormState
  <2>9. CASE ~k.bodydone /\ k.bodylen > MaxLen
    <3>1. r = [k EXCEPT !.body = Null]
      BY <2>9, ParseFormCases, Zenon DEF r
    <3>2. r.body = Null /\ r.bodylen = k.bodylen
      BY <3>1 DEF ClientSet
    <3> QED
      BY <1>5, <2>9, <3>2, Zenon DEF FormState
  <2>10. CASE ~k.bodydone /\ ~(k.bodylen > MaxLen)
    <3> DEFINE x == Cut(c)
               b == k.body \o x
               n == k.bodylen + Len(x)
               d == CutAt(c) # 0
    <3>1. r = [k EXCEPT !.body = b, !.bodylen = n, !.bodydone = d]
      BY <2>6, <2>10, ParseFormCases, Zenon DEF r
    <3>2. CutAt(c) = FirstOf(c, Stops) /\ x = UpTo(c)
      BY <1>3, CutIsUpTo
    <3>3. x \in Seq(Char)
      BY CutType
    <3>4. k.body = q /\ f = 0
      BY <2>3, <2>7, <2>10, Zenon
    <3>5. UpTo(q \o c) = b
      BY <2>4, <3>2, <3>4, Zenon
    <3>6. d <=> FirstOf(q \o c, Stops) # 0
      <4>1. FirstOf(c, Stops) = 0 \/ FirstOf(c, Stops) \in 1..Len(c)
        <5>1. IsFirst(FirstOf(c, Stops), c, Stops)
          BY FirstOfIs
        <5> QED
          BY <5>1 DEF IsFirst
      <4>2. Len(q) \in Nat /\ Len(c) \in Nat
        BY <2>1
      <4>3. FirstOf(c, Stops) # 0 => Len(q) + FirstOf(c, Stops) # 0
        BY <4>1, <4>2
      <4> QED
        BY <2>5, <3>2, <3>4, <4>3, Zenon
    <3> HIDE DEF x
    <3>7. b \in Seq(Char) /\ n = Len(b)
      <4>1. k.body \in Seq(Char) /\ k.bodylen = Len(k.body)
        BY <1>8
      <4> QED
        BY <3>3, <4>1
    <3>8. d \in BOOLEAN
      OBVIOUS
    <3> HIDE DEF b, n, d
    <3>9. r.body = b /\ r.bodylen = n /\ r.bodydone = d
      BY <3>1 DEF ClientSet
    <3> QED
      BY <1>5, <2>2, <3>5, <3>6, <3>7, <3>8, <3>9, Zenon DEF FormState
  <2> QED
    BY <2>8, <2>9, <2>10, Zenon
<1> QED
  BY <1>6, <1>7, <1>8, Zenon DEF FormState

(* Nothing but empty sequences is empty; and the joined sequence does not  *)
(* end with what none of the sequences ends with.                          *)
LEMMA JoinedEmpties ==
  ASSUME NEW S, NEW ss \in Seq(Seq(S)), \A i \in 1..Len(ss) : ss[i] = <<>>
  PROVE  Joined(ss) = <<>>
<1> DEFINE f == Joining(ss)
           T == {k \in Nat : k \in 0..Len(ss) => f[k] = <<>>}
<1>1. Len(ss) \in Nat
  OBVIOUS
<1>2. f[0] = <<>> /\ \A i \in 1..Len(ss) : f[i] = f[i - 1] \o ss[i]
  BY <1>1, JoiningDef, Zenon
<1> HIDE DEF f
<1>3. 0 \in T
  BY <1>2
<1>4. ASSUME NEW k \in Nat, k \in T PROVE k + 1 \in T
  <2> SUFFICES ASSUME k + 1 \in 0..Len(ss) PROVE f[k + 1] = <<>>
    OBVIOUS
  <2>1. k + 1 \in 1..Len(ss) /\ (k + 1) - 1 = k /\ k \in 0..Len(ss)
    BY <1>1
  <2>2. f[k] = <<>>
    BY <1>4, <2>1
  <2>3. f[k + 1] = f[k] \o ss[k + 1] /\ ss[k + 1] = <<>>
    BY <1>2, <2>1, Zenon
  <2>4. <<>> \o <<>> = <<>>
    OBVIOUS
  <2> QED
    BY <2>2, <2>3, <2>4, Zenon
<1> HIDE DEF T
<1>5. Nat \subseteq T
  BY <1>3, <1>4, AllNat, Zenon
<1>6. Len(ss) \in T
  BY <1>1, <1>5, Zenon
<1>7. f[Len(ss)] = <<>>
  BY <1>1, <1>6 DEF T
<1> QED
  BY <1>7, Zenon DEF Joined, f

(* If no part ends with x, the parts joined do not either.                 *)
LEMMA JoinedLast ==
  ASSUME NEW S, NEW ss \in Seq(Seq(S)), NEW x,
         \A i \in 1..Len(ss) : ss[i] = <<>> \/ ss[i][Len(ss[i])] # x
  PROVE  Joined(ss) = <<>> \/ Joined(ss)[Len(Joined(ss))] # x
<1> DEFINE f == Joining(ss)
           Good(v) == v = <<>> \/ v[Len(v)] # x
           T == {k \in Nat : k \in 0..Len(ss) => f[k] \in Seq(S) /\ Good(f[k])}
<1>1. Len(ss) \in Nat /\ \A i \in 1..Len(ss) : ss[i] \in Seq(S)
  OBVIOUS
<1>2. f[0] = <<>> /\ \A i \in 1..Len(ss) : f[i] = f[i - 1] \o ss[i]
  BY <1>1, JoiningDef, Zenon
<1>a. \A k \in 0..Len(ss) : f[k] \in Seq(S)
  BY JoiningAt, Zenon
<1>b. \A i \in 1..Len(ss) : Good(ss[i])
  OBVIOUS
<1> HIDE DEF f
<1>3. 0 \in T
  <2>1. 0 \in 0..Len(ss)
    BY <1>1
  <2>2. f[0] \in Seq(S)
    BY <1>a, <2>1, Zenon
  <2> QED
    BY <1>2, <2>2, Zenon
<1>4. ASSUME NEW k \in Nat, k \in T PROVE k + 1 \in T
  <2> SUFFICES ASSUME k + 1 \in 0..Len(ss) PROVE f[k + 1] \in Seq(S) /\ Good(f[k + 1])
    OBVIOUS
  <2>1. k + 1 \in 1..Len(ss) /\ (k + 1) - 1 = k /\ k \in 0..Len(ss)
    BY <1>1
  <2> DEFINE a == f[k]
             b == ss[k + 1]
             c == a \o b
  <2>2. a \in Seq(S) /\ Good(a)
    BY <1>4, <2>1
  <2>3. f[k + 1] = c /\ Good(b) /\ b \in Seq(S)
    BY <1>1, <1>2, <1>b, <2>1, Zenon
  <2>4. f[k + 1] \in Seq(S)
    BY <1>a
  <2> HIDE DEF a, b
  <2>5. /\ c \in Seq(S) /\ Len(c) = Len(a) + Len(b) /\ Len(a) \in Nat /\ Len(b) \in Nat
        /\ \A i \in 1..Len(b) : c[Len(a) + i] = b[i]
    <3>1. a \in Seq(S) /\ b \in Seq(S)
      BY <2>2, <2>3
    <3> QED
      BY <3>1, ConcatAt
  <2>6. CASE b = <<>>
    <3>1. c = a
      BY <2>2, <2>6
    <3> QED
      BY <2>2, <2>3, <2>4, <3>1, Zenon
  <2>7. CASE b # <<>>
    <3>1. Len(b) \in 1..Len(b)
      BY <2>3, <2>5, <2>7
    <3>2. c[Len(c)] = b[Len(b)] /\ b[Len(b)] # x
      BY <2>3, <2>5, <2>7, <3>1, Zenon
    <3> QED
      BY <2>3, <2>4, <3>2, Zenon
  <2> QED
    BY <2>6, <2>7
<1> HIDE DEF T
<1>5. Nat \subseteq T
  BY <1>3, <1>4, AllNat, SMTT(20)
<1>6. Len(ss) \in T
  BY <1>1, <1>5, Zenon
<1>7. Good(f[Len(ss)])
  BY <1>1, <1>6 DEF T
<1> QED
  BY <1>7, Zenon DEF Joined, f

=============================================================================

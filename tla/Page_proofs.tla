----------------------------- MODULE Page_proofs -----------------------------
(***************************************************************************)
(* The proofs about the pages galileo writes: Gemtext (what they are made  *)
(* of) and Template (how they get to the web server).  The two share no    *)
(* variable; each has its own invariant, in its own section.               *)
(***************************************************************************)
EXTENDS Gemtext, Template, WellFoundedInduction, TLAPS

-----------------------------------------------------------------------------
(* Natural numbers and sequences.                                          *)

(* A set of natural numbers that is not empty has a least element.         *)
LEMMA LeastNat ==
  ASSUME NEW T, T \subseteq Nat, T # {}
  PROVE  \E x \in T : \A y \in T : x <= y
<1> DEFINE R == OpToRel(<, Nat)
<1>1. IsWellFoundedOn(R, Nat)
  BY NatLessThanWellFounded, Zenon
<1>2. \A x, y \in Nat : <<x, y>> \in R <=> x < y
  BY DEF OpToRel
<1> HIDE DEF R
<1>3. PICK x \in T : \A y \in T : ~(<<y, x>> \in R)
  BY <1>1, WFMin, Zenon
<1>4. \A y \in T : ~(y < x)
  BY <1>2, <1>3, Zenon
<1>5. \A y \in T : x <= y
  BY <1>4, SMT
<1> QED
  BY <1>5

(* Whatever holds of 0 and, with n, of n + 1.                              *)
LEMMA AllNat ==
  ASSUME NEW T, 0 \in T, \A n \in Nat : n \in T => n + 1 \in T
  PROVE  Nat \subseteq T
<1> SUFFICES ASSUME Nat \ T # {} PROVE FALSE
  OBVIOUS
<1>1. PICK n \in Nat \ T : \A k \in Nat \ T : n <= k
  BY LeastNat, Zenon
<1>2. n - 1 \in Nat
  BY <1>1
<1>3. n - 1 \in T
  BY <1>1, <1>2
<1>4. (n - 1) + 1 \in T
  BY <1>2, <1>3
<1> QED
  BY <1>1, <1>4

(* Joining with a longer sequence, as the records of a page are joined.    *)
LEMMA ConcatAppend ==
  ASSUME NEW S, NEW a \in Seq(S), NEW b \in Seq(S), NEW x \in S
  PROVE  a \o Append(b, x) = Append(a \o b, x)
  OBVIOUS

(* The order in which three sequences are joined does not matter.          *)
LEMMA ConcatAssoc ==
  ASSUME NEW S, NEW a \in Seq(S), NEW b \in Seq(S), NEW c \in Seq(S)
  PROVE  (a \o b) \o c = a \o (b \o c)
  OBVIOUS

(* The same under a name.                                                  *)
Regrouped(a, b, c) == (a \o b) \o c = a \o (b \o c)

(* Sequences can be regrouped.                                             *)
LEMMA ConcatRegrouped ==
  ASSUME NEW S, NEW a \in Seq(S), NEW b \in Seq(S), NEW c \in Seq(S)
  PROVE  Regrouped(a, b, c)
  BY ConcatAssoc DEF Regrouped

(* Sequences with the same length and the same elements are the same.      *)
LEMMA SameSeq ==
  ASSUME NEW S, NEW s \in Seq(S), NEW t \in Seq(S), Len(s) = Len(t),
         \A i \in 1..Len(t) : s[i] = t[i]
  PROVE  s = t
  OBVIOUS

(* A sequence is its first n elements and the others.                      *)
LEMMA SplitSeq ==
  ASSUME NEW S, NEW s \in Seq(S), NEW n \in 0..Len(s)
  PROVE  /\ SubSeq(s, 1, n) \in Seq(S) /\ Len(SubSeq(s, 1, n)) = n
         /\ SubSeq(s, n + 1, Len(s)) \in Seq(S)
         /\ Len(SubSeq(s, n + 1, Len(s))) = Len(s) - n
         /\ SubSeq(s, 1, n) \o SubSeq(s, n + 1, Len(s)) = s
<1> DEFINE x == SubSeq(s, 1, n)
           y == SubSeq(s, n + 1, Len(s))
<1>1. Len(s) \in Nat /\ n \in Nat /\ n <= Len(s)
  OBVIOUS
<1>2. x \in Seq(S) /\ Len(x) = n /\ \A i \in 1..n : x[i] = s[i]
  BY <1>1
<1>3. y \in Seq(S) /\ Len(y) = Len(s) - n /\ \A i \in 1..(Len(s) - n) : y[i] = s[n + i]
  BY <1>1
<1> HIDE DEF x, y
<1>4. x \o y = s
  <2>1. x \o y \in Seq(S) /\ Len(x \o y) = Len(s)
    BY <1>1, <1>2, <1>3
  <2>2. ASSUME NEW i \in 1..Len(s) PROVE (x \o y)[i] = s[i]
    <3>1. CASE i <= n
      <4>1. i \in 1..n
        BY <1>1, <3>1
      <4>2. (x \o y)[i] = x[i]
        BY <1>2, <1>3, <4>1
      <4> QED
        BY <1>2, <4>1, <4>2, Zenon
    <3>2. CASE i > n
      <4>1. i - n \in 1..(Len(s) - n) /\ n + (i - n) = i
        BY <1>1, <3>2
      <4>2. y[i - n] = s[i]
        BY <1>3, <4>1
      <4>3. (x \o y)[i] = y[i - n]
        BY <1>1, <1>2, <1>3, <3>2
      <4> QED
        BY <4>2, <4>3
    <3>3. i <= n \/ i > n
      BY <1>1
    <3> QED
      BY <3>1, <3>2, <3>3, Zenon
  <2>3. \A i \in 1..Len(s) : (x \o y)[i] = s[i]
    BY <2>2, Zenon
  <2> QED
    BY <2>1, <2>3, SameSeq, Zenon
<1> QED
  BY <1>2, <1>3, <1>4, Zenon DEF x, y

(* The length of two sequences joined.                                     *)
LEMMA ConcatType ==
  ASSUME NEW S, NEW a \in Seq(S), NEW b \in Seq(S)
  PROVE  a \o b \in Seq(S) /\ Len(a \o b) = Len(a) + Len(b)
  OBVIOUS

-----------------------------------------------------------------------------
(***************************************************************************)
(* The translated page is well formed, and links are resolved as they      *)
(* should be, for every set of links and media types a capsule uses and    *)
(* every number and order of lines.                                        *)
(*                                                                         *)
(* The translation is always in one of four situations, Shapes; each kind  *)
(* of line leads from one of them to another (TranslateKeepsShape), and    *)
(* proxy_error empties each of them (FinishCloses).                        *)
(***************************************************************************)

InList == [tr |-> {"LIST"}, doc |-> Open(Head0.doc, "ul")]
InNav == [tr |-> {"NAV"}, doc |-> Open(Open(Head0.doc, "nav"), "ul")]
InPre == [tr |-> {"PRE"}, doc |-> Open(Open(Head0.doc, "figure"), "pre")]

Shapes == {Head0, InList, InNav, InPre}

(* The inductive invariant: WellNested and PageClosed with the situation   *)
(* as a whole, and that no page of HTML exists before the header is read.  *)
IInv ==
    /\ pc \in Proxies
    /\ phase = "header" => page = "none"
    /\ phase = "body" /\ page = "html" => cur \in Shapes
    /\ PageClosed
    /\ LinkRight

-----------------------------------------------------------------------------

(* The body of a page is never the marker of ill-formed pages.             *)
LEMMA HeadDoc == Head0.doc = <<"body", <<"html", Empty>>>> /\ Head0.tr = {}
BY DEF Head0, Open, Empty, Bad

(* The elements open in each situation.                                    *)
LEMMA ShapeDocs ==
    /\ InList = [tr |-> {"LIST"}, doc |-> <<"ul", Head0.doc>>]
    /\ InNav = [tr |-> {"NAV"}, doc |-> <<"ul", <<"nav", Head0.doc>>>>]
    /\ InPre = [tr |-> {"PRE"}, doc |-> <<"pre", <<"figure", Head0.doc>>>>]
<1>1. Head0.doc # Bad
  BY HeadDoc DEF Bad
<1>2. <<"nav", Head0.doc>> # Bad /\ <<"figure", Head0.doc>> # Bad
  BY DEF Bad
<1> QED
  BY <1>1, <1>2 DEF InList, InNav, InPre, Open

(* Closing what a flag stands for leads back to the body of the page.      *)
LEMMA Closing ==
    /\ CloseList(InList) = Head0 /\ CloseNav(InNav) = Head0 /\ ClosePre(InPre) = Head0
    /\ CloseList(Head0) = Head0 /\ CloseNav(Head0) = Head0 /\ ClosePre(Head0) = Head0
    /\ CloseList(InNav) = InNav /\ CloseNav(InList) = InList
    /\ ClosePre(InNav) = InNav /\ ClosePre(InList) = InList
<1> DEFINE d == Head0.doc
<1>1. Head0 = [tr |-> {}, doc |-> d]
  BY DEF Head0
<1>2. Close(<<"ul", d>>, "ul") = d
  BY DEF Close
<1>3. Close(Close(<<"ul", <<"nav", d>>>>, "ul"), "nav") = d
  BY DEF Close
<1>4. Close(Close(<<"pre", <<"figure", d>>>>, "pre"), "figure") = d
  BY DEF Close
<1> HIDE DEF d
<1>5. CloseList(InList) = Head0
  BY <1>1, <1>2, ShapeDocs DEF CloseList, d
<1>6. CloseNav(InNav) = Head0
  BY <1>1, <1>3, ShapeDocs DEF CloseNav, d
<1>7. ClosePre(InPre) = Head0
  BY <1>1, <1>4, ShapeDocs DEF ClosePre, d
<1>8. CloseList(Head0) = Head0 /\ CloseNav(Head0) = Head0 /\ ClosePre(Head0) = Head0
  BY HeadDoc DEF CloseList, CloseNav, ClosePre
<1>9. /\ CloseList(InNav) = InNav /\ CloseNav(InList) = InList
      /\ ClosePre(InNav) = InNav /\ ClosePre(InList) = InList
  BY ShapeDocs DEF CloseList, CloseNav, ClosePre
<1> QED
  BY <1>5, <1>6, <1>7, <1>8, <1>9

(* Opening an element leads from the body to the situation it stands for.  *)
LEMMA Opening ==
    /\ OpenList(Head0) = InList /\ OpenList(InList) = InList
    /\ OpenNav(Head0) = InNav /\ OpenNav(InNav) = InNav
    /\ OpenPre(Head0) = InPre
<1>1. Head0.tr = {}
  BY HeadDoc
<1>2. OpenList(Head0) = InList /\ OpenNav(Head0) = InNav /\ OpenPre(Head0) = InPre
  BY <1>1 DEF OpenList, OpenNav, OpenPre, InList, InNav, InPre
<1>3. OpenList(InList) = InList /\ OpenNav(InNav) = InNav
  BY DEF OpenList, OpenNav, InList, InNav
<1> QED
  BY <1>2, <1>3

(* Items, blocks and preformatted text are where they belong.              *)
LEMMA Placing ==
    /\ Within(InList, "ul") = InList /\ Within(InNav, "ul") = InNav
    /\ Within(InPre, "pre") = InPre /\ Within(Head0, "body") = Head0
BY ShapeDocs, HeadDoc DEF Within

(* The flags of each situation.                                            *)
LEMMA Flags ==
    /\ "PRE" \in InPre.tr
    /\ "PRE" \notin Head0.tr /\ "PRE" \notin InList.tr /\ "PRE" \notin InNav.tr
BY HeadDoc DEF InPre, InList, InNav

(* Whatever the line, gemtext_translate_line leads from a situation to a   *)
(* situation.                                                              *)
LEMMA TranslateKeepsShape ==
    ASSUME NEW line, NEW s \in Shapes
    PROVE  TranslateLine(line, s) \in Shapes
<1>1. CASE s = InPre
  BY <1>1, Flags, Closing, Placing DEF TranslateLine, Shapes
<1>2. CASE s \in {Head0, InList, InNav}
  <2>1. "PRE" \notin s.tr
    BY <1>2, Flags
  <2>2. OpenList(CloseNav(s)) = InList
    BY <1>2, Closing, Opening
  <2>3. CloseNav(CloseList(s)) = Head0
    BY <1>2, Closing
  <2>4. CloseList(s) \in {Head0, InNav}
    BY <1>2, Closing
  <2>5. CloseNav(CloseList(s)) = Head0 /\ OpenNav(CloseList(s)) = InNav
    BY <2>4, Closing, Opening
  <2>6. LinkLine(line, CloseList(s)) \in {Head0, InNav}
    BY <2>5, Placing DEF LinkLine
  <2> QED
    BY <2>1, <2>2, <2>3, <2>6, Placing, Opening DEF TranslateLine, Shapes
<1> QED
  BY <1>1, <1>2 DEF Shapes

(* proxy_error closes everything, whatever was open.                       *)
LEMMA FinishCloses ==
    ASSUME NEW s \in Shapes
    PROVE  Finish(s).tr = {} /\ Finish(s).doc = Empty
<1>1. CloseNav(CloseList(ClosePre(s))) = Head0
  BY Closing DEF Shapes
<1>2. Foot(Head0).tr = {}
  BY HeadDoc DEF Foot, Head0
<1>3. Close(Close(<<"body", <<"html", Empty>>>>, "body"), "html") = Empty
  BY DEF Close
<1>4. Foot(Head0).doc = Empty
  BY <1>3, HeadDoc DEF Foot, Head0
<1> QED
  BY <1>1, <1>2, <1>4 DEF Finish

-----------------------------------------------------------------------------
(* Links.                                                                  *)

(* What is behind the first n symbols of a string.                         *)
LEMMA SkipFacts ==
  ASSUME NEW S, NEW s \in Seq(S), NEW n \in 0..Len(s)
  PROVE  /\ Skip(s, n) \in Seq(S) /\ Len(Skip(s, n)) = Len(s) - n
         /\ \A i \in 1..(Len(s) - n) : Skip(s, n)[i] = s[n + i]
<1>1. Len(s) \in Nat /\ n \in Nat /\ n <= Len(s)
  OBVIOUS
<1> QED
  BY <1>1 DEF Skip

(* Skipping twice.                                                         *)
LEMMA SkipSkip ==
  ASSUME NEW S, NEW s \in Seq(S), NEW m \in Nat, NEW n \in Nat, m + n <= Len(s)
  PROVE  Skip(Skip(s, m), n) = Skip(s, m + n)
<1> DEFINE a == Skip(s, m)
           b == Skip(a, n)
           c == Skip(s, m + n)
<1>1. Len(s) \in Nat /\ m \in 0..Len(s) /\ m + n \in 0..Len(s) /\ n \in 0..(Len(s) - m)
  OBVIOUS
<1>2. a \in Seq(S) /\ Len(a) = Len(s) - m /\ \A i \in 1..(Len(s) - m) : a[i] = s[m + i]
  BY <1>1, SkipFacts, Zenon
<1>3. n \in 0..Len(a)
  BY <1>1, <1>2
<1>4. c \in Seq(S) /\ Len(c) = Len(s) - (m + n) /\ \A i \in 1..(Len(s) - (m + n)) : c[i] = s[(m + n) + i]
  BY <1>1, SkipFacts, Zenon
<1> HIDE DEF a
<1>5. b \in Seq(S) /\ Len(b) = Len(a) - n /\ \A i \in 1..(Len(a) - n) : b[i] = a[n + i]
  BY <1>2, <1>3, SkipFacts, Zenon
<1> HIDE DEF b, c
<1>6. Len(b) = Len(c)
  BY <1>1, <1>2, <1>4, <1>5
<1>7. ASSUME NEW i \in 1..Len(c) PROVE b[i] = c[i]
  <2>1. /\ i \in 1..(Len(a) - n) /\ n + i \in 1..(Len(s) - m) /\ i \in 1..(Len(s) - (m + n))
        /\ m + (n + i) = (m + n) + i
    BY <1>1, <1>2, <1>4
  <2>2. b[i] = a[n + i] /\ a[n + i] = s[m + (n + i)] /\ c[i] = s[(m + n) + i]
    BY <1>2, <1>4, <1>5, <2>1, Zenon
  <2> QED
    BY <2>1, <2>2
<1>8. b = c
  BY <1>4, <1>5, <1>6, <1>7, SameSeq, Zenon
<1> QED
  BY <1>8 DEF a, b, c

(* A prefix, symbol by symbol: what strncmp compares.                      *)
LEMMA PrefixAt ==
  ASSUME NEW S, NEW a \in Seq(S), NEW s \in Seq(S)
  PROVE  IsPrefix(a, s) <=> Len(a) <= Len(s) /\ \A i \in 1..Len(a) : a[i] = s[i]
<1> DEFINE y == SubSeq(s, 1, Len(a))
<1>1. Len(a) \in Nat /\ Len(s) \in Nat
  OBVIOUS
<1>2. ASSUME Len(a) <= Len(s)
      PROVE  y \in Seq(S) /\ Len(y) = Len(a) /\ \A i \in 1..Len(a) : y[i] = s[i]
  BY <1>1, <1>2
<1> HIDE DEF y
<1>3. ASSUME Len(a) <= Len(s), \A i \in 1..Len(a) : a[i] = s[i] PROVE y = a
  <2>1. Len(y) = Len(a) /\ \A i \in 1..Len(a) : y[i] = a[i]
    BY <1>1, <1>2, <1>3
  <2> QED
    BY <1>2, <1>3, <2>1, SameSeq, Zenon
<1>4. ASSUME Len(a) <= Len(s), y = a PROVE \A i \in 1..Len(a) : a[i] = s[i]
  BY <1>2, <1>4
<1> QED
  BY <1>3, <1>4, Zenon DEF IsPrefix, y

(* The same, in one direction.                                             *)
LEMMA PrefixHas ==
  ASSUME NEW S, NEW a \in Seq(S), NEW s \in Seq(S), IsPrefix(a, s)
  PROVE  Len(a) <= Len(s) /\ \A i \in 1..Len(a) : a[i] = s[i]
BY PrefixAt

(* A prefix made of two parts.                                             *)
LEMMA PrefixConcat ==
  ASSUME NEW S, NEW a \in Seq(S), NEW b \in Seq(S), NEW s \in Seq(S)
  PROVE  IsPrefix(a \o b, s)
           <=> IsPrefix(a, s) /\ IsPrefix(b, Skip(s, Len(a)))
<1> DEFINE c == a \o b
           t == Skip(s, Len(a))
<1>1. Len(a) \in Nat /\ Len(b) \in Nat /\ Len(s) \in Nat
  OBVIOUS
<1>2. c \in Seq(S) /\ Len(c) = Len(a) + Len(b)
  OBVIOUS
<1>3. /\ \A i \in 1..Len(a) : c[i] = a[i]
      /\ \A i \in 1..Len(b) : c[Len(a) + i] = b[i]
  BY <1>1
<1> HIDE DEF c
<1>4. ASSUME Len(a) <= Len(s)
      PROVE  /\ t \in Seq(S) /\ Len(t) = Len(s) - Len(a)
             /\ \A i \in 1..(Len(s) - Len(a)) : t[i] = s[Len(a) + i]
  <2>1. Len(a) \in 0..Len(s)
    BY <1>1, <1>4
  <2> QED
    BY <2>1, SkipFacts, Zenon
<1> HIDE DEF t
<1>5. ASSUME IsPrefix(c, s) PROVE IsPrefix(a, s) /\ IsPrefix(b, t)
  <2>1. Len(c) <= Len(s) /\ \A i \in 1..Len(c) : c[i] = s[i]
    BY <1>2, <1>5, PrefixHas, Zenon
  <2>2. Len(a) <= Len(s) /\ \A i \in 1..Len(a) : a[i] = s[i]
    BY <1>1, <1>2, <1>3, <2>1
  <2>3. Len(b) <= Len(t) /\ \A i \in 1..Len(b) : b[i] = t[i]
    <3>1. Len(t) = Len(s) - Len(a) /\ Len(b) <= Len(t)
      BY <1>1, <1>2, <1>4, <2>1, <2>2
    <3>2. ASSUME NEW i \in 1..Len(b) PROVE b[i] = t[i]
      <4>1. Len(a) + i \in 1..Len(c) /\ i \in 1..(Len(s) - Len(a))
        BY <1>1, <1>2, <3>1
      <4> QED
        BY <1>3, <1>4, <2>1, <2>2, <4>1, Zenon
    <3> QED
      BY <3>1, <3>2
  <2> QED
    BY <1>4, <2>2, <2>3, PrefixAt, Zenon
<1>6. ASSUME IsPrefix(a, s), IsPrefix(b, t) PROVE IsPrefix(c, s)
  <2>1. Len(a) <= Len(s) /\ \A i \in 1..Len(a) : a[i] = s[i]
    BY <1>6, PrefixHas, Zenon
  <2>2. Len(b) <= Len(t) /\ \A i \in 1..Len(b) : b[i] = t[i]
    BY <1>4, <1>6, <2>1, PrefixHas, Zenon
  <2>3. Len(t) = Len(s) - Len(a)
    BY <1>4, <2>1, Zenon
  <2>4. Len(c) <= Len(s)
    BY <1>1, <1>2, <2>1, <2>2, <2>3
  <2>5. ASSUME NEW i \in 1..Len(c) PROVE c[i] = s[i]
    <3>1. CASE i <= Len(a)
      <4>1. i \in 1..Len(a)
        BY <1>1, <1>2, <3>1
      <4> QED
        BY <1>3, <2>1, <4>1, Zenon
    <3>2. CASE i > Len(a)
      <4>1. i - Len(a) \in 1..Len(b) /\ i - Len(a) \in 1..(Len(s) - Len(a)) /\ Len(a) + (i - Len(a)) = i
        BY <1>1, <1>2, <2>2, <2>3, <3>2
      <4>2. c[Len(a) + (i - Len(a))] = b[i - Len(a)] /\ t[i - Len(a)] = s[Len(a) + (i - Len(a))]
        BY <1>3, <1>4, <2>1, <4>1, Zenon
      <4>3. b[i - Len(a)] = t[i - Len(a)]
        BY <2>2, <4>1, Zenon
      <4> QED
        BY <4>1, <4>2, <4>3
    <3> QED
      BY <1>1, <1>2, <3>1, <3>2
  <2> QED
    BY <1>2, <2>4, <2>5, PrefixAt, Zenon
<1> QED
  BY <1>5, <1>6, Zenon DEF c, t

(* The authority of a string is what is before a place where it ends.      *)
LEMMA AuthorityIs ==
  ASSUME NEW s \in Seq(Symbols), NEW n \in 0..Len(s),
         \A i \in 1..n : s[i] \notin Delimiters, Ends(Skip(s, n))
  PROVE  AuthorityLen(s) = n
<1> DEFINE t == Skip(s, n)
<1>1. Len(s) \in Nat /\ n \in Nat /\ n <= Len(s)
  OBVIOUS
<1>2. t \in Seq(Symbols) /\ Len(t) = Len(s) - n /\ \A i \in 1..(Len(s) - n) : t[i] = s[n + i]
  BY SkipFacts, Zenon
<1>3. t = <<>> \/ t[1] \in Delimiters
  BY DEF Ends
<1> HIDE DEF t
<1>4. CASE t = <<>>
  <2>1. n = Len(s)
    BY <1>1, <1>2, <1>4
  <2>2. Marks(s) = {}
    BY <2>1 DEF Marks
  <2> QED
    BY <2>1, <2>2 DEF AuthorityLen
<1>5. CASE t # <<>>
  <2>1. n + 1 \in 1..Len(s) /\ t[1] = s[n + 1]
    BY <1>1, <1>2, <1>5
  <2>2. n + 1 \in Marks(s)
    BY <1>3, <1>5, <2>1 DEF Marks
  <2>3. \A j \in Marks(s) : j \in Nat /\ n + 1 <= j
    BY <1>1 DEF Marks
  <2> DEFINE least == CHOOSE i \in Marks(s) : \A j \in Marks(s) : i <= j
  <2>4. least \in Marks(s) /\ \A j \in Marks(s) : least <= j
    BY <2>2, <2>3
  <2> HIDE DEF least
  <2>5. least = n + 1
    BY <1>1, <2>2, <2>3, <2>4
  <2>6. Marks(s) # {}
    BY <2>2
  <2>7. AuthorityLen(s) = least - 1
    BY <2>6 DEF AuthorityLen, least
  <2> QED
    BY <1>1, <2>5, <2>7
<1> QED
  BY <1>4, <1>5

(* Every string has an authority, and it ends where it says.               *)
LEMMA AuthorityFacts ==
  ASSUME NEW s \in Seq(Symbols)
  PROVE  AuthorityLen(s) \in 0..Len(s) /\ Ends(Skip(s, AuthorityLen(s)))
<1>1. Len(s) \in Nat
  OBVIOUS
<1>2. CASE Marks(s) = {}
  <2>1. AuthorityLen(s) = Len(s)
    BY <1>2 DEF AuthorityLen
  <2>2. Skip(s, Len(s)) = <<>>
    BY <1>1 DEF Skip
  <2> QED
    BY <1>1, <2>1, <2>2 DEF Ends
<1>3. CASE Marks(s) # {}
  <2> DEFINE least == CHOOSE i \in Marks(s) : \A j \in Marks(s) : i <= j
  <2>1. Marks(s) \subseteq Nat
    BY DEF Marks
  <2>2. \E i \in Marks(s) : \A j \in Marks(s) : i <= j
    BY <1>3, <2>1, LeastNat, Zenon
  <2>3. least \in Marks(s)
    BY <2>2
  <2> HIDE DEF least
  <2>4. AuthorityLen(s) = least - 1
    BY <1>3 DEF AuthorityLen, least
  <2>5. least \in 1..Len(s) /\ s[least] \in Delimiters
    BY <2>3 DEF Marks
  <2>6. least - 1 \in 0..Len(s) /\ 1 \in 1..(Len(s) - (least - 1)) /\ (least - 1) + 1 = least
    BY <1>1, <2>5
  <2>7. Skip(s, least - 1)[1] = s[(least - 1) + 1]
    BY <2>6, SkipFacts, Zenon
  <2> QED
    BY <2>4, <2>5, <2>6, <2>7 DEF Ends
<1> QED
  BY <1>2, <1>3

(* To have the authority a is to start with it and to end there.           *)
LEMMA Named ==
  ASSUME NEW a \in NameSet, NEW s \in Seq(Symbols)
  PROVE  /\ Authority(s) = a <=> IsPrefix(a, s) /\ Ends(Skip(s, Len(a)))
         /\ Authority(s) = a => PathOf(s) = Skip(s, Len(a))
<1> DEFINE n == AuthorityLen(s)
<1>1. a \in Seq(Symbols) /\ \A i \in 1..Len(a) : a[i] \notin Delimiters
  BY DEF NameSet
<1>2. Len(a) \in Nat /\ Len(s) \in Nat
  BY <1>1
<1>3. n \in 0..Len(s) /\ Ends(Skip(s, n))
  BY AuthorityFacts, Zenon
<1>4. ASSUME NEW m \in 0..Len(s)
      PROVE  /\ SubSeq(s, 1, m) \in Seq(Symbols) /\ Len(SubSeq(s, 1, m)) = m
             /\ \A i \in 1..m : SubSeq(s, 1, m)[i] = s[i]
  <2>1. m \in Nat /\ m <= Len(s)
    BY <1>2
  <2> QED
    BY <2>1
<1> HIDE DEF n
<1>5. ASSUME Authority(s) = a PROVE n = Len(a) /\ IsPrefix(a, s)
  <2>1. a = SubSeq(s, 1, n)
    BY <1>5 DEF Authority, n
  <2>2. Len(a) = n /\ \A i \in 1..n : a[i] = s[i]
    BY <1>3, <1>4, <2>1, Zenon
  <2>3. Len(a) <= Len(s)
    BY <1>2, <1>3, <2>2
  <2> QED
    BY <1>1, <2>2, <2>3, PrefixAt, Zenon
<1>6. ASSUME IsPrefix(a, s), Ends(Skip(s, Len(a))) PROVE Authority(s) = a
  <2>1. Len(a) <= Len(s) /\ \A i \in 1..Len(a) : a[i] = s[i]
    BY <1>1, <1>6, PrefixHas, Zenon
  <2>2. Len(a) \in 0..Len(s)
    BY <1>2, <2>1
  <2>3. \A i \in 1..Len(a) : s[i] \notin Delimiters
    BY <1>1, <2>1, Zenon
  <2>4. n = Len(a)
    BY <1>6, <2>2, <2>3, AuthorityIs, Zenon DEF n
  <2>5. /\ SubSeq(s, 1, Len(a)) \in Seq(Symbols) /\ Len(SubSeq(s, 1, Len(a))) = Len(a)
        /\ \A i \in 1..Len(a) : SubSeq(s, 1, Len(a))[i] = a[i]
    <3>1. \A i \in 1..Len(a) : s[i] = a[i]
      BY <2>1
    <3> QED
      BY <1>4, <2>2, <3>1, Zenon
  <2>6. SubSeq(s, 1, Len(a)) = a
    BY <1>1, <2>5, SameSeq, Zenon
  <2> QED
    BY <2>4, <2>6 DEF Authority, n
<1> QED
  BY <1>3, <1>5, <1>6, Zenon DEF PathOf, n

(* A name, with the port behind it, is a name.                             *)
LEMMA PortName ==
  ASSUME pc \in ProxySet
  PROVE  /\ pc.host \in NameSet /\ pc.proxy_port \in NameSet
         /\ pc.host \in Seq(Symbols) /\ pc.proxy_port \in Seq(Symbols)
         /\ WithPort(pc.host) \in NameSet
         /\ Len(WithPort(pc.host)) = Len(pc.host) + 1 + Len(pc.proxy_port)
<1>1. pc.host \in NameSet /\ pc.proxy_port \in NameSet
  BY DEF ProxySet
<1>2. ":" \in Symbols \ Delimiters
  <2>1. ":" \in Symbols
    BY DEF Symbols
  <2>2. ":" \notin Delimiters
    BY DEF Delimiters
  <2> QED
    BY <2>1, <2>2, Zenon
<1>3. <<":">> \in NameSet
  BY <1>2 DEF NameSet
<1>4. pc.host \o <<":">> \in NameSet /\ Len(pc.host \o <<":">>) = Len(pc.host) + 1
  BY <1>1, <1>3 DEF NameSet
<1>5. /\ WithPort(pc.host) \in NameSet
      /\ Len(WithPort(pc.host)) = Len(pc.host \o <<":">>) + Len(pc.proxy_port)
  BY <1>1, <1>4, ConcatType, Zenon DEF NameSet, WithPort
<1>6. pc.host \in Seq(Symbols) /\ pc.proxy_port \in Seq(Symbols)
  BY <1>1 DEF NameSet
<1> QED
  BY <1>1, <1>4, <1>5, <1>6

(* What proxy_resurl compares, symbol by symbol, is whether the authority  *)
(* is SERVER_NAME, alone or with the port; what is left is the path.       *)
LEMMA ComparesAuthority ==
  ASSUME pc \in ProxySet, NEW s \in Seq(Symbols)
  PROVE  LET tmp == Skip(s, Len(pc.host))
             ours == IsPrefix(pc.host, s) /\ Portok(tmp)
         IN  /\ ours <=> Authority(s) \in {pc.host, WithPort(pc.host)}
             /\ ours => BehindPort(tmp) = PathOf(s)
<1> DEFINE h == pc.host
           p == pc.proxy_port
           tmp == Skip(s, Len(h))
           full == WithPort(h)
           colon == <<":">>
<1>1. /\ h \in NameSet /\ p \in NameSet /\ h \in Seq(Symbols) /\ p \in Seq(Symbols)
      /\ full \in NameSet /\ Len(full) = Len(h) + 1 + Len(p)
  BY PortName, Zenon
<1>2. full = (h \o colon) \o p
  BY DEF WithPort
<1>3. Len(h) \in Nat /\ Len(p) \in Nat /\ Len(s) \in Nat
  BY <1>1
<1>4. /\ Authority(s) = h <=> IsPrefix(h, s) /\ Ends(tmp)
      /\ Authority(s) = h => PathOf(s) = tmp
  BY <1>1, Named, Zenon
<1>5. /\ Authority(s) = full <=> IsPrefix(full, s) /\ Ends(Skip(s, Len(full)))
      /\ Authority(s) = full => PathOf(s) = Skip(s, Len(full))
  BY <1>1, Named, Zenon
<1>6. colon \in Seq(Symbols) /\ Len(colon) = 1 /\ colon[1] = ":"
  <2>1. ":" \in Symbols
    BY DEF Symbols
  <2> QED
    BY <2>1
<1>7. h \o colon \in Seq(Symbols) /\ Len(h \o colon) = Len(h) + 1
  BY <1>1, <1>6
<1> HIDE DEF h, p, full, colon
<1>8. IsPrefix(full, s)
        <=> IsPrefix(h, s) /\ IsPrefix(colon, tmp)
            /\ IsPrefix(p, Skip(s, Len(h) + 1))
  <2>1. IsPrefix(full, s)
          <=> IsPrefix(h \o colon, s) /\ IsPrefix(p, Skip(s, Len(h \o colon)))
    BY <1>1, <1>2, <1>7, PrefixConcat, Zenon
  <2>2. IsPrefix(h \o colon, s) <=> IsPrefix(h, s) /\ IsPrefix(colon, tmp)
    BY <1>1, <1>6, PrefixConcat, Zenon
  <2> QED
    BY <1>7, <2>1, <2>2, Zenon
<1>9. CASE ~IsPrefix(h, s)
  BY <1>4, <1>5, <1>8, <1>9, Zenon DEF h, full
<1>10. CASE IsPrefix(h, s)
  <2>1. Len(h) \in 0..Len(s)
    <3>1. Len(h) <= Len(s)
      BY <1>1, <1>10, PrefixAt, Zenon
    <3> QED
      BY <1>3, <3>1
  <2>2. tmp \in Seq(Symbols) /\ Len(tmp) = Len(s) - Len(h)
    BY <2>1, SkipFacts, Zenon
  <2> HIDE DEF tmp
  <2>3. CASE Ends(tmp)
    <3>1. Portok(tmp) /\ BehindPort(tmp) = tmp
      BY <2>3 DEF Portok, BehindPort
    <3> QED
      BY <1>4, <1>10, <2>3, <3>1, Zenon DEF h, tmp
  <2>4. CASE ~Ends(tmp)
    <3>1. tmp # <<>>
      BY <2>4 DEF Ends
    <3>2. Len(tmp) \in Nat /\ Len(tmp) >= 1 /\ 1 + Len(h) <= Len(s)
      BY <1>3, <2>1, <2>2, <3>1
    <3>3. IsPrefix(colon, tmp) <=> tmp[1] = ":"
      <4>1. ASSUME IsPrefix(colon, tmp) PROVE tmp[1] = ":"
        <5>1. \A i \in 1..Len(colon) : colon[i] = tmp[i]
          BY <1>6, <2>2, <4>1, PrefixHas, Zenon
        <5> QED
          BY <1>6, <5>1
      <4>2. ASSUME tmp[1] = ":" PROVE IsPrefix(colon, tmp)
        <5>1. Len(colon) <= Len(tmp) /\ \A i \in 1..Len(colon) : colon[i] = tmp[i]
          BY <1>6, <3>2, <4>2
        <5> QED
          BY <1>6, <2>2, <5>1, PrefixAt, Zenon
      <4> QED
        BY <4>1, <4>2
    <3>4. Tail(tmp) = Skip(tmp, 1)
      BY <2>2, <3>1 DEF Skip
    <3>5. Skip(tmp, 1) = Skip(s, Len(h) + 1)
      BY <1>3, <3>2, SkipSkip DEF tmp
    <3>6. ASSUME IsPrefix(p, Tail(tmp))
          PROVE  Skip(tmp, 1 + Len(p)) = Skip(s, Len(full))
      <4>1. Skip(tmp, 1) \in Seq(Symbols) /\ Len(Skip(tmp, 1)) = Len(tmp) - 1
        <5>1. 1 \in 0..Len(tmp)
          BY <3>2
        <5> QED
          BY <2>2, <5>1, SkipFacts, Zenon
      <4>2. Len(p) <= Len(tmp) - 1
        BY <1>1, <3>4, <3>6, <4>1, PrefixAt
      <4>3. Len(h) + (1 + Len(p)) <= Len(s) /\ 1 + Len(p) \in Nat
        BY <1>3, <2>2, <3>2, <4>2
      <4>4. Skip(tmp, 1 + Len(p)) = Skip(s, Len(h) + (1 + Len(p)))
        BY <1>3, <4>3, SkipSkip DEF tmp
      <4>5. Len(full) = Len(h) + (1 + Len(p))
        BY <1>1, <1>3
      <4> QED
        BY <4>4, <4>5
    <3>7. Portok(tmp) <=> /\ tmp[1] = ":" /\ IsPrefix(p, Tail(tmp))
                          /\ Ends(Skip(tmp, 1 + Len(p)))
      BY <2>4 DEF Portok, p
    <3>8. BehindPort(tmp) = Skip(tmp, 1 + Len(p))
      BY <2>4 DEF BehindPort, p
    <3>9. Portok(tmp) <=> Authority(s) = full
      BY <1>5, <1>8, <1>10, <3>3, <3>4, <3>5, <3>6, <3>7, Zenon
    <3>10. Portok(tmp) => BehindPort(tmp) = PathOf(s)
      BY <1>5, <3>6, <3>7, <3>8, <3>9, Zenon
    <3>11. Authority(s) # h
      BY <1>4, <2>4, Zenon DEF tmp
    <3> QED
      BY <1>10, <3>9, <3>10, <3>11, Zenon DEF h, tmp, full
  <2> QED
    BY <2>3, <2>4, Zenon
<1> QED
  BY <1>9, <1>10, Zenon

(* What is written below the script name is found there.                   *)
LEMMA BelowScript ==
  ASSUME NEW path \in Seq(Symbols), Rooted(path)
  PROVE  /\ Followed(Ref("", Script \o Tail(path))) = InCapsule(path)
         /\ Len(Script \o Tail(path)) = Len(Script) + Len(path) - 1
<1> DEFINE r == Tail(path)
           x == Script \o r
<1>1. Script \in Seq(Symbols)
  BY GemtextAssumption
<1>2. path # <<>> /\ path[1] = "/"
  BY DEF Rooted
<1>3. r \in Seq(Symbols) /\ Len(r) = Len(path) - 1 /\ \A i \in 1..Len(r) : r[i] = path[i + 1]
  BY <1>2
<1>4. Len(Script) \in Nat /\ Len(r) \in Nat
  BY <1>1, <1>3
<1> HIDE DEF r
<1>5. x \in Seq(Symbols) /\ Len(x) = Len(Script) + Len(r)
  BY <1>1, <1>3, ConcatType
<1>6. /\ \A i \in 1..Len(Script) : x[i] = Script[i]
      /\ \A i \in 1..Len(r) : x[Len(Script) + i] = r[i]
  BY <1>1, <1>3, <1>4
<1> HIDE DEF x
<1>7. IsPrefix(Script, x)
  <2>1. Len(Script) <= Len(x) /\ \A i \in 1..Len(Script) : Script[i] = x[i]
    BY <1>4, <1>5, <1>6
  <2> QED
    BY <1>1, <1>5, <2>1, PrefixAt, Zenon
<1>8. Skip(x, Len(Script)) = r
  <2> DEFINE y == Skip(x, Len(Script))
  <2>1. Len(Script) \in 0..Len(x)
    BY <1>4, <1>5
  <2>2. /\ y \in Seq(Symbols) /\ Len(y) = Len(x) - Len(Script)
        /\ \A i \in 1..(Len(x) - Len(Script)) : y[i] = x[Len(Script) + i]
    BY <1>5, <2>1, SkipFacts, Zenon
  <2> HIDE DEF y
  <2>3. Len(y) = Len(r) /\ \A i \in 1..Len(r) : y[i] = r[i]
    BY <1>4, <1>5, <1>6, <2>2
  <2>4. y = r
    BY <1>3, <2>2, <2>3, SameSeq, Zenon
  <2> QED
    BY <2>4 DEF y
<1>9. <<"/">> \o r = path
  <2> DEFINE y == <<"/">> \o r
  <2>1. y \in Seq(Symbols) /\ Len(y) = Len(path) /\ \A i \in 1..Len(path) : y[i] = path[i]
    BY <1>2, <1>3
  <2> HIDE DEF y
  <2>2. y = path
    BY <2>1, SameSeq, Zenon
  <2> QED
    BY <2>2 DEF y
<1>10. Followed(Ref("", x)) = InCapsule(path)
  BY <1>7, <1>8, <1>9, Zenon DEF Followed, Ref
<1>11. Len(x) = Len(Script) + Len(path) - 1
  BY <1>3, <1>4, <1>5
<1> QED
  BY <1>10, <1>11 DEF x, r

(* A link that is rewritable fits the buffer.                              *)
LEMMA FitsBuffer ==
  ASSUME NEW path \in Seq(Symbols), Rewritable(path)
  PROVE  ~(Len(Script \o Tail(path)) + 0 >= BufSize)
<1>1. Rooted(path) /\ Len(Script) + Len(path) - 1 < BufSize
  BY DEF Rewritable
<1>2. Len(Script \o Tail(path)) = Len(Script) + Len(path) - 1
  BY <1>1, BelowScript, Zenon
<1>3. Script \in Seq(Symbols) /\ BufSize \in Nat
  BY GemtextAssumption, Zenon
<1>4. Len(Script) \in Nat /\ Len(path) \in Nat
  BY <1>3
<1> QED
  BY <1>1, <1>2, <1>3, <1>4

(* What does not begin with a slash is not below the script name.          *)
LEMMA NotBelow ==
  ASSUME NEW s \in Seq(Symbols), ~Rooted(s)
  PROVE  ~IsPrefix(Script, s)
<1> SUFFICES ASSUME IsPrefix(Script, s) PROVE FALSE
  OBVIOUS
<1>1. Script \in Seq(Symbols) /\ Script # <<>> /\ Script[1] = "/"
  BY GemtextAssumption, Zenon DEF Rooted
<1>2. Len(Script) <= Len(s) /\ \A i \in 1..Len(Script) : Script[i] = s[i]
  BY <1>1, PrefixHas, Zenon
<1>3. Len(Script) \in Nat /\ Len(Script) >= 1 /\ 1 \in 1..Len(Script)
  BY <1>1
<1>4. s[1] = "/" /\ s # <<>>
  BY <1>1, <1>2, <1>3
<1> QED
  BY <1>4 DEF Rooted

(* What proxy_resurl makes of a link.                                      *)
LEMMA ResurlRight ==
  ASSUME pc \in ProxySet, NEW u \in UrlSet, NEW beyond \in Seq(Symbols), pc' = pc,
         href' = [url |-> u, to |-> ProxyResurl(u, beyond)]
  PROVE  LinkRight'
<1> DEFINE t == ProxyResurl(u, beyond)
           path == IF u.scheme = "" THEN u.rest ELSE PathOf(u.rest)
           local == u.scheme = "" /\ (u.rest = <<>> \/ Rooted(u.rest))
           tmp == Skip(u.rest, Len(pc.host))
           below == Ref("", Script \o Tail(path))
<1>1. /\ u.scheme \in {"", "//", "gemini://", "other://"} /\ u.rest \in Seq(Symbols)
      /\ u = Ref(u.scheme, u.rest)
  BY DEF UrlSet, Ref
<1>2. /\ WebName(u) <=> /\ u.scheme \in {"//", "gemini://"}
                        /\ IsPrefix(pc.host, u.rest) /\ Portok(tmp)
      /\ WebName(u) => BehindPort(tmp) = PathOf(u.rest)
  BY <1>1, ComparesAuthority, Zenon DEF WebName
<1>3. path \in Seq(Symbols)
  <2>1. PathOf(u.rest) \in Seq(Symbols)
    <3>1. AuthorityLen(u.rest) \in 0..Len(u.rest)
      BY <1>1, AuthorityFacts, Zenon
    <3> QED
      BY <1>1, <3>1, SkipFacts, Zenon DEF PathOf
  <2> QED
    BY <1>1, <2>1
<1>4. u.scheme # "" /\ ~WebName(u) => t = u
  <2>1. u.scheme # "" /\ ~WebName(u) => Rewritten(u, beyond) = u
    BY <1>2 DEF Rewritten
  <2> QED
    BY <2>1 DEF ProxyResurl
<1>5. (WebName(u) \/ u.scheme = "") /\ Rewritable(path)
        => t.scheme = "" /\ Followed(t) = InCapsule(path)
  <2> SUFFICES ASSUME WebName(u) \/ u.scheme = "", Rewritable(path)
               PROVE  t.scheme = "" /\ Followed(t) = InCapsule(path)
    OBVIOUS
  <2>1. Rooted(path) /\ path # <<>> /\ Len(Script) + Len(path) - 1 < BufSize
    BY DEF Rewritable, Rooted
  <2>2. Rewritten(u, beyond) = below
    BY <1>2, <2>1 DEF Rewritten, WebName
  <2>3. /\ Followed(below) = InCapsule(path)
        /\ Len(Script \o Tail(path)) = Len(Script) + Len(path) - 1
    BY <1>3, <2>1, BelowScript, Zenon
  <2>4. ~ResurlFails(u, beyond)
    <3>1. below.scheme = "" /\ below.rest = Script \o Tail(path)
      BY DEF Ref
    <3>2. ResurlFails(u, beyond) <=> Len(below.rest) + 0 >= BufSize
      BY <2>2, <3>1, Zenon DEF ResurlFails
    <3> QED
      BY <1>3, <3>1, <3>2, FitsBuffer, Zenon
  <2>5. t = below
    BY <2>2, <2>4, Zenon DEF ProxyResurl
  <2>6. below.scheme = ""
    BY DEF Ref
  <2> QED
    BY <2>3, <2>5, <2>6, Zenon
<1>6. ASSUME ~WebName(u), u.scheme # "//", local => Rewritable(path)
      PROVE  Followed(t) = Meant(u)
  <2>1. CASE u.scheme \in {"gemini://", "other://"}
    BY <1>4, <1>6, <2>1 DEF Followed, Meant
  <2>2. CASE u.scheme = "" /\ local
    <3>1. Followed(t) = InCapsule(u.rest)
      BY <1>5, <1>6, <2>2
    <3>2. Rooted(u.rest)
      BY <1>6, <2>2 DEF Rewritable
    <3> QED
      BY <2>2, <3>1, <3>2 DEF Meant
  <2>3. CASE u.scheme = "" /\ ~local
    <3>1. u.rest # <<>> /\ ~Rooted(u.rest)
      BY <2>3
    <3>2. Rewritten(u, beyond) = u
      BY <1>1, <2>3, <3>1 DEF Rewritten
    <3>3. t = u
      BY <3>2 DEF ProxyResurl
    <3>4. ~IsPrefix(Script, u.rest)
      BY <1>1, <3>1, NotBelow, Zenon
    <3>5. Followed(u) = <<"page", u.rest>> /\ Meant(u) = <<"page", u.rest>>
      BY <2>3, <3>1, <3>4 DEF Followed, Meant
    <3> QED
      BY <3>3, <3>5
  <2> QED
    BY <1>1, <1>6, <2>1, <2>2, <2>3
<1>7. /\ WebName(u) /\ Rewritable(path) => t.scheme = "" /\ Followed(t) = InCapsule(path)
      /\ u.scheme \in {"//", "gemini://", "other://"} /\ ~WebName(u) => t = u
      /\ ~WebName(u) /\ u.scheme # "//" /\ (local => Rewritable(path)) => Followed(t) = Meant(u)
  BY <1>4, <1>5, <1>6
<1>8. href'.url = u /\ href'.to = t
  OBVIOUS
<1> HIDE DEF t
<1> QED
  BY <1>7, <1>8 DEF LinkRight, WebName, Followed, Meant, OnGemini, IsCapsule, WithPort

(* A link that stays as it is stays right.                                 *)
LEMMA LinkStays ==
  ASSUME LinkRight, UNCHANGED <<pc, href>>
  PROVE  LinkRight'
BY DEF LinkRight, WebName, Followed, Meant, OnGemini, IsCapsule, WithPort

-----------------------------------------------------------------------------

(* Before the header is read there is no page and no link.                 *)
LEMMA InitIInv == Init => IInv
<1> SUFFICES ASSUME Init PROVE IInv
  OBVIOUS
<1> DEFINE s == <<"#">>
<1>1. href.url = Ref("", s) /\ href.to = Ref("", s)
  BY DEF Init, None
<1>2. Ref("", s).scheme = "" /\ Ref("", s).rest = s
  BY DEF Ref
<1>3. ~Rooted(s) /\ s # <<>>
  BY DEF Rooted
<1>4. ~IsPrefix(Script, s)
  <2>1. "#" \in Symbols
    BY DEF Symbols, Delimiters
  <2>2. s \in Seq(Symbols)
    BY <2>1
  <2> QED
    BY <1>3, <2>2, NotBelow, Zenon
<1> HIDE DEF s
<1>5. LinkRight
  <2>1. Followed(Ref("", s)) = <<"page", s>> /\ Meant(Ref("", s)) = <<"page", s>>
    BY <1>2, <1>3, <1>4 DEF Followed, Meant
  <2> QED
    BY <1>1, <1>2, <1>3, <2>1 DEF LinkRight, WebName
<1> QED
  BY <1>5 DEF Init, IInv, PageClosed

(* Every step keeps the invariant.                                         *)
LEMMA NextIInv == IInv /\ [Next]_vars => IInv'
<1> SUFFICES ASSUME IInv, [Next]_vars PROVE IInv'
  OBVIOUS
<1> DEFINE rest == /\ phase' = "header" => page' = "none"
                   /\ phase' = "body" /\ page' = "html" => cur' \in Shapes
                   /\ PageClosed'
<1>1. pc' = pc
  BY DEF Next, ReadHeader, ReadLine, ReadPartial, ProxyError, WriteFails, vars
<1>2. pc \in Proxies /\ pc \in ProxySet
  BY GemtextAssumption DEF IInv
<1>3. SUFFICES rest /\ LinkRight'
  BY <1>1, <1>2 DEF IInv
<1>4. ASSUME NEW r \in Replies, ReadHeader(r) PROVE rest /\ LinkRight'
  <2>1. phase = "header" /\ page = "none"
    BY <1>4 DEF ReadHeader, IInv
  <2>2. LinkRight'
    <3>1. CASE r.code = "3" /\ ~ResurlFails(r.url, r.beyond)
      <4>1. r.url \in UrlSet /\ r.beyond \in Seq(Symbols)
        BY <3>1, GemtextAssumption DEF Replies
      <4>2. href' = [url |-> r.url, to |-> ProxyResurl(r.url, r.beyond)]
        BY <1>4, <3>1, Zenon DEF ReadHeader
      <4> QED
        BY <1>1, <1>2, <4>1, <4>2, ResurlRight, Zenon
    <3>2. CASE ~(r.code = "3" /\ ~ResurlFails(r.url, r.beyond))
      <4>1. href' = href
        BY <1>4, <3>2, Zenon DEF ReadHeader
      <4> QED
        BY <1>1, <4>1, LinkStays DEF IInv
    <3> QED
      BY <3>1, <3>2
  <2>3. \/ phase' = "ended" /\ page' \in {"other", "error"}
        \/ phase' = "body" /\ page' \in {"html", "raw"} /\ (page' = "html" => cur' = Head0)
    BY <1>4 DEF ReadHeader, Ended
  <2> QED
    BY <2>2, <2>3 DEF PageClosed, Shapes
<1>5. ASSUME NEW line \in Lines, ReadLine(line) PROVE rest /\ LinkRight'
  <2>1. cur' \in Shapes
    BY <1>5, TranslateKeepsShape DEF ReadLine, IInv
  <2>2. LinkRight'
    <3>1. CASE line.kind = "link" /\ "PRE" \notin cur.tr
      <4>1. line.url \in UrlSet /\ line.beyond \in Seq(Symbols)
        BY <3>1, GemtextAssumption, Zenon DEF Lines, Kinds
      <4>2. href' = [url |-> line.url, to |-> ProxyResurl(line.url, line.beyond)]
        BY <1>5, <3>1, Zenon DEF ReadLine
      <4> QED
        BY <1>1, <1>2, <4>1, <4>2, ResurlRight, Zenon
    <3>2. CASE ~(line.kind = "link" /\ "PRE" \notin cur.tr)
      <4>1. href' = href
        BY <1>5, <3>2, Zenon DEF ReadLine
      <4> QED
        BY <1>1, <4>1, LinkStays DEF IInv
    <3> QED
      BY <3>1, <3>2
  <2> QED
    BY <1>5, <2>1, <2>2 DEF ReadLine, PageClosed
<1>6. CASE ReadPartial
  BY <1>1, <1>6, LinkStays DEF ReadPartial, IInv, PageClosed
<1>7. ASSUME NEW eof \in BOOLEAN, ProxyError(eof) PROVE rest /\ LinkRight'
  <2>1. phase' = "ended" /\ LinkRight'
    BY <1>1, <1>7, LinkStays DEF ProxyError, IInv
  <2>2. page' = "html" => cur'.tr = {} /\ cur'.doc = Empty
    <3> SUFFICES ASSUME page' = "html" PROVE cur'.tr = {} /\ cur'.doc = Empty
      OBVIOUS
    <3>1. phase = "body" /\ page = "html" /\ cur' = Finish(cur)
      BY <1>7 DEF ProxyError
    <3> QED
      BY <3>1, FinishCloses DEF IInv
  <2> QED
    BY <2>1, <2>2 DEF PageClosed
<1>8. CASE WriteFails
  BY <1>1, <1>8, LinkStays DEF WriteFails, IInv, PageClosed
<1>9. CASE UNCHANGED vars
  BY <1>1, <1>9, LinkStays DEF vars, IInv, PageClosed
<1> QED
  BY <1>4, <1>5, <1>6, <1>7, <1>8, <1>9 DEF Next

(* In each situation the open elements are those of the flags.             *)
LEMMA ShapesNested == IInv => WellNested
<1> SUFFICES ASSUME IInv, phase = "body", page = "html"
             PROVE  cur.tr \in {{}, {"LIST"}, {"NAV"}, {"PRE"}} /\ cur.doc = OpenFor(cur.tr)
  BY DEF WellNested
<1>1. cur \in Shapes
  BY DEF IInv
<1>2. Head0.tr = {} /\ InList.tr = {"LIST"} /\ InNav.tr = {"NAV"} /\ InPre.tr = {"PRE"}
  BY HeadDoc DEF InList, InNav, InPre
<1>3. OpenFor({}) = Head0.doc
  BY DEF OpenFor
<1>4. OpenFor({"LIST"}) = InList.doc
  BY DEF OpenFor, InList
<1>5. OpenFor({"NAV"}) = InNav.doc
  <2>1. {"NAV"} # {"LIST"}
    OBVIOUS
  <2> QED
    BY <2>1 DEF OpenFor, InNav
<1>6. OpenFor({"PRE"}) = InPre.doc
  <2>1. {"PRE"} # {"LIST"} /\ {"PRE"} # {"NAV"}
    OBVIOUS
  <2> QED
    BY <2>1 DEF OpenFor, InPre
<1> QED
  BY <1>1, <1>2, <1>3, <1>4, <1>5, <1>6 DEF Shapes

(* gemtext_translate_line keeps the flags and the open elements in step    *)
(* and every element inside its parent, for every sequence of lines.       *)
THEOREM PagesWellNested == Spec => []WellNested
<1>1. Spec => []IInv
  BY InitIInv, NextIInv, PTL DEF Spec
<1> QED
  BY <1>1, ShapesNested, PTL

(* proxy_error completes every page that ends with the end of the reply.   *)
THEOREM PagesClosed == Spec => []PageClosed
<1>1. Spec => []IInv
  BY InitIInv, NextIInv, PTL DEF Spec
<1>2. IInv => PageClosed
  BY DEF IInv
<1> QED
  BY <1>1, <1>2, PTL

(* proxy_resurl, which compares strings symbol by symbol, rewrites exactly *)
(* the links whose authority is SERVER_NAME, with no port or the source's; *)
(* they and the local ones lead into the capsule, the others where they    *)
(* are meant to, whatever the names and ports of the proxy and the URLs.   *)
THEOREM LinksRight == Spec => []LinkRight
<1>1. Spec => []IInv
  BY InitIInv, NextIInv, PTL DEF Spec
<1>2. IInv => LinkRight
  BY DEF IInv
<1> QED
  BY <1>1, <1>2, PTL

-----------------------------------------------------------------------------
(***************************************************************************)
(* A page is shown as its callers meant it, for every size of the buffer   *)
(* and of the records, and every text.                                     *)
(*                                                                         *)
(* TpInv says that the records sent, joined, and the buffer are a page     *)
(* that a browser reads as meant, with no code left open.  Cutting and     *)
(* filling are loops, functions of the round they are in: their invariants *)
(* are CutOf and FillOf, and the bound of the loop follows from what is    *)
(* left decreasing by one at least in each round.                          *)
(***************************************************************************)

(* The recursive function behind Joined exists.                            *)
LEMMA JoiningExists ==
  ASSUME NEW ss, Len(ss) \in Nat
  PROVE  \E f : f = [i \in 0..Len(ss) |-> IF i = 0 THEN <<>> ELSE f[i - 1] \o ss[i]]
<1> DEFINE Cat(x, y) == x \o y
           E(k) == \E f : f = [i \in 0..k |-> IF i = 0 THEN <<>> ELSE Cat(f[i - 1], ss[i])]
           T == {k \in Nat : E(k)}
<1> HIDE DEF Cat
<1>1. E(0)
  <2> DEFINE f == [i \in 0..0 |-> <<>>]
  <2>1. f = [i \in 0..0 |-> IF i = 0 THEN <<>> ELSE Cat(f[i - 1], ss[i])]
    OBVIOUS
  <2> QED
    BY <2>1, Zenon
<1>2. ASSUME NEW k \in Nat, E(k) PROVE E(k + 1)
  <2>1. PICK f : f = [i \in 0..k |-> IF i = 0 THEN <<>> ELSE Cat(f[i - 1], ss[i])]
    BY <1>2, Zenon
  <2> DEFINE g == [i \in 0..(k + 1) |-> IF i = k + 1 THEN Cat(f[k], ss[k + 1]) ELSE f[i]]
  <2>2. g = [i \in 0..(k + 1) |-> IF i = 0 THEN <<>> ELSE Cat(g[i - 1], ss[i])]
    BY <2>1
  <2> QED
    BY <2>2, Zenon
<1> HIDE DEF E
<1>3. 0 \in T /\ \A n \in Nat : n \in T => n + 1 \in T
  BY <1>1, <1>2
<1> HIDE DEF T
<1>4. Nat \subseteq T
  BY <1>3, AllNat
<1>5. E(Len(ss))
  BY <1>4 DEF T
<1> QED
  BY <1>5, Zenon DEF E, Cat

(* What it is: each sequence is joined to the ones before it.              *)
LEMMA JoiningDef ==
  ASSUME NEW ss, Len(ss) \in Nat
  PROVE  /\ Joining(ss)[0] = <<>>
         /\ \A i \in 1..Len(ss) : Joining(ss)[i] = Joining(ss)[i - 1] \o ss[i]
<1> DEFINE Cat(x, y) == x \o y
           j == Joining(ss)
<1>1. j = [i \in 0..Len(ss) |-> IF i = 0 THEN <<>> ELSE Cat(j[i - 1], ss[i])]
  BY JoiningExists, Zenon DEF Joining
<1> HIDE DEF Cat, j
<1>2. j[0] = <<>> /\ \A i \in 1..Len(ss) : j[i] = Cat(j[i - 1], ss[i])
  BY <1>1
<1> QED
  BY <1>2, Zenon DEF Cat, j

(* Joining no sequence gives nothing.                                      *)
LEMMA JoinedEmpty == Joined(<<>>) = <<>>
<1>1. Len(<<>>) = 0
  OBVIOUS
<1>2. Len(<<>>) \in Nat
  OBVIOUS
<1>3. Joining(<<>>)[0] = <<>>
  BY <1>2, JoiningDef, Zenon
<1> QED
  BY <1>1, <1>3, Zenon DEF Joined

(* The sequences of a sequence, put together, are one; and what is added   *)
(* to the one is added to the other.                                       *)
LEMMA JoinedType ==
  ASSUME NEW S, NEW ss \in Seq(Seq(S))
  PROVE  Joined(ss) \in Seq(S)
<1> DEFINE f == Joining(ss)
           T == {k \in Nat : k \in 0..Len(ss) => f[k] \in Seq(S)}
<1>1. Len(ss) \in Nat /\ \A i \in 1..Len(ss) : ss[i] \in Seq(S)
  OBVIOUS
<1>2. f[0] = <<>> /\ \A i \in 1..Len(ss) : f[i] = f[i - 1] \o ss[i]
  BY <1>1, JoiningDef, Zenon
<1> HIDE DEF f
<1>3. 0 \in T
  <2>1. f[0] \in Seq(S)
    BY <1>2
  <2> QED
    BY <2>1, Zenon
<1>4. ASSUME NEW k \in Nat, k \in T PROVE k + 1 \in T
  <2> SUFFICES ASSUME k + 1 \in 0..Len(ss) PROVE f[k + 1] \in Seq(S)
    OBVIOUS
  <2>1. k + 1 \in 1..Len(ss) /\ (k + 1) - 1 = k /\ f[k] \in Seq(S)
    BY <1>1, <1>4
  <2>2. f[k + 1] = f[k] \o ss[k + 1]
    BY <1>2, <2>1, Zenon
  <2>3. ss[k + 1] \in Seq(S)
    BY <1>1, <2>1, Zenon
  <2> QED
    BY <2>1, <2>2, <2>3, ConcatType
<1>5. Nat \subseteq T
  <2> HIDE DEF T
  <2> QED
    BY <1>3, <1>4, AllNat, Zenon
<1>6. f[Len(ss)] \in Seq(S)
  BY <1>1, <1>5
<1> QED
  BY <1>6, Zenon DEF Joined, f

(* One more record is joined at the end.                                   *)
LEMMA JoinedAppend ==
  ASSUME NEW S, NEW ss \in Seq(Seq(S)), NEW x \in Seq(S)
  PROVE  Joined(Append(ss, x)) = Joined(ss) \o x
<1> DEFINE tt == Append(ss, x)
           n == Len(ss)
           Cat(a, b) == a \o b
           f == Joining(ss)
           g == Joining(tt)
           T == {k \in Nat : k \in 0..n => f[k] = g[k]}
<1>1. /\ n \in Nat /\ Len(tt) = n + 1 /\ Len(tt) \in Nat /\ tt[n + 1] = x
      /\ \A i \in 1..n : tt[i] = ss[i]
  OBVIOUS
<1> HIDE DEF tt
<1>2. f[0] = <<>> /\ \A i \in 1..n : f[i] = Cat(f[i - 1], ss[i])
  BY <1>1, JoiningDef, Zenon
<1>3. g[0] = <<>> /\ \A i \in 1..(n + 1) : g[i] = Cat(g[i - 1], tt[i])
  BY <1>1, JoiningDef, Zenon
<1> HIDE DEF f, g, n, Cat
<1>4. 0 \in T
  BY <1>2, <1>3
<1>5. ASSUME NEW k \in Nat, k \in T PROVE k + 1 \in T
  BY <1>1, <1>2, <1>3, <1>5
<1>6. Nat \subseteq T
  <2> HIDE DEF T
  <2> QED
    BY <1>4, <1>5, AllNat, Zenon
<1>7. f[n] = g[n]
  BY <1>1, <1>6
<1>8. g[n + 1] = Cat(f[n], x)
  BY <1>1, <1>3, <1>7
<1> QED
  BY <1>1, <1>8, Zenon DEF Joined, f, g, tt, n, Cat

(* Joining the records of two writes is joining what each of them joins.   *)
LEMMA JoinedConcat ==
  ASSUME NEW S, NEW ss \in Seq(Seq(S)), NEW tt \in Seq(Seq(S))
  PROVE  Joined(ss \o tt) = Joined(ss) \o Joined(tt)
<1> DEFINE F(k) == SubSeq(tt, 1, k)
           T == {k \in Nat : k \in 0..Len(tt) =>
                    Joined(ss \o F(k)) = Joined(ss) \o Joined(F(k))}
<1>1. Len(tt) \in Nat /\ \A i \in 1..Len(tt) : tt[i] \in Seq(S)
  OBVIOUS
<1>2. 0 \in T
  <2>1. F(0) = <<>> /\ ss \o F(0) = ss
    OBVIOUS
  <2>2. Joined(ss) \o <<>> = Joined(ss)
    BY JoinedType
  <2>3. Joined(ss \o F(0)) = Joined(ss) \o Joined(F(0))
    BY <2>1, <2>2, JoinedEmpty, Zenon
  <2> QED
    BY <2>3
<1>3. ASSUME NEW k \in Nat, k \in T PROVE k + 1 \in T
  <2> SUFFICES ASSUME k + 1 \in 0..Len(tt)
               PROVE  Joined(ss \o F(k + 1)) = Joined(ss) \o Joined(F(k + 1))
    OBVIOUS
  <2> DEFINE x == tt[k + 1]
  <2>1. k \in 0..Len(tt) /\ k + 1 \in 1..Len(tt) /\ x \in Seq(S)
    BY <1>1
  <2>2. F(k) \in Seq(Seq(S)) /\ Len(F(k)) = k /\ \A i \in 1..k : F(k)[i] = tt[i]
    BY <2>1
  <2>3. F(k + 1) = Append(F(k), x)
    <3>1. Len(F(k + 1)) = k + 1 /\ \A i \in 1..(k + 1) : F(k + 1)[i] = tt[i]
      BY <2>1
    <3> QED
      BY <2>1, <2>2, <3>1
  <2>4. F(k + 1) \in Seq(Seq(S))
    BY <2>1
  <2>5. Joined(ss \o F(k)) = Joined(ss) \o Joined(F(k))
    BY <1>3, <2>1
  <2> HIDE DEF F, x
  <2>6. ss \o F(k + 1) = Append(ss \o F(k), x) /\ ss \o F(k) \in Seq(Seq(S))
    <3>1. ss \o Append(F(k), x) = Append(ss \o F(k), x)
      <4>1. F(k) \in Seq(Seq(S)) /\ x \in Seq(S)
        BY <2>1, <2>2, Zenon
      <4> QED
        BY <4>1, ConcatAppend, SMTT(20)
    <3>2. ss \o F(k) \in Seq(Seq(S))
      BY <2>2, ConcatType, Zenon
    <3> QED
      BY <2>3, <3>1, <3>2, Zenon
  <2>7. Joined(ss \o F(k + 1)) = Joined(ss \o F(k)) \o x
    BY <2>1, <2>6, JoinedAppend, Zenon
  <2>8. Joined(F(k + 1)) = Joined(F(k)) \o x
    BY <2>1, <2>2, <2>3, JoinedAppend, Zenon
  <2>9. Joined(ss) \in Seq(S) /\ Joined(F(k)) \in Seq(S)
    BY <2>2, JoinedType, Zenon
  <2>10. (Joined(ss) \o Joined(F(k))) \o x = Joined(ss) \o (Joined(F(k)) \o x)
    <3> DEFINE A == Joined(ss)
               B == Joined(F(k))
    <3>1. A \in Seq(S) /\ B \in Seq(S) /\ x \in Seq(S)
      BY <2>1, <2>9, Zenon
    <3> HIDE DEF A, B
    <3>2. (A \o B) \o x = A \o (B \o x)
      BY <3>1, SMTT(20)
    <3> QED
      BY <3>2, Zenon DEF A, B
  <2> QED
    BY <2>5, <2>7, <2>8, <2>10, Zenon
<1>4. Nat \subseteq T
  <2> HIDE DEF T
  <2> QED
    BY <1>2, <1>3, AllNat, Zenon
<1>5. F(Len(tt)) = tt
  OBVIOUS
<1>6. Len(tt) \in T
  BY <1>1, <1>4, Zenon
<1>7. Joined(ss \o F(Len(tt))) = Joined(ss) \o Joined(F(Len(tt)))
  BY <1>1, <1>6
<1> QED
  BY <1>5, <1>7, Zenon

-----------------------------------------------------------------------------
(* clt_write.                                                              *)

(* The loop of clt_write, as a function of the round, exists.              *)
LEMMA CuttingExists ==
  ASSUME NEW data, Len(data) \in Nat
  PROVE  \E w : w = [i \in 0..Len(data) |-> IF i = 0 THEN [out |-> <<>>, rest |-> data]
                                            ELSE CutRecord(w[i - 1])]
<1> DEFINE z == [out |-> <<>>, rest |-> data]
           E(k) == \E w : w = [i \in 0..k |-> IF i = 0 THEN z ELSE CutRecord(w[i - 1])]
           T == {k \in Nat : E(k)}
<1> HIDE DEF z
<1>1. E(0)
  <2> DEFINE w == [i \in 0..0 |-> z]
  <2>1. w = [i \in 0..0 |-> IF i = 0 THEN z ELSE CutRecord(w[i - 1])]
    OBVIOUS
  <2> QED
    BY <2>1, Zenon
<1>2. ASSUME NEW k \in Nat, E(k) PROVE E(k + 1)
  <2>1. PICK w : w = [i \in 0..k |-> IF i = 0 THEN z ELSE CutRecord(w[i - 1])]
    BY <1>2, Zenon
  <2> DEFINE v == [i \in 0..(k + 1) |-> IF i = k + 1 THEN CutRecord(w[k]) ELSE w[i]]
  <2>2. v = [i \in 0..(k + 1) |-> IF i = 0 THEN z ELSE CutRecord(v[i - 1])]
    BY <2>1
  <2> QED
    BY <2>2, Zenon
<1> HIDE DEF E
<1>3. 0 \in T /\ \A n \in Nat : n \in T => n + 1 \in T
  BY <1>1, <1>2
<1> HIDE DEF T
<1>4. Nat \subseteq T
  BY <1>3, AllNat
<1>5. E(Len(data))
  BY <1>4 DEF T
<1> QED
  BY <1>5, Zenon DEF E, z

(* What it is: each round cuts one more record.                            *)
LEMMA CuttingDef ==
  ASSUME NEW data, Len(data) \in Nat
  PROVE  /\ Cutting(data)[0] = [out |-> <<>>, rest |-> data]
         /\ \A i \in 1..Len(data) : Cutting(data)[i] = CutRecord(Cutting(data)[i - 1])
<1> DEFINE w == Cutting(data)
           z == [out |-> <<>>, rest |-> data]
<1>1. w = [i \in 0..Len(data) |-> IF i = 0 THEN z ELSE CutRecord(w[i - 1])]
  BY CuttingExists, Zenon DEF Cutting
<1> HIDE DEF w, z
<1>2. w[0] = z /\ \A i \in 1..Len(data) : w[i] = CutRecord(w[i - 1])
  BY <1>1
<1> QED
  BY <1>2, Zenon DEF w, z

(* Once round the loop: the records so far and the rest are still the data *)
(* in this order, and the record that is added is neither empty nor too    *)
(* long.                                                                   *)
RightSizes(ss) == \A n \in 1..Len(ss) : Len(ss[n]) \in 1..MaxContent

(* Records of the right size after records of the right size.              *)
LEMMA RightSizesConcat ==
  ASSUME NEW S, NEW ss \in Seq(Seq(S)), NEW tt \in Seq(Seq(S)), RightSizes(ss), RightSizes(tt)
  PROVE  RightSizes(ss \o tt)
<1> SUFFICES ASSUME NEW n \in 1..Len(ss \o tt) PROVE Len((ss \o tt)[n]) \in 1..MaxContent
  BY DEF RightSizes
<1>1. Len(ss) \in Nat /\ Len(tt) \in Nat /\ Len(ss \o tt) = Len(ss) + Len(tt)
  OBVIOUS
<1>2. CASE n <= Len(ss)
  <2>1. n \in 1..Len(ss) /\ (ss \o tt)[n] = ss[n]
    BY <1>1, <1>2
  <2> QED
    BY <2>1, Zenon DEF RightSizes
<1>3. CASE n > Len(ss)
  <2>1. n - Len(ss) \in 1..Len(tt) /\ (ss \o tt)[n] = tt[n - Len(ss)]
    BY <1>1, <1>3
  <2> QED
    BY <2>1, Zenon DEF RightSizes
<1> QED
  BY <1>1, <1>2, <1>3

CutOf(S, data, w) ==
    /\ w \in [out : Seq(Seq(S)), rest : Seq(S)]
    /\ Joined(w.out) \o w.rest = data
    /\ RightSizes(w.out)

(* One round of the loop of clt_write: the records so far and the rest are *)
(* the data, and the sizes are right.                                      *)
LEMMA CutStep ==
  ASSUME NEW S, NEW data, NEW w, CutOf(S, data, w)
  PROVE  /\ CutOf(S, data, CutRecord(w))
         /\ Len(CutRecord(w).rest) < Len(w.rest) \/ CutRecord(w).rest = <<>>
<1> USE DEF CutOf
<1> DEFINE v == CutRecord(w)
           avail == Least(Len(w.rest), MaxContent)
           x == SubSeq(w.rest, 1, avail)
           y == SubSeq(w.rest, avail + 1, Len(w.rest))
<1>1. CASE w.rest = <<>>
  <2>1. v = w
    BY <1>1 DEF CutRecord
  <2> QED
    BY <1>1, <2>1, Zenon
<1>2. CASE w.rest # <<>>
  <2>1. v = [out |-> Append(w.out, x), rest |-> y]
    BY <1>2 DEF CutRecord
  <2>2. /\ Len(w.rest) \in Nat /\ MaxContent \in Nat \ {0} /\ Len(w.rest) > 0
        /\ avail \in 1..MaxContent /\ avail <= Len(w.rest)
    BY <1>2, TemplateAssumption DEF Least
  <2>3. x \in Seq(S) /\ y \in Seq(S) /\ Len(x) = avail /\ Len(y) = Len(w.rest) - avail /\ x \o y = w.rest
    <3>1. w.rest \in Seq(S) /\ avail \in 0..Len(w.rest)
      BY <2>2
    <3> HIDE DEF avail
    <3> QED
      BY <3>1, SplitSeq, ZenonT(40)
  <2> HIDE DEF x, y
  <2>4. Joined(Append(w.out, x)) = Joined(w.out) \o x
    BY <2>3, JoinedAppend, SMTT(20)
  <2>5. (Joined(w.out) \o x) \o y = data
    <3> DEFINE A == Joined(w.out)
    <3>1. A \in Seq(S)
      BY JoinedType
    <3>2. A \o (x \o y) = data
      BY <2>3
    <3> HIDE DEF A
    <3>3. x \in Seq(S) /\ y \in Seq(S)
      BY <2>3
    <3>4. (A \o x) \o y = A \o (x \o y)
      BY <3>1, <3>3
    <3> QED
      BY <3>2, <3>4, Zenon DEF A
  <2>6. RightSizes(Append(w.out, x))
    <3> DEFINE ss == Append(w.out, x)
               n == Len(w.out)
    <3>1. n \in Nat /\ Len(ss) = n + 1 /\ ss[n + 1] = x /\ \A i \in 1..n : ss[i] = w.out[i]
      BY <2>3
    <3>2. \A i \in 1..n : Len(w.out[i]) \in 1..MaxContent
      BY DEF RightSizes
    <3> HIDE DEF ss, n
    <3>3. \A i \in 1..(n + 1) : i \in 1..n \/ i = n + 1
      BY <3>1
    <3>4. Len(x) \in 1..MaxContent
      BY <2>2, <2>3
    <3>5. \A i \in 1..(n + 1) : Len(ss[i]) \in 1..MaxContent
      BY <3>1, <3>2, <3>3, <3>4, Zenon
    <3> QED
      BY <3>1, <3>5, Zenon DEF ss, RightSizes
  <2>7. Append(w.out, x) \in Seq(Seq(S))
    BY <2>3
  <2>8. Len(y) < Len(w.rest)
    BY <2>2, <2>3
  <2> HIDE DEF v
  <2>9. v.out = Append(w.out, x) /\ v.rest = y /\ v \in [out : Seq(Seq(S)), rest : Seq(S)]
    BY <2>1, <2>3, <2>7
  <2>10. Joined(v.out) \o v.rest = data /\ RightSizes(v.out) /\ Len(v.rest) < Len(w.rest)
    BY <2>4, <2>5, <2>6, <2>8, <2>9, Zenon
  <2> QED
    BY <2>9, <2>10, Zenon DEF v
<1> QED
  BY <1>1, <1>2, Zenon

(* clt_write sends its data, all of it and in order, in records of the     *)
(* right sizes.                                                            *)
LEMMA RecordsFacts ==
  ASSUME NEW S, NEW data \in Seq(S)
  PROVE  /\ Records(data) \in Seq(Seq(S))
         /\ Joined(Records(data)) = data
         /\ RightSizes(Records(data))
<1> DEFINE w == Cutting(data)
           N == Len(data)
           Good(k) == CutOf(S, data, w[k]) /\ Len(w[k].rest) <= N - k
           T == {k \in Nat : k \in 0..N => Good(k)}
<1>1. N \in Nat
  OBVIOUS
<1>2. w[0] = [out |-> <<>>, rest |-> data] /\ \A i \in 1..N : w[i] = CutRecord(w[i - 1])
  BY <1>1, CuttingDef, Zenon
<1> HIDE DEF w
<1>3. Good(0)
  <2>1. w[0].out = <<>> /\ w[0].rest = data
    BY <1>2
  <2>2. w[0] \in [out : Seq(Seq(S)), rest : Seq(S)]
    BY <1>2
  <2>3. Joined(w[0].out) \o w[0].rest = data
    <3>1. <<>> \o data = data
      OBVIOUS
    <3> QED
      BY <2>1, <3>1, JoinedEmpty, Zenon
  <2>4. RightSizes(w[0].out)
    BY <2>1 DEF RightSizes
  <2>5. Len(w[0].rest) <= N - 0
    BY <1>1, <2>1
  <2> QED
    BY <2>2, <2>3, <2>4, <2>5, Zenon DEF CutOf
<1>4. ASSUME NEW k \in Nat, k + 1 \in 0..N, Good(k) PROVE Good(k + 1)
  <2>1. w[k + 1] = CutRecord(w[k])
    <3>1. k + 1 \in 1..N /\ (k + 1) - 1 = k
      BY <1>1, <1>4
    <3> QED
      BY <1>2, <3>1, Zenon
  <2>2. /\ CutOf(S, data, w[k + 1])
        /\ Len(w[k + 1].rest) < Len(w[k].rest) \/ w[k + 1].rest = <<>>
    BY <1>4, <2>1, CutStep, Zenon
  <2>3. Len(w[k + 1].rest) <= N - (k + 1)
    <3>1. w[k + 1].rest \in Seq(S) /\ w[k].rest \in Seq(S)
      BY <1>4, <2>2 DEF CutOf
    <3>2. Len(w[k + 1].rest) \in Nat /\ Len(w[k].rest) \in Nat
          /\ (w[k + 1].rest = <<>> => Len(w[k + 1].rest) = 0)
      BY <3>1
    <3> QED
      BY <1>1, <1>4, <2>2, <3>2
  <2> QED
    BY <2>2, <2>3
<1>5. 0 \in T /\ \A k \in Nat : k \in T => k + 1 \in T
  <2> HIDE DEF Good
  <2>1. \A k \in Nat : k + 1 \in 0..N => k \in 0..N
    BY <1>1
  <2> QED
    BY <1>3, <1>4, <2>1
<1>6. Good(N)
  <2> HIDE DEF Good
  <2>1. Nat \subseteq T
    <3> HIDE DEF T
    <3> QED
      BY <1>5, AllNat
  <2> QED
    BY <1>1, <2>1
<1>7. w[N].rest = <<>>
  <2>1. w[N].rest \in Seq(S) /\ Len(w[N].rest) <= 0
    BY <1>1, <1>6 DEF CutOf
  <2> QED
    BY <2>1
<1>8. Joined(w[N].out) = data
  <2> DEFINE A == Joined(w[N].out)
  <2>1. w[N].out \in Seq(Seq(S)) /\ A \o <<>> = data
    BY <1>6, <1>7 DEF CutOf
  <2>2. A \in Seq(S)
    BY <2>1, JoinedType
  <2> HIDE DEF A
  <2>3. A \o <<>> = A
    BY <2>2
  <2> QED
    BY <2>1, <2>3 DEF A
<1>9. Records(data) = w[N].out
  BY DEF Records, w
<1> QED
  BY <1>6, <1>8, <1>9 DEF CutOf

-----------------------------------------------------------------------------
(* tp_write.                                                               *)

(* The loop of tp_write, as a function of the round, exists.               *)
LEMMA FillingExists ==
  ASSUME NEW b, NEW str, Len(str) \in Nat
  PROVE  \E w : w = [i \in 0..Len(str) |->
                        IF i = 0 THEN [buf |-> b, out |-> <<>>, rest |-> str]
                        ELSE FillBuffer(w[i - 1])]
<1> DEFINE z == [buf |-> b, out |-> <<>>, rest |-> str]
           E(k) == \E w : w = [i \in 0..k |-> IF i = 0 THEN z ELSE FillBuffer(w[i - 1])]
           T == {k \in Nat : E(k)}
<1> HIDE DEF z
<1>1. E(0)
  <2> DEFINE w == [i \in 0..0 |-> z]
  <2>1. w = [i \in 0..0 |-> IF i = 0 THEN z ELSE FillBuffer(w[i - 1])]
    OBVIOUS
  <2> QED
    BY <2>1, Zenon
<1>2. ASSUME NEW k \in Nat, E(k) PROVE E(k + 1)
  <2>1. PICK w : w = [i \in 0..k |-> IF i = 0 THEN z ELSE FillBuffer(w[i - 1])]
    BY <1>2, Zenon
  <2> DEFINE v == [i \in 0..(k + 1) |-> IF i = k + 1 THEN FillBuffer(w[k]) ELSE w[i]]
  <2>2. v = [i \in 0..(k + 1) |-> IF i = 0 THEN z ELSE FillBuffer(v[i - 1])]
    BY <2>1
  <2> QED
    BY <2>2, Zenon
<1> HIDE DEF E
<1>3. 0 \in T /\ \A n \in Nat : n \in T => n + 1 \in T
  BY <1>1, <1>2
<1> HIDE DEF T
<1>4. Nat \subseteq T
  BY <1>3, AllNat
<1>5. E(Len(str))
  BY <1>4 DEF T
<1> QED
  BY <1>5, Zenon DEF E, z

(* What it is: each round fills the buffer once more.                      *)
LEMMA FillingDef ==
  ASSUME NEW b, NEW str, Len(str) \in Nat
  PROVE  /\ Filling(b, str)[0] = [buf |-> b, out |-> <<>>, rest |-> str]
         /\ \A i \in 1..Len(str) : Filling(b, str)[i] = FillBuffer(Filling(b, str)[i - 1])
<1> DEFINE w == Filling(b, str)
           z == [buf |-> b, out |-> <<>>, rest |-> str]
<1>1. w = [i \in 0..Len(str) |-> IF i = 0 THEN z ELSE FillBuffer(w[i - 1])]
  BY FillingExists DEF Filling
<1> HIDE DEF w, z
<1>2. w[0] = z /\ \A i \in 1..Len(str) : w[i] = FillBuffer(w[i - 1])
  BY <1>1
<1> QED
  BY <1>2, Zenon DEF w, z

(* Once round the loop of tp_write: the records sent, the buffer and what  *)
(* is still to be written are the same text, all, and the buffer holds.    *)
FillOf(S, all, w) ==
    /\ w \in [buf : Seq(S), out : Seq(Seq(S)), rest : Seq(S)]
    /\ Joined(w.out) \o (w.buf \o w.rest) = all
    /\ RightSizes(w.out)
    /\ Len(w.buf) <= Cap

(* One round of the loop of tp_write: a full buffer is flushed, and no     *)
(* character is lost, doubled or moved.                                    *)
LEMMA FillStep ==
  ASSUME NEW S, NEW all, NEW w, FillOf(S, all, w)
  PROVE  /\ FillOf(S, all, FillBuffer(w))
         /\ Len(FillBuffer(w).rest) < Len(w.rest) \/ FillBuffer(w).rest = <<>>
<1> DEFINE v == FillBuffer(w)
           J == Joined(w.out)
           full == Len(w.buf) = Cap
           b == IF full THEN <<>> ELSE w.buf
           avail == Least(Len(w.rest), Cap - Len(b))
           x == SubSeq(w.rest, 1, avail)
           y == SubSeq(w.rest, avail + 1, Len(w.rest))
           o == IF full THEN w.out \o Records(w.buf) ELSE w.out
<1>0. /\ w.buf \in Seq(S) /\ w.out \in Seq(Seq(S)) /\ w.rest \in Seq(S)
      /\ J \o (w.buf \o w.rest) = all
      /\ RightSizes(w.out)
      /\ Len(w.buf) <= Cap
  BY Zenon DEF FillOf
<1>1. CASE w.rest = <<>>
  <2>1. v = w
    BY <1>1 DEF FillBuffer
  <2> QED
    BY <1>1, <2>1
<1>2. CASE w.rest # <<>>
  <2>1. v = [buf |-> b \o x, out |-> o, rest |-> y]
    BY <1>2 DEF FillBuffer
  <2>2. /\ Len(w.rest) \in Nat \ {0} /\ Cap \in Nat \ {0} /\ Len(w.buf) \in Nat
        /\ b \in Seq(S) /\ Len(b) \in Nat /\ Len(b) < Cap
    BY <1>0, <1>2, TemplateAssumption
  <2> HIDE DEF b
  <2>3. avail \in 1..Len(w.rest) /\ avail <= Cap - Len(b)
    BY <2>2 DEF Least
  <2>4. x \in Seq(S) /\ y \in Seq(S) /\ Len(x) = avail /\ Len(y) = Len(w.rest) - avail /\ x \o y = w.rest
    <3>1. w.rest \in Seq(S) /\ avail \in 0..Len(w.rest)
      BY <1>0, <2>2, <2>3
    <3> HIDE DEF avail
    <3> QED
      BY <3>1, SplitSeq, Zenon
  <2> HIDE DEF x, y, avail
  <2>5. J \in Seq(S)
    BY <1>0, JoinedType
  <2>6. o \in Seq(Seq(S)) /\ RightSizes(o) /\ Joined(o) \o b = J \o w.buf
    <3>1. CASE full
      <4> DEFINE R == Records(w.buf)
      <4>1. R \in Seq(Seq(S)) /\ Joined(R) = w.buf /\ RightSizes(R)
        BY <1>0, RecordsFacts
      <4> HIDE DEF R
      <4>2. Joined(w.out \o R) = Joined(w.out) \o w.buf
        BY <1>0, <4>1, JoinedConcat, Zenon
      <4>3. RightSizes(w.out \o R) /\ w.out \o R \in Seq(Seq(S))
        BY <1>0, <4>1, RightSizesConcat, ConcatType
      <4>4. o = w.out \o R /\ b = <<>>
        BY <3>1, Zenon DEF b, R
      <4>5. (J \o w.buf) \o <<>> = J \o w.buf
        <5>1. J \o w.buf \in Seq(S)
          BY <1>0, <2>5, ConcatType
        <5> QED
          BY <5>1
      <4> QED
        BY <4>2, <4>3, <4>4, <4>5, Zenon
    <3>2. CASE ~full
      BY <1>0, <3>2, Zenon DEF b
    <3> QED
      BY <3>1, <3>2, Zenon
  <2> HIDE DEF o
  <2>7. Joined(o) \o ((b \o x) \o y) = all
    <3> DEFINE K == Joined(o)
               c == w.buf
               r == w.rest
    <3>1. /\ K \in Seq(S) /\ b \in Seq(S) /\ x \in Seq(S) /\ y \in Seq(S) /\ J \in Seq(S)
          /\ c \in Seq(S) /\ r \in Seq(S)
      BY <1>0, <2>2, <2>4, <2>5, <2>6, JoinedType
    <3>2. K \o b = J \o c /\ x \o y = r /\ J \o (c \o r) = all
      BY <1>0, <2>4, <2>6
    <3> HIDE DEF K, J, b, c, r
    <3>3. Regrouped(b, x, y) /\ Regrouped(K, b, r) /\ Regrouped(J, c, r)
      BY <3>1, ConcatRegrouped, Zenon
    <3>4. (b \o x) \o y = b \o r
      BY <3>2, <3>3, Zenon DEF Regrouped
    <3>5. K \o (b \o r) = J \o (c \o r)
      BY <3>2, <3>3, Zenon DEF Regrouped
    <3>6. K \o ((b \o x) \o y) = all
      BY <3>2, <3>4, <3>5, Zenon
    <3> QED
      BY <3>6 DEF K
  <2>8. b \o x \in Seq(S) /\ Len(b \o x) <= Cap
    BY <2>2, <2>3, <2>4
  <2>9. Len(y) < Len(w.rest)
    BY <2>2, <2>3, <2>4
  <2> HIDE DEF v
  <2>10. /\ v.out = o /\ v.rest = y /\ v.buf = b \o x
         /\ v \in [buf : Seq(S), out : Seq(Seq(S)), rest : Seq(S)]
    BY <2>1, <2>4, <2>6, <2>8
  <2>11. FillOf(S, all, v) /\ Len(v.rest) < Len(w.rest)
    BY <2>6, <2>7, <2>8, <2>9, <2>10, Zenon DEF FillOf
  <2> QED
    BY <2>11, Zenon DEF v
<1> QED
  BY <1>1, <1>2

(* tp_write writes all of str after what is in the buffer.                 *)
LEMMA TpWriteFacts ==
  ASSUME NEW S, NEW b \in Seq(S), Len(b) <= Cap, NEW str \in Seq(S)
  PROVE  /\ TpWrite(b, str).buf \in Seq(S) /\ Len(TpWrite(b, str).buf) <= Cap
         /\ TpWrite(b, str).out \in Seq(Seq(S))
         /\ Joined(TpWrite(b, str).out) \o TpWrite(b, str).buf = b \o str
         /\ RightSizes(TpWrite(b, str).out)
<1> DEFINE w == Filling(b, str)
           N == Len(str)
           all == b \o str
           Good(k) == FillOf(S, all, w[k]) /\ Len(w[k].rest) <= N - k
           T == {k \in Nat : k \in 0..N => Good(k)}
<1>1. N \in Nat
  OBVIOUS
<1>2. w[0] = [buf |-> b, out |-> <<>>, rest |-> str] /\ \A i \in 1..N : w[i] = FillBuffer(w[i - 1])
  BY <1>1, FillingDef
<1> HIDE DEF w
<1>3. Good(0)
  <2>1. w[0].out = <<>> /\ w[0].rest = str /\ w[0].buf = b
    BY <1>2
  <2>2. w[0] \in [buf : Seq(S), out : Seq(Seq(S)), rest : Seq(S)]
    BY <1>2
  <2>3. Joined(w[0].out) \o (w[0].buf \o w[0].rest) = all
    <3>1. all \in Seq(S)
      BY ConcatType
    <3>2. <<>> \o all = all
      <4> HIDE DEF all
      <4> QED
        BY <3>1
    <3> QED
      BY <2>1, <3>2, JoinedEmpty, Zenon
  <2>4. RightSizes(w[0].out)
    BY <2>1 DEF RightSizes
  <2>5. Len(w[0].rest) <= N - 0
    BY <1>1, <2>1
  <2>6. Len(w[0].buf) <= Cap
    BY <2>1
  <2> QED
    BY <2>2, <2>3, <2>4, <2>5, <2>6, Zenon DEF FillOf
<1> HIDE DEF all
<1>4. ASSUME NEW k \in Nat, k + 1 \in 0..N, Good(k) PROVE Good(k + 1)
  <2>1. w[k + 1] = FillBuffer(w[k])
    <3>1. k + 1 \in 1..N /\ (k + 1) - 1 = k
      BY <1>1, <1>4
    <3> QED
      BY <1>2, <3>1, Zenon
  <2>2. /\ FillOf(S, all, w[k + 1])
        /\ Len(w[k + 1].rest) < Len(w[k].rest) \/ w[k + 1].rest = <<>>
    BY <1>4, <2>1, FillStep, Zenon
  <2>3. Len(w[k + 1].rest) <= N - (k + 1)
    <3>1. w[k + 1].rest \in Seq(S) /\ w[k].rest \in Seq(S)
      BY <1>4, <2>2 DEF FillOf
    <3>2. Len(w[k + 1].rest) \in Nat /\ Len(w[k].rest) \in Nat
          /\ (w[k + 1].rest = <<>> => Len(w[k + 1].rest) = 0)
      BY <3>1
    <3> QED
      BY <1>1, <1>4, <2>2, <3>2
  <2> QED
    BY <2>2, <2>3
<1>5. 0 \in T /\ \A k \in Nat : k \in T => k + 1 \in T
  <2> HIDE DEF Good
  <2>1. \A k \in Nat : k + 1 \in 0..N => k \in 0..N
    BY <1>1
  <2> QED
    BY <1>3, <1>4, <2>1
<1>6. Good(N)
  <2> HIDE DEF Good
  <2>1. Nat \subseteq T
    <3> HIDE DEF T
    <3> QED
      BY <1>5, AllNat
  <2> QED
    BY <1>1, <2>1
<1>7. w[N].rest = <<>>
  <2>1. w[N].rest \in Seq(S) /\ Len(w[N].rest) <= 0
    BY <1>1, <1>6 DEF FillOf
  <2> QED
    BY <2>1
<1>8. Joined(w[N].out) \o w[N].buf = all
  <2> DEFINE A == w[N].buf
  <2>1. Joined(w[N].out) \o (A \o <<>>) = all /\ A \in Seq(S)
    BY <1>6, <1>7, Zenon DEF FillOf
  <2> HIDE DEF A
  <2>2. A \o <<>> = A
    BY <2>1
  <2> QED
    BY <2>1, <2>2, Zenon DEF A
<1>9. TpWrite(b, str) = w[N]
  BY Zenon DEF TpWrite, w
<1>10. /\ w[N].buf \in Seq(S) /\ Len(w[N].buf) <= Cap
       /\ w[N].out \in Seq(Seq(S)) /\ RightSizes(w[N].out)
  BY <1>6 DEF FillOf
<1> QED
  BY <1>8, <1>9, <1>10, Zenon DEF all

-----------------------------------------------------------------------------
(* The browser.                                                            *)

(* How a browser reads a page, character by character, exists.             *)
LEMMA ReadingExists ==
  ASSUME NEW s, Len(s) \in Nat
  PROVE  \E w : w = [i \in 0..Len(s) |-> IF i = 0 THEN [seen |-> <<>>, code |-> <<>>]
                                            ELSE ReadChar(w[i - 1], s[i])]
<1> DEFINE z == [seen |-> <<>>, code |-> <<>>]
           E(k) == \E w : w = [i \in 0..k |-> IF i = 0 THEN z ELSE ReadChar(w[i - 1], s[i])]
           T == {k \in Nat : E(k)}
<1> HIDE DEF z
<1>1. E(0)
  <2> DEFINE w == [i \in 0..0 |-> z]
  <2>1. w = [i \in 0..0 |-> IF i = 0 THEN z ELSE ReadChar(w[i - 1], s[i])]
    OBVIOUS
  <2> QED
    BY <2>1, Zenon
<1>2. ASSUME NEW k \in Nat, E(k) PROVE E(k + 1)
  <2>1. PICK w : w = [i \in 0..k |-> IF i = 0 THEN z ELSE ReadChar(w[i - 1], s[i])]
    BY <1>2, Zenon
  <2> DEFINE v == [i \in 0..(k + 1) |-> IF i = k + 1 THEN ReadChar(w[k], s[k + 1]) ELSE w[i]]
  <2>2. v = [i \in 0..(k + 1) |-> IF i = 0 THEN z ELSE ReadChar(v[i - 1], s[i])]
    BY <2>1
  <2> QED
    BY <2>2, Zenon
<1> HIDE DEF E
<1>3. 0 \in T /\ \A n \in Nat : n \in T => n + 1 \in T
  BY <1>1, <1>2
<1> HIDE DEF T
<1>4. Nat \subseteq T
  BY <1>3, AllNat
<1>5. E(Len(s))
  BY <1>4 DEF T
<1> QED
  BY <1>5, Zenon DEF E, z


(* What it is: one character after the other.                              *)
LEMMA ReadingDef ==
  ASSUME NEW s, Len(s) \in Nat
  PROVE  /\ Reading(s)[0] = [seen |-> <<>>, code |-> <<>>]
         /\ \A i \in 1..Len(s) : Reading(s)[i] = ReadChar(Reading(s)[i - 1], s[i])
<1> DEFINE r == Reading(s)
           z == [seen |-> <<>>, code |-> <<>>]
<1>1. r = [i \in 0..Len(s) |-> IF i = 0 THEN z ELSE ReadChar(r[i - 1], s[i])]
  BY ReadingExists DEF Reading
<1> HIDE DEF r, z
<1>2. r[0] = z /\ \A i \in 1..Len(s) : r[i] = ReadChar(r[i - 1], s[i])
  BY <1>1
<1> QED
  BY <1>2, Zenon DEF r, z

(* The browser has read s and is not inside an entity or a percent code:   *)
(* it shows m.                                                             *)
Shows(s, m) == Reading(s)[Len(s)] = [seen |-> m, code |-> <<>>]

(* An empty page shows nothing.                                            *)
LEMMA ShowsEmpty == Shows(<<>>, <<>>)
<1>1. Len(<<>>) = 0 /\ Len(<<>>) \in Nat
  OBVIOUS
<1>2. Reading(<<>>)[0] = [seen |-> <<>>, code |-> <<>>]
  BY <1>1, ReadingDef
<1> QED
  BY <1>1, <1>2, Zenon DEF Shows

(* What it makes of s does not depend on what follows.                     *)
LEMMA ReadAppend ==
  ASSUME NEW S, NEW s \in Seq(S), NEW c \in S
  PROVE  Reading(Append(s, c))[Len(Append(s, c))] = ReadChar(Reading(s)[Len(s)], c)
<1> DEFINE t == Append(s, c)
           n == Len(s)
           f == Reading(s)
           g == Reading(t)
           T == {k \in Nat : k \in 0..n => f[k] = g[k]}
<1>1. /\ n \in Nat /\ Len(t) = n + 1 /\ Len(t) \in Nat /\ t[n + 1] = c
      /\ \A i \in 1..n : t[i] = s[i]
  OBVIOUS
<1> HIDE DEF t
<1>2. f[0] = [seen |-> <<>>, code |-> <<>>] /\ \A i \in 1..n : f[i] = ReadChar(f[i - 1], s[i])
  BY <1>1, ReadingDef
<1>3. g[0] = [seen |-> <<>>, code |-> <<>>] /\ \A i \in 1..(n + 1) : g[i] = ReadChar(g[i - 1], t[i])
  BY <1>1, ReadingDef
<1> HIDE DEF f, g, n
<1>4. 0 \in T
  BY <1>2, <1>3
<1>5. ASSUME NEW k \in Nat, k \in T PROVE k + 1 \in T
  BY <1>1, <1>2, <1>3, <1>5
<1>6. Nat \subseteq T
  <2> HIDE DEF T
  <2> QED
    BY <1>4, <1>5, AllNat
<1>7. f[n] = g[n]
  BY <1>1, <1>6
<1>8. g[n + 1] = ReadChar(f[n], c)
  BY <1>1, <1>3, <1>7
<1> QED
  BY <1>1, <1>8, Zenon DEF f, g, t, n

(* Two characters are appended one by one.                                 *)
LEMMA AppendTwo ==
  ASSUME NEW S, NEW a \in S, NEW b \in S
  PROVE  Append(<<a>>, b) = <<a, b>>
<1> DEFINE s == Append(<<a>>, b)
           t == <<a, b>>
<1>1. <<a>> \in Seq(S) /\ Len(<<a>>) = 1
  OBVIOUS
<1>2. s \in Seq(S) /\ t \in Seq(S)
  OBVIOUS
<1>3. Len(s) = 2 /\ Len(t) = 2
  OBVIOUS
<1>4. s[1] = a /\ s[2] = b
  BY <1>1
<1>5. t[1] = a /\ t[2] = b
  OBVIOUS
<1> HIDE DEF s, t
<1>6. \A i \in 1..Len(t) : i = 1 \/ i = 2
  BY <1>3
<1>7. Len(s) = Len(t) /\ \A i \in 1..Len(t) : s[i] = t[i]
  BY <1>3, <1>4, <1>5, <1>6, Zenon
<1>8. s = t
  BY <1>2, <1>7, SameSeq
<1> QED
  BY <1>8 DEF s, t

(* Three characters are a sequence.                                        *)
LEMMA ThreeSeq ==
  ASSUME NEW S, NEW a \in S, NEW b \in S, NEW c \in S
  PROVE  <<a, b, c>> \in Seq(S)
  OBVIOUS

(* Three characters are appended one by one.                               *)
LEMMA AppendThree ==
  ASSUME NEW S, NEW a \in S, NEW b \in S, NEW c \in S
  PROVE  Append(<<a, b>>, c) = <<a, b, c>>
<1> DEFINE s == Append(<<a, b>>, c)
           t == <<a, b, c>>
<1>1. <<a, b>> \in Seq(S) /\ Len(<<a, b>>) = 2
  OBVIOUS
<1>2. s \in Seq(S) /\ t \in Seq(S)
  OBVIOUS
<1>3. Len(s) = 3 /\ Len(t) = 3
  OBVIOUS
<1>4. s[1] = a /\ s[2] = b /\ s[3] = c
  BY <1>1
<1>5. t[1] = a /\ t[2] = b /\ t[3] = c
  OBVIOUS
<1> HIDE DEF s, t
<1>6. \A i \in 1..Len(t) : i = 1 \/ i = 2 \/ i = 3
  BY <1>3
<1>7. Len(s) = Len(t) /\ \A i \in 1..Len(t) : s[i] = t[i]
  BY <1>3, <1>4, <1>5, <1>6, Zenon
<1>8. s = t
  BY <1>2, <1>7, SameSeq
<1> QED
  BY <1>8 DEF s, t

(* A character that is not the start of a code is shown as it is.          *)
LEMMA ShowsChar ==
  ASSUME NEW S, NEW s \in Seq(S), NEW c \in S, NEW m, Shows(s, m), c \notin {"&", "%"}
  PROVE  Shows(s \o <<c>>, Append(m, c))
<1>1. s \o <<c>> = Append(s, c)
  OBVIOUS
<1>2. Reading(s)[Len(s)].code = <<>> /\ Reading(s)[Len(s)].seen = m
  BY DEF Shows
<1>3. ReadChar(Reading(s)[Len(s)], c) = [seen |-> Append(m, c), code |-> <<>>]
  BY <1>2, Zenon DEF ReadChar
<1> QED
  BY <1>1, <1>3, ReadAppend, Zenon DEF Shows

(* A code is shown as what it stands for.                                  *)
LEMMA ShowsCode ==
  ASSUME NEW S, NEW s \in Seq(S), NEW a \in S, NEW b \in S, NEW c \in S, NEW m, Shows(s, m),
         a \in {"&", "%"}
  PROVE  Shows(s \o <<a, b, c>>, m \o Decoded(<<a, b, c>>))
<1> DEFINE s1 == Append(s, a)
           s2 == Append(s1, b)
           s3 == Append(s2, c)
           R(t) == Reading(t)[Len(t)]
<1>1. s \o <<a, b, c>> = s3 /\ s1 \in Seq(S) /\ s2 \in Seq(S)
  OBVIOUS
<1>2. R(s1) = ReadChar(R(s), a) /\ R(s2) = ReadChar(R(s1), b) /\ R(s3) = ReadChar(R(s2), c)
  BY <1>1, ReadAppend, Zenon
<1>3. R(s).code = <<>> /\ R(s).seen = m
  BY DEF Shows
<1> HIDE DEF R, s1, s2, s3
<1>4. R(s1) = [seen |-> m, code |-> <<a>>]
  <2>1. Len(<<>>) < 2 /\ Append(<<>>, a) = <<a>>
    OBVIOUS
  <2> QED
    BY <1>2, <1>3, <2>1, Zenon DEF ReadChar
<1>5. R(s2) = [seen |-> m, code |-> <<a, b>>]
  <2>1. Len(<<a>>) < 2 /\ Append(<<a>>, b) = <<a, b>> /\ <<a>> # <<>>
    <3>1. Len(<<a>>) = 1
      OBVIOUS
    <3>2. Append(<<a>>, b) = <<a, b>>
      BY AppendTwo
    <3>3. <<a>> # <<>>
      OBVIOUS
    <3> QED
      BY <3>1, <3>2, <3>3
  <2>2. R(s1).code = <<a>> /\ R(s1).seen = m
    BY <1>4
  <2> QED
    BY <1>2, <2>1, <2>2, Zenon DEF ReadChar
<1>6. R(s3) = [seen |-> m \o Decoded(<<a, b, c>>), code |-> <<>>]
  <2>1. ~(Len(<<a, b>>) < 2) /\ Append(<<a, b>>, c) = <<a, b, c>> /\ <<a, b>> # <<>>
    <3>1. Len(<<a, b>>) = 2
      OBVIOUS
    <3>2. Append(<<a, b>>, c) = <<a, b, c>>
      BY AppendThree
    <3>3. <<a, b>> # <<>>
      OBVIOUS
    <3> QED
      BY <3>1, <3>2, <3>3
  <2>2. R(s2).code = <<a, b>> /\ R(s2).seen = m
    BY <1>5
  <2> QED
    BY <1>2, <2>1, <2>2, Zenon DEF ReadChar
<1> QED
  BY <1>1, <1>6, Zenon DEF Shows, R

-----------------------------------------------------------------------------
(* What the callers write is shown as what they mean.                      *)

Chars == TextChars \cup UrlChars \cup {"&", "%", "l", "m", "p", ";", "2", "0", "7", "H", "M", "B"}

(* tp_htmlescape: a browser undoes what it does to a character.            *)
LEMMA HtmlShown ==
  ASSUME NEW c \in TextChars, NEW s \in Seq(Chars), NEW m \in Seq(Chars), Shows(s, m)
  PROVE  HtmlChar(c) \in Seq(Chars) /\ Shows(s \o HtmlChar(c), m \o <<c>>)
<1>1. c \in Chars /\ {"&", "l", "m", "p", ";"} \subseteq Chars
  BY DEF Chars
<1>2. CASE c = "<"
  <2>1. HtmlChar(c) = <<"&", "l", ";">> /\ Decoded(<<"&", "l", ";">>) = <<c>>
    BY <1>2 DEF HtmlChar, Decoded
  <2>2. "&" \in Chars /\ "l" \in Chars /\ ";" \in Chars
    BY <1>1
  <2>3. Shows(s \o <<"&", "l", ";">>, m \o Decoded(<<"&", "l", ";">>))
    BY <2>2, ShowsCode
  <2>4. <<"&", "l", ";">> \in Seq(Chars)
    BY <2>2, ThreeSeq, Zenon
  <2> QED
    BY <2>1, <2>3, <2>4, Zenon
<1>3. CASE c = "&"
  <2>1. HtmlChar(c) = <<"&", "m", ";">> /\ Decoded(<<"&", "m", ";">>) = <<c>>
    BY <1>3 DEF HtmlChar, Decoded
  <2>2. "&" \in Chars /\ "m" \in Chars /\ ";" \in Chars
    BY <1>1
  <2>3. Shows(s \o <<"&", "m", ";">>, m \o Decoded(<<"&", "m", ";">>))
    BY <2>2, ShowsCode
  <2>4. <<"&", "m", ";">> \in Seq(Chars)
    BY <2>2, ThreeSeq, Zenon
  <2> QED
    BY <2>1, <2>3, <2>4, Zenon
<1>4. CASE c = "'"
  <2>1. HtmlChar(c) = <<"&", "p", ";">> /\ Decoded(<<"&", "p", ";">>) = <<c>>
    BY <1>4 DEF HtmlChar, Decoded
  <2>2. "&" \in Chars /\ "p" \in Chars /\ ";" \in Chars
    BY <1>1
  <2>3. Shows(s \o <<"&", "p", ";">>, m \o Decoded(<<"&", "p", ";">>))
    BY <2>2, ShowsCode
  <2>4. <<"&", "p", ";">> \in Seq(Chars)
    BY <2>2, ThreeSeq, Zenon
  <2> QED
    BY <2>1, <2>3, <2>4, Zenon
<1>5. CASE c \notin {"<", "&", "'"}
  <2>1. HtmlChar(c) = <<c>> /\ c \notin {"&", "%"}
    BY <1>5, TemplateAssumption DEF HtmlChar
  <2>2. c \in Chars
    BY <1>1
  <2>3. m \o <<c>> = Append(m, c)
    BY <2>2
  <2>4. <<c>> \in Seq(Chars)
    BY <2>2
  <2> QED
    BY <2>1, <2>2, <2>3, <2>4, ShowsChar, Zenon
<1> QED
  BY <1>2, <1>3, <1>4, <1>5

(* tp_urlescape: what it does to a character is undone when the link is    *)
(* followed.                                                               *)
LEMMA UrlShown ==
  ASSUME NEW c \in UrlChars, NEW s \in Seq(Chars), NEW m \in Seq(Chars), Shows(s, m)
  PROVE  UrlChar(c) \in Seq(Chars) /\ Shows(s \o UrlChar(c), m \o <<c>>)
<1>1. c \in Chars /\ c \notin {"&", "%", "tab"} /\ \A x \in {"%", "2", "0", "7"} : x \in Chars
  BY TemplateAssumption DEF Chars
<1>2. CASE c = " "
  <2>1. UrlChar(c) = <<"%", "2", "0">> /\ Decoded(<<"%", "2", "0">>) = <<c>>
    BY <1>2 DEF UrlChar, Decoded
  <2> QED
    BY <1>1, <2>1, ShowsCode
<1>3. CASE c = "'"
  <2>1. UrlChar(c) = <<"%", "2", "7">> /\ Decoded(<<"%", "2", "7">>) = <<c>>
    BY <1>3 DEF UrlChar, Decoded
  <2> QED
    BY <1>1, <2>1, ShowsCode
<1>4. CASE c \notin {" ", "'"}
  <2>1. UrlChar(c) = <<c>>
    BY <1>1, <1>4 DEF UrlChar
  <2>2. m \o <<c>> = Append(m, c)
    BY <1>1
  <2>3. <<c>> \in Seq(Chars)
    BY <1>1
  <2> QED
    BY <1>1, <2>1, <2>2, <2>3, ShowsChar, Zenon
<1> QED
  BY <1>2, <1>3, <1>4

(* tp_writes: what is written as it is, is shown as it is.                 *)
LEMMA PlainShown ==
  ASSUME NEW c \in {"H", "M", "B"}, NEW n \in Nat, NEW s \in Seq(Chars), NEW m \in Seq(Chars),
         Shows(s, m)
  PROVE  Plain(c, n) \in Seq(Chars) /\ Shows(s \o Plain(c, n), m \o Plain(c, n))
<1> DEFINE P(k) == Plain(c, k)
           T == {k \in Nat : Shows(s \o P(k), m \o P(k))}
<1>1. c \in Chars /\ c \notin {"&", "%"}
  BY DEF Chars
<1>2. \A k \in Nat : P(k) \in Seq(Chars) /\ Len(P(k)) = k /\ \A i \in 1..k : P(k)[i] = c
  BY <1>1 DEF Plain
<1> HIDE DEF P
<1>3. 0 \in T
  <2>1. P(0) = <<>>
    BY <1>2
  <2>2. s \o <<>> = s /\ m \o <<>> = m
    OBVIOUS
  <2>3. Shows(s \o P(0), m \o P(0))
    BY <2>1, <2>2, Zenon
  <2> QED
    BY <2>3
<1>4. ASSUME NEW k \in Nat, k \in T PROVE k + 1 \in T
  <2>1. P(k + 1) = Append(P(k), c)
    <3>1. /\ P(k) \in Seq(Chars) /\ Len(P(k)) = k /\ \A i \in 1..k : P(k)[i] = c
          /\ P(k + 1) \in Seq(Chars) /\ Len(P(k + 1)) = k + 1
          /\ \A i \in 1..(k + 1) : P(k + 1)[i] = c
      BY <1>2
    <3> QED
      BY <1>1, <3>1
  <2>2. P(k) \in Seq(Chars)
    BY <1>2
  <2>3. s \o P(k) \in Seq(Chars)
    BY <2>2, ConcatType
  <2>4. Shows(s \o P(k), m \o P(k))
    BY <1>4
  <2>5. Shows((s \o P(k)) \o <<c>>, Append(m \o P(k), c))
    BY <1>1, <2>3, <2>4, ShowsChar, Zenon
  <2>6. m \o Append(P(k), c) = Append(m \o P(k), c) /\ s \o Append(P(k), c) = Append(s \o P(k), c)
    BY <1>1, <2>2, ConcatAppend, SMTT(20)
  <2>7. (s \o P(k)) \o <<c>> = Append(s \o P(k), c)
    <3> DEFINE t == s \o P(k)
    <3>1. t \in Seq(Chars)
      BY <2>3
    <3> HIDE DEF t
    <3>2. t \o <<c>> = Append(t, c)
      BY <1>1, <3>1
    <3> QED
      BY <3>2 DEF t
  <2>8. Shows(s \o P(k + 1), m \o P(k + 1))
    BY <2>1, <2>5, <2>6, <2>7, Zenon
  <2> QED
    BY <2>8
<1>5. Nat \subseteq T
  <2> HIDE DEF T
  <2> QED
    BY <1>3, <1>4, AllNat
<1>6. Shows(s \o P(n), m \o P(n)) /\ P(n) \in Seq(Chars)
  BY <1>2, <1>5
<1> QED
  BY <1>6 DEF P

-----------------------------------------------------------------------------
(* The invariant: the records sent and the buffer are a text of which the  *)
(* browser has read all codes to their end, and shows what was meant; and  *)
(* the buffer is empty whenever something goes round it.                   *)
TpInv ==
    /\ wire \in Seq(Seq(Chars)) /\ buf \in Seq(Chars) /\ meant \in Seq(Chars)
    /\ Len(buf) <= Cap
    /\ RightSizes(wire)
    /\ Shows(Joined(wire) \o buf, meant)
    /\ stage \in {"new", "page", "copy", "ended", "failed"}
    /\ stage \in {"copy", "ended"} => buf = <<>>

(* The invariant holds when the request has its reply to write.            *)
LEMMA TpInitInv == TpInit => TpInv
<1> SUFFICES ASSUME TpInit PROVE TpInv
  OBVIOUS
<1>1. buf = <<>> /\ wire = <<>> /\ meant = <<>> /\ stage = "new"
  BY DEF TpInit
<1>2. <<>> \in Seq(Seq(Chars)) /\ <<>> \in Seq(Chars) /\ Len(<<>>) = 0 /\ <<>> \o <<>> = <<>>
  OBVIOUS
<1>3. Shows(Joined(<<>>) \o <<>>, <<>>)
  BY <1>2, JoinedEmpty, ShowsEmpty, Zenon
<1>4. RightSizes(<<>>)
  BY <1>2 DEF RightSizes
<1>5. 0 <= Cap
  BY TemplateAssumption
<1> QED
  BY <1>1, <1>2, <1>3, <1>4, <1>5 DEF TpInv

(* Something that goes through tp_write.                                   *)
LEMMA WriteKeeps ==
  ASSUME TpInv, NEW chars \in Seq(Chars)
  PROVE  LET w == TpWrite(buf, chars)
         IN  /\ wire \o w.out \in Seq(Seq(Chars)) /\ w.buf \in Seq(Chars) /\ Len(w.buf) <= Cap
             /\ RightSizes(wire \o w.out)
             /\ Joined(wire \o w.out) \o w.buf = (Joined(wire) \o buf) \o chars
<1> DEFINE w == TpWrite(buf, chars)
           o == w.out
           b == w.buf
           J == Joined(wire)
           K == Joined(o)
<1>1. wire \in Seq(Seq(Chars)) /\ buf \in Seq(Chars) /\ Len(buf) <= Cap /\ RightSizes(wire)
  BY DEF TpInv
<1>2. b \in Seq(Chars) /\ Len(b) <= Cap /\ o \in Seq(Seq(Chars)) /\ RightSizes(o)
      /\ K \o b = buf \o chars
  BY <1>1, TpWriteFacts, Zenon
<1> HIDE DEF w, o, b
<1>3. wire \o o \in Seq(Seq(Chars))
  BY <1>1, <1>2, ConcatType
<1>4. RightSizes(wire \o o)
  BY <1>1, <1>2, RightSizesConcat
<1>5. Joined(wire \o o) = J \o K
  BY <1>1, <1>2, JoinedConcat
<1>6. J \in Seq(Chars) /\ K \in Seq(Chars)
  BY <1>1, <1>2, JoinedType
<1> HIDE DEF J, K
<1>7. (J \o K) \o b = J \o (K \o b)
  <2>1. b \in Seq(Chars)
    BY <1>2
  <2> QED
    BY <1>6, <2>1
<1>8. (J \o buf) \o chars = J \o (buf \o chars)
  <2>1. buf \in Seq(Chars)
    BY <1>1
  <2> QED
    BY <1>6, <2>1
<1>9. Joined(wire \o o) \o b = (J \o buf) \o chars
  BY <1>2, <1>5, <1>7, <1>8, Zenon
<1> QED
  BY <1>2, <1>3, <1>4, <1>9 DEF w, o, b, J

(* A piece of a page whose reading is known, through tp_write.             *)
LEMMA EmitKeeps ==
  ASSUME TpInv, NEW chars, NEW means, chars \in Seq(Chars), means \in Seq(Chars),
         Shows((Joined(wire) \o buf) \o chars, meant \o means),
         Emit(chars, means), stage' = "page"
  PROVE  TpInv'
<1> DEFINE w == TpWrite(buf, chars)
<1>1. buf' = w.buf /\ wire' = wire \o w.out /\ meant' = meant \o means
  BY DEF Emit
<1>2. /\ wire \o w.out \in Seq(Seq(Chars)) /\ w.buf \in Seq(Chars) /\ Len(w.buf) <= Cap
      /\ RightSizes(wire \o w.out)
      /\ Joined(wire \o w.out) \o w.buf = (Joined(wire) \o buf) \o chars
  BY WriteKeeps, Zenon
<1> HIDE DEF w
<1>3. meant \o means \in Seq(Chars)
  BY ConcatType DEF TpInv
<1>4. /\ wire' \in Seq(Seq(Chars)) /\ buf' \in Seq(Chars) /\ meant' \in Seq(Chars)
      /\ Len(buf') <= Cap
      /\ RightSizes(wire')
      /\ Shows(Joined(wire') \o buf', meant')
  BY <1>1, <1>2, <1>3, Zenon
<1> QED
  BY <1>4, Zenon DEF TpInv, RightSizes

(* Something that goes to clt_write while the buffer is left empty.        *)
LEMMA SendKeeps ==
  ASSUME NEW ss \in Seq(Seq(Chars)), RightSizes(ss), NEW data \in Seq(Chars)
  PROVE  /\ ss \o Records(data) \in Seq(Seq(Chars))
         /\ RightSizes(ss \o Records(data))
         /\ Joined(ss \o Records(data)) \o <<>> = Joined(ss) \o data
<1> DEFINE R == Records(data)
           J == Joined(ss) \o data
<1>1. R \in Seq(Seq(Chars)) /\ Joined(R) = data /\ RightSizes(R)
  BY RecordsFacts
<1> HIDE DEF R
<1>2. ss \o R \in Seq(Seq(Chars))
  BY <1>1, ConcatType
<1>3. RightSizes(ss \o R)
  BY <1>1, RightSizesConcat
<1>4. Joined(ss \o R) = J
  BY <1>1, JoinedConcat, Zenon
<1>5. J \in Seq(Chars)
  BY JoinedType, ConcatType
<1> HIDE DEF J
<1>6. J \o <<>> = J
  BY <1>5
<1> QED
  BY <1>2, <1>3, <1>4, <1>6, Zenon DEF R, J

(* The page is begun.                                                      *)
LEMMA StartPageKeeps ==
  ASSUME TpInv, NEW n \in 1..MaxWritten, StartPage(n) PROVE TpInv'
<1> DEFINE s == Joined(wire) \o buf
           P == Plain("H", n)
<1>1. s \in Seq(Chars) /\ meant \in Seq(Chars) /\ Shows(s, meant)
  BY JoinedType, ConcatType DEF TpInv
<1>2. n \in Nat
  OBVIOUS
<1> HIDE DEF s, P
<1>3. P \in Seq(Chars) /\ Shows(s \o P, meant \o P)
  BY <1>1, <1>2, PlainShown DEF P
<1>4. Emit(P, P) /\ stage' = "page"
  BY DEF StartPage, P
<1> QED
  BY <1>3, <1>4, EmitKeeps DEF s

(* The callers of tp_writes keep the invariant.                            *)
LEMMA TpWritesKeeps ==
  ASSUME TpInv, NEW n \in 1..MaxWritten, TpWrites(n) PROVE TpInv'
<1> DEFINE s == Joined(wire) \o buf
           P == Plain("M", n)
<1>1. s \in Seq(Chars) /\ meant \in Seq(Chars) /\ Shows(s, meant)
  BY JoinedType, ConcatType DEF TpInv
<1>2. n \in Nat
  OBVIOUS
<1> HIDE DEF s, P
<1>3. P \in Seq(Chars) /\ Shows(s \o P, meant \o P)
  BY <1>1, <1>2, PlainShown DEF P
<1>4. Emit(P, P) /\ stage' = "page"
  BY DEF TpWrites, P
<1> QED
  BY <1>3, <1>4, EmitKeeps DEF s

(* The callers of tp_htmlescape keep it.                                   *)
LEMMA HtmlescapeKeeps ==
  ASSUME TpInv, NEW c \in TextChars, TpHtmlescape(c) PROVE TpInv'
<1> DEFINE s == Joined(wire) \o buf
<1>1. s \in Seq(Chars) /\ meant \in Seq(Chars) /\ Shows(s, meant)
  BY JoinedType, ConcatType DEF TpInv
<1>2. HtmlChar(c) \in Seq(Chars) /\ Shows(s \o HtmlChar(c), meant \o <<c>>)
  BY <1>1, HtmlShown, Zenon
<1>3. c \in Chars
  BY DEF Chars
<1>4. <<c>> \in Seq(Chars)
  BY <1>3
<1>5. Emit(HtmlChar(c), <<c>>) /\ stage' = "page"
  BY DEF TpHtmlescape
<1> QED
  BY <1>2, <1>4, <1>5, EmitKeeps, Zenon

(* The callers of tp_urlescape keep it.                                    *)
LEMMA UrlescapeKeeps ==
  ASSUME TpInv, NEW c \in UrlChars, TpUrlescape(c) PROVE TpInv'
<1> DEFINE s == Joined(wire) \o buf
<1>1. s \in Seq(Chars) /\ meant \in Seq(Chars) /\ Shows(s, meant)
  BY JoinedType, ConcatType DEF TpInv
<1>2. UrlChar(c) \in Seq(Chars) /\ Shows(s \o UrlChar(c), meant \o <<c>>)
  BY <1>1, UrlShown, Zenon
<1>3. c \in Chars
  BY DEF Chars
<1>4. <<c>> \in Seq(Chars)
  BY <1>3
<1>5. Emit(UrlChar(c), <<c>>) /\ stage' = "page"
  BY DEF TpUrlescape
<1> QED
  BY <1>2, <1>4, <1>5, EmitKeeps, Zenon

(* A reply that is not a page of galileo's starts after a flush.           *)
LEMMA StartCopyKeeps ==
  ASSUME TpInv, NEW n \in 1..MaxWritten, StartCopy(n) PROVE TpInv'
<1> DEFINE s == Joined(wire) \o buf
           P == Plain("H", n)
           w == TpWrite(buf, P)
           ss == wire \o w.out
<1>1. s \in Seq(Chars) /\ meant \in Seq(Chars) /\ Shows(s, meant)
  BY JoinedType, ConcatType DEF TpInv
<1>2. n \in Nat
  OBVIOUS
<1>3. /\ buf' = <<>> /\ wire' = ss \o Records(w.buf) /\ meant' = meant \o P
      /\ stage' = "copy"
  BY DEF StartCopy
<1> HIDE DEF P
<1>4. P \in Seq(Chars) /\ Shows(s \o P, meant \o P)
  BY <1>1, <1>2, PlainShown, Zenon DEF P
<1>5. /\ ss \in Seq(Seq(Chars)) /\ w.buf \in Seq(Chars)
      /\ RightSizes(ss)
      /\ Joined(ss) \o w.buf = s \o P
  BY <1>4, WriteKeeps, Zenon
<1> HIDE DEF s, w, ss
<1>6. /\ wire' \in Seq(Seq(Chars)) /\ RightSizes(wire')
      /\ Joined(wire') \o buf' = Joined(ss) \o w.buf
  BY <1>3, <1>5, SendKeeps, Zenon DEF RightSizes
<1>7. meant' \in Seq(Chars)
  BY <1>1, <1>3, <1>4, ConcatType
<1>8. buf' \in Seq(Chars) /\ Len(buf') <= Cap
  BY <1>3, TemplateAssumption
<1>9. Shows(Joined(wire') \o buf', meant')
  BY <1>3, <1>4, <1>5, <1>6, Zenon
<1> QED
  BY <1>3, <1>6, <1>7, <1>8, <1>9 DEF TpInv, RightSizes

(* Its body goes round the buffer, by clt_write_bufferevent.               *)
LEMMA BuffereventKeeps ==
  ASSUME TpInv, NEW n \in 0..MaxWritten, CltWriteBufferevent(n) PROVE TpInv'
<1> DEFINE P == Plain("B", n)
           s == Joined(wire)
<1>1. buf = <<>> /\ wire \in Seq(Seq(Chars)) /\ RightSizes(wire) /\ meant \in Seq(Chars)
      /\ Shows(s \o buf, meant)
  BY DEF TpInv, CltWriteBufferevent
<1>2. n \in Nat
  OBVIOUS
<1>3. wire' = wire \o Records(P) /\ meant' = meant \o P /\ buf' = <<>> /\ stage' = "copy"
  BY <1>1 DEF CltWriteBufferevent
<1> HIDE DEF P
<1>4. s \in Seq(Chars) /\ s \o <<>> = s
  <2>1. s \in Seq(Chars)
    BY <1>1, JoinedType
  <2> HIDE DEF s
  <2> QED
    BY <2>1
<1> HIDE DEF s
<1>5. Shows(s, meant)
  BY <1>1, <1>4, Zenon
<1>6. P \in Seq(Chars) /\ Shows(s \o P, meant \o P)
  BY <1>1, <1>2, <1>4, <1>5, PlainShown DEF P
<1>7. /\ wire' \in Seq(Seq(Chars)) /\ RightSizes(wire')
      /\ Joined(wire') \o buf' = s \o P
  BY <1>1, <1>3, <1>6, SendKeeps, Zenon DEF RightSizes, s
<1>8. meant' \in Seq(Chars)
  BY <1>1, <1>3, <1>6, ConcatType
<1>9. buf' \in Seq(Chars) /\ Len(buf') <= Cap
  BY <1>3, TemplateAssumption
<1>10. Shows(Joined(wire') \o buf', meant')
  BY <1>3, <1>6, <1>7, Zenon
<1> QED
  BY <1>3, <1>7, <1>8, <1>9, <1>10 DEF TpInv, RightSizes

(* The end of the request flushes the buffer.                              *)
LEMMA EndRequestKeeps ==
  ASSUME TpInv, EndRequest PROVE TpInv'
<1>1. /\ wire \in Seq(Seq(Chars)) /\ buf \in Seq(Chars) /\ meant \in Seq(Chars)
      /\ RightSizes(wire) /\ Shows(Joined(wire) \o buf, meant)
  BY DEF TpInv
<1>2. wire' = wire \o Records(buf) /\ buf' = <<>> /\ meant' = meant /\ stage' = "ended"
  BY DEF EndRequest
<1>3. /\ wire' \in Seq(Seq(Chars)) /\ RightSizes(wire')
      /\ Joined(wire') \o buf' = Joined(wire) \o buf
  BY <1>1, <1>2, SendKeeps, Zenon DEF RightSizes
<1>4. buf' \in Seq(Chars) /\ Len(buf') <= Cap
  BY <1>2, TemplateAssumption
<1>5. Shows(Joined(wire') \o buf', meant')
  BY <1>1, <1>2, <1>3, Zenon
<1> QED
  BY <1>1, <1>2, <1>3, <1>4, <1>5 DEF TpInv, RightSizes

(* Every step keeps the invariant.                                         *)
LEMMA TpNextInv == TpInv /\ [TpNext]_tpVars => TpInv'
<1> SUFFICES ASSUME TpInv, [TpNext]_tpVars PROVE TpInv'
  OBVIOUS
<1>1. ASSUME NEW n \in 1..MaxWritten, StartPage(n) \/ StartCopy(n) \/ TpWrites(n) PROVE TpInv'
  BY <1>1, StartPageKeeps, StartCopyKeeps, TpWritesKeeps
<1>2. ASSUME NEW n \in 0..MaxWritten, CltWriteBufferevent(n) PROVE TpInv'
  BY <1>2, BuffereventKeeps
<1>3. ASSUME NEW c \in TextChars, TpHtmlescape(c) PROVE TpInv'
  BY <1>3, HtmlescapeKeeps
<1>4. ASSUME NEW c \in UrlChars, TpUrlescape(c) PROVE TpInv'
  BY <1>4, UrlescapeKeeps
<1>5. CASE EndRequest
  BY <1>5, EndRequestKeeps
<1>6. CASE DowriteFails
  BY <1>6 DEF DowriteFails, TpInv, RightSizes
<1>7. CASE UNCHANGED tpVars
  BY <1>7 DEF tpVars, TpInv, RightSizes
<1> QED
  BY <1>1, <1>2, <1>3, <1>4, <1>5, <1>6, <1>7 DEF TpNext

(* So it holds in every reachable state.                                   *)
LEMMA TpAlways == TpSpec => []TpInv
  BY TpInitInv, TpNextInv, PTL DEF TpSpec

(* Every STDOUT record that clt_write and dowrite send, from whichever of  *)
(* the ways a page goes out, has content, and no more than its header can  *)
(* say: for every size of the buffer and of the records.                   *)
THEOREM RecordsAreRight == TpSpec => []RecordsRight
<1>1. TpInv => RecordsRight
  BY DEF TpInv, RecordsRight, RightSizes
<1> QED
  BY <1>1, TpAlways, PTL

(* The page a browser sees is the one the callers meant, at every moment   *)
(* and for every size of the buffer and of the records: neither the flush  *)
(* of a full buffer, nor the cuts of clt_write, nor a body that goes round *)
(* the buffer loses, doubles or moves a character, and the escapes are     *)
(* undone exactly.                                                         *)
THEOREM PageIsShownAsMeant == TpSpec => []ShownAsMeant
<1>1. TpInv => ShownAsMeant
  <2> SUFFICES ASSUME TpInv PROVE ShownAsMeant
    OBVIOUS
  <2> DEFINE s == Joined(wire) \o buf
  <2>1. Reading(s)[Len(s)] = [seen |-> meant, code |-> <<>>] /\ meant \in Seq(Chars)
    BY DEF TpInv, Shows
  <2> HIDE DEF s
  <2>2. Reading(s)[Len(s)].seen = meant /\ Reading(s)[Len(s)].code = <<>>
    BY <2>1
  <2>3. meant \o <<>> = meant
    BY <2>1
  <2>4. Shown(s) = meant
    BY <2>2, <2>3, Zenon DEF Shown
  <2>5. stage = "ended" => buf = <<>>
    BY DEF TpInv
  <2> QED
    BY <2>4, <2>5, Zenon DEF ShownAsMeant, s
<1> QED
  BY <1>1, TpAlways, PTL
=============================================================================

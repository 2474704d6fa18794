---------------------------- MODULE Imsg_proofs -----------------------------
(***************************************************************************)
(* For messages and buffers of any size, and whatever parts of them the    *)
(* kernel takes and gives: the pipe is a channel of whole messages, the    *)
(* write event is waited for exactly when there is something to write, and *)
(* only a pipe whose other end is closed is taken for dead.                *)
(*                                                                         *)
(* All units in flight, in the read buffer or in the kernel, are one run   *)
(* of the units of all messages; it begins with the first message that was *)
(* not handled and ends where the queue of the sender begins.              *)
(***************************************************************************)
EXTENDS Imsg, SequenceTheorems, WellFoundedInduction, TLAPS

-----------------------------------------------------------------------------
(* Induction, as the least number that is not in a set.                    *)

LEMMA LeastNat ==
  ASSUME NEW T, T \subseteq Nat, T # {}
  PROVE  \E x \in T : \A y \in T : x <= y
<1> DEFINE R == OpToRel(<, Nat)
<1>1. IsWellFoundedOn(R, Nat)
  BY NatLessThanWellFounded, Zenon
<1>2. \A x, y \in Nat : <<x, y>> \in R <=> x < y
  BY DEF OpToRel
<1> HIDE DEF R
<1>3. PICK x \in T : \A y \in T : ~(<<y, x>> \in R)
  BY <1>1, WFMin, Zenon
<1>4. \A y \in T : ~(y < x)
  BY <1>2, <1>3, Zenon
<1>5. \A y \in T : x <= y
  BY <1>4, SMT
<1> QED
  BY <1>5

(* Whatever holds of 0 and, with n, of n + 1.                              *)
LEMMA AllNat ==
  ASSUME NEW T, 0 \in T, \A n \in Nat : n \in T => n + 1 \in T
  PROVE  Nat \subseteq T
<1> SUFFICES ASSUME Nat \ T # {} PROVE FALSE
  OBVIOUS
<1>1. PICK n \in Nat \ T : \A k \in Nat \ T : n <= k
  BY LeastNat, Zenon
<1>2. n - 1 \in Nat
  BY <1>1
<1>3. n - 1 \in T
  BY <1>1, <1>2
<1>4. (n - 1) + 1 \in T
  BY <1>2, <1>3
<1> QED
  BY <1>1, <1>4

LEMMA GreatestNat ==
  ASSUME NEW S, NEW b \in Nat, S \subseteq 0..b, S # {}
  PROVE  \E x \in S : \A y \in S : y <= x
<1> DEFINE T == {b - x : x \in S}
<1>1. T \subseteq Nat /\ T # {}
  <2>1. \A x \in S : b - x \in Nat
    OBVIOUS
  <2> QED
    BY <2>1, Zenon
<1>2. PICK t \in T : \A u \in T : t <= u
  BY <1>1, LeastNat, Zenon
<1>3. PICK x \in S : t = b - x
  BY <1>2
<1>4. ASSUME NEW y \in S PROVE y <= x
  <2>1. b - x <= b - y
    BY <1>2, <1>3
  <2> QED
    BY <2>1
<1> QED
  BY <1>3, <1>4

-----------------------------------------------------------------------------
(* What Left, Iov and MsgbufDrain compute.                                 *)

Bufs == [m : Nat, rpos : Nat, wpos : Nat, fd : Nat]

Buffers(q) == q \in Seq(Bufs) /\ \A i \in 1..Len(q) : q[i].rpos < q[i].wpos

LEMMA LeftExists ==
  ASSUME NEW q, Len(q) \in Nat
  PROVE  \E f : f = [i \in 0..Len(q) |-> IF i = 0 THEN 0 ELSE f[i - 1] + Unsent(q[i])]
<1> DEFINE E(k) == \E f : f = [i \in 0..k |-> IF i = 0 THEN 0 ELSE f[i - 1] + Unsent(q[i])]
           T == {k \in Nat : E(k)}
<1>1. E(0)
  <2> DEFINE f == [i \in 0..0 |-> 0]
  <2>1. f = [i \in 0..0 |-> IF i = 0 THEN 0 ELSE f[i - 1] + Unsent(q[i])]
    OBVIOUS
  <2> QED
    BY <2>1, Zenon
<1>2. ASSUME NEW k \in Nat, E(k) PROVE E(k + 1)
  <2>1. PICK f : f = [i \in 0..k |-> IF i = 0 THEN 0 ELSE f[i - 1] + Unsent(q[i])]
    BY <1>2, Zenon
  <2> DEFINE g == [i \in 0..(k + 1) |-> IF i = k + 1 THEN f[k] + Unsent(q[k + 1]) ELSE f[i]]
  <2>2. g = [i \in 0..(k + 1) |-> IF i = 0 THEN 0 ELSE g[i - 1] + Unsent(q[i])]
    BY <2>1
  <2> QED
    BY <2>2, Zenon
<1> HIDE DEF E
<1>3. 0 \in T /\ \A n \in Nat : n \in T => n + 1 \in T
  BY <1>1, <1>2
<1> HIDE DEF T
<1>4. Nat \subseteq T
  BY <1>3, AllNat
<1>5. E(Len(q))
  BY <1>4 DEF T
<1> QED
  BY <1>5 DEF E

LEMMA LeftDef ==
  ASSUME NEW q, Len(q) \in Nat
  PROVE  Left(q) = [i \in 0..Len(q) |-> IF i = 0 THEN 0 ELSE Left(q)[i - 1] + Unsent(q[i])]
  BY LeftExists DEF Left

(* The sums are natural numbers, and each buffer adds something.           *)
LEMMA LeftSums ==
  ASSUME NEW q, Buffers(q)
  PROVE  /\ Left(q)[0] = 0
         /\ \A i \in 0..Len(q) : Left(q)[i] \in Nat
         /\ \A i \in 1..Len(q) : /\ Left(q)[i] = Left(q)[i - 1] + (q[i].wpos - q[i].rpos)
                                 /\ Left(q)[i - 1] < Left(q)[i]
<1> DEFINE f == Left(q)
           n == Len(q)
           T == {k \in Nat : k \in 0..n => f[k] \in Nat}
<1>1. n \in Nat /\ \A i \in 1..n : q[i] \in Bufs /\ q[i].rpos < q[i].wpos
  BY ElementOfSeq, LenProperties DEF Buffers
<1>2. f = [i \in 0..n |-> IF i = 0 THEN 0 ELSE f[i - 1] + Unsent(q[i])]
  BY <1>1, LeftDef
<1> HIDE DEF f
<1>3. f[0] = 0 /\ \A i \in 1..n : f[i] = f[i - 1] + (q[i].wpos - q[i].rpos)
  BY <1>1, <1>2 DEF Unsent
<1>4. \A i \in 1..n : q[i].wpos - q[i].rpos \in Nat \ {0}
  BY <1>1 DEF Bufs
<1> HIDE DEF n
<1>5. 0 \in T
  BY <1>3
<1>6. ASSUME NEW k \in Nat, k \in T PROVE k + 1 \in T
  <2> SUFFICES ASSUME k + 1 \in 0..n PROVE f[k + 1] \in Nat
    OBVIOUS
  <2>1. k + 1 \in 1..n /\ f[k] \in Nat /\ (k + 1) - 1 = k
    BY <1>1, <1>6
  <2>2. f[k + 1] = f[k] + (q[k + 1].wpos - q[k + 1].rpos)
    BY <1>3, <2>1
  <2> QED
    BY <1>4, <2>1, <2>2
<1>7. \A i \in 0..n : f[i] \in Nat
  <2> HIDE DEF T
  <2>1. Nat \subseteq T
    BY <1>5, <1>6, AllNat
  <2> QED
    BY <1>1, <2>1 DEF T
<1>8. ASSUME NEW i \in 1..n PROVE f[i - 1] < f[i]
  <2>1. f[i - 1] \in Nat /\ f[i] = f[i - 1] + (q[i].wpos - q[i].rpos)
    BY <1>1, <1>3, <1>7
  <2> QED
    BY <1>4, <2>1
<1> QED
  BY <1>3, <1>7, <1>8 DEF f, n

LEMMA LeftIncreases ==
  ASSUME NEW q, Buffers(q), NEW i \in 0..Len(q), NEW j \in 0..Len(q), i < j
  PROVE  Left(q)[i] < Left(q)[j]
<1> DEFINE f == Left(q)
           n == Len(q)
           T == {k \in Nat : i < k /\ k <= n => f[i] < f[k]}
<1>1. n \in Nat
  BY LenProperties DEF Buffers
<1>2. (\A k \in 0..n : f[k] \in Nat) /\ \A k \in 1..n : f[k - 1] < f[k]
  BY LeftSums
<1> HIDE DEF f, n
<1>3. 0 \in T
  BY <1>1
<1>4. ASSUME NEW k \in Nat, k \in T PROVE k + 1 \in T
  <2> SUFFICES ASSUME i < k + 1, k + 1 <= n PROVE f[i] < f[k + 1]
    OBVIOUS
  <2>1. k + 1 \in 1..n /\ k \in 0..n /\ k + 1 \in 0..n /\ i \in 0..n /\ (k + 1) - 1 = k
    BY <1>1
  <2>2. f[k] < f[k + 1] /\ f[k] \in Nat /\ f[k + 1] \in Nat /\ f[i] \in Nat
    BY <1>2, <2>1
  <2>3. CASE i = k
    BY <2>2, <2>3
  <2>4. CASE i < k
    BY <1>1, <1>4, <2>1, <2>2, <2>4
  <2> QED
    BY <1>1, <2>3, <2>4
<1> HIDE DEF T
<1>5. Nat \subseteq T
  BY <1>3, <1>4, AllNat
<1> QED
  BY <1>1, <1>5 DEF T, n, f

(* What is left does not depend on the descriptors.                        *)
LEMMA LeftSame ==
  ASSUME NEW p, NEW q, Buffers(p), Buffers(q), Len(p) = Len(q),
         \A i \in 1..Len(q) : p[i].wpos = q[i].wpos /\ p[i].rpos = q[i].rpos
  PROVE  \A i \in 0..Len(q) : Left(p)[i] = Left(q)[i]
<1> DEFINE f == Left(p)
           g == Left(q)
           n == Len(q)
           T == {k \in Nat : k <= n => f[k] = g[k]}
<1>1. n \in Nat
  BY LenProperties DEF Buffers
<1>2. f[0] = 0 /\ \A k \in 1..n : f[k] = f[k - 1] + (p[k].wpos - p[k].rpos)
  BY LeftSums
<1>3. g[0] = 0 /\ \A k \in 1..n : g[k] = g[k - 1] + (q[k].wpos - q[k].rpos)
  BY LeftSums
<1> HIDE DEF f, g, n
<1>4. 0 \in T
  BY <1>2, <1>3
<1>5. ASSUME NEW k \in Nat, k \in T PROVE k + 1 \in T
  <2> SUFFICES ASSUME k + 1 <= n PROVE f[k + 1] = g[k + 1]
    OBVIOUS
  <2>1. k + 1 \in 1..n /\ (k + 1) - 1 = k /\ f[k] = g[k]
    BY <1>1, <1>5
  <2>2. p[k + 1].wpos = q[k + 1].wpos /\ p[k + 1].rpos = q[k + 1].rpos
    BY <2>1 DEF n
  <2> QED
    BY <1>2, <1>3, <2>1, <2>2
<1> HIDE DEF T
<1>6. Nat \subseteq T
  BY <1>4, <1>5, AllNat
<1> QED
  BY <1>1, <1>6 DEF T, n, f, g

(* The buffer the j-th of the units left is in.                            *)
At(q, i, j) == Left(q)[i - 1] < j /\ j <= Left(q)[i]

LEMMA OneBuffer ==
  ASSUME NEW q, Buffers(q), NEW i \in 1..Len(q), NEW k \in 1..Len(q), NEW j \in Nat,
         At(q, i, j), At(q, k, j)
  PROVE  i = k
<1> DEFINE f == Left(q)
<1>1. Len(q) \in Nat
  BY LenProperties DEF Buffers
<1>2. f[i - 1] \in Nat /\ f[i] \in Nat /\ f[k - 1] \in Nat /\ f[k] \in Nat
  BY <1>1, LeftSums
<1>3. \A a, b \in 0..Len(q) : a < b => f[a] < f[b]
  BY LeftIncreases
<1> HIDE DEF f
<1>4. CASE i < k
  <2>1. i = k - 1 \/ f[i] < f[k - 1]
    BY <1>1, <1>3, <1>4
  <2> QED
    BY <1>2, <2>1 DEF At, f
<1>5. CASE k < i
  <2>1. k = i - 1 \/ f[k] < f[i - 1]
    BY <1>1, <1>3, <1>5
  <2> QED
    BY <1>2, <2>1 DEF At, f
<1> QED
  BY <1>1, <1>4, <1>5

LEMMA SomeBuffer ==
  ASSUME NEW q, Buffers(q), NEW g \in 1..Len(q), NEW j \in 1..Left(q)[g]
  PROVE  \E i \in 1..g : At(q, i, j)
<1> DEFINE f == Left(q)
           T == {i \in 1..g : j <= f[i]}
<1>1. Len(q) \in Nat /\ f[0] = 0 /\ \A i \in 0..Len(q) : f[i] \in Nat
  BY LenProperties, LeftSums DEF Buffers
<1>2. g \in T /\ T \subseteq Nat
  BY <1>1
<1>3. PICK i \in T : \A k \in T : i <= k
  <2> HIDE DEF T
  <2> QED
    BY <1>2, LeastNat, Zenon
<1>4. f[i - 1] < j
  <2>1. CASE i = 1
    BY <1>1, <2>1
  <2>2. CASE i # 1
    <3>1. i - 1 \in 1..g /\ i - 1 \notin T /\ f[i - 1] \in Nat
      BY <1>1, <1>3, <2>2
    <3> QED
      BY <1>1, <3>1
  <2> QED
    BY <2>1, <2>2
<1> QED
  BY <1>3, <1>4 DEF At

(* The j-th of the units is in buffer i.                                   *)
LEMMA IovUnit ==
  ASSUME NEW q, Buffers(q), NEW g \in 1..Len(q),
         NEW j \in 1..Left(q)[g], NEW i \in 1..g, At(q, i, j)
  PROVE  Iov(q, g)[j] = [m |-> q[i].m, u |-> q[i].rpos + (j - Left(q)[i - 1]),
                         fd |-> IF j = 1 THEN q[1].fd ELSE None]
<1> DEFINE b == CHOOSE k \in 1..g : Left(q)[k - 1] < j /\ j <= Left(q)[k]
<1>1. Len(q) \in Nat /\ Left(q)[g] \in Nat
  BY LenProperties, LeftSums DEF Buffers
<1>2. b \in 1..g /\ At(q, b, j)
  BY DEF At
<1>3. b = i
  <2> HIDE DEF b
  <2>1. b \in 1..Len(q) /\ i \in 1..Len(q) /\ j \in Nat
    BY <1>1, <1>2
  <2> QED
    BY <1>2, <2>1, OneBuffer
<1>4. Iov(q, g)[j] = [m |-> q[b].m, u |-> q[b].rpos + (j - Left(q)[b - 1]),
                      fd |-> IF j = 1 THEN q[1].fd ELSE None]
  BY DEF Iov
<1> QED
  BY <1>3, <1>4, Zenon

LEMMA IovLen ==
  ASSUME NEW q, Buffers(q), NEW g \in 1..Len(q)
  PROVE  Len(Iov(q, g)) = Left(q)[g] /\ Left(q)[g] \in Nat /\ DOMAIN Iov(q, g) = 1..Left(q)[g]
<1>1. Len(q) \in Nat /\ Left(q)[g] \in Nat
  BY LenProperties, LeftSums DEF Buffers
<1>2. DOMAIN Iov(q, g) = 1..Left(q)[g]
  BY DEF Iov
<1>3. Iov(q, g) = [j \in 1..Left(q)[g] |-> Iov(q, g)[j]]
  BY DEF Iov
<1>4. Iov(q, g) \in Seq({Iov(q, g)[j] : j \in 1..Left(q)[g]})
  <2> DEFINE l == Left(q)[g]
             v == Iov(q, g)
  <2>1. l \in Nat /\ v = [j \in 1..l |-> v[j]]
    BY <1>1, <1>3
  <2> HIDE DEF l, v
  <2>2. v \in [1..l -> {v[j] : j \in 1..l}]
    BY <2>1
  <2>3. v \in Seq({v[j] : j \in 1..l})
    BY <2>1, <2>2, SeqDef, Zenon
  <2> QED
    BY <2>3 DEF l, v
<1> QED
  BY <1>1, <1>2, <1>4, LenProperties

LEMMA DoneBuffers ==
  ASSUME NEW q, Buffers(q), NEW n \in Nat
  PROVE  /\ Done(q, n) \in 0..Len(q) /\ Left(q)[Done(q, n)] <= n
         /\ Done(q, n) < Len(q) => n < Left(q)[Done(q, n) + 1]
<1> DEFINE f == Left(q)
           T == {d \in 0..Len(q) : d < Len(q) => n < f[d + 1]}
<1>1. Len(q) \in Nat /\ f[0] = 0 /\ \A i \in 0..Len(q) : f[i] \in Nat
  BY LenProperties, LeftSums DEF Buffers
<1>2. Len(q) \in T /\ T \subseteq Nat
  BY <1>1
<1>3. PICK d \in T : \A k \in T : d <= k
  <2> HIDE DEF T
  <2> QED
    BY <1>2, LeastNat, Zenon
<1>4. f[d] <= n
  <2>1. CASE d = 0
    BY <1>1, <2>1
  <2>2. CASE d # 0
    <3>0. d - 1 \in 0..Len(q) /\ (d - 1) + 1 = d /\ ~(d <= d - 1)
      BY <1>1, <2>2
    <3>1. d - 1 \in 0..Len(q) /\ d - 1 \notin T /\ (d - 1) + 1 = d
      BY <1>3, <3>0, Zenon
    <3>2. ~(n < f[d])
      BY <3>1
    <3> QED
      BY <1>1, <1>3, <3>2
  <2> QED
    BY <2>1, <2>2
<1>5. \E e \in 0..Len(q) : f[e] <= n /\ (e < Len(q) => n < f[e + 1])
  BY <1>3, <1>4
<1> QED
  BY <1>5 DEF Done

LEMMA GatherBuffers ==
  ASSUME NEW q, q \in Seq(Bufs), q # <<>>
  PROVE  Gather(q) \in 1..Len(q) /\ \A i \in 2..Gather(q) : q[i].fd = None
<1> DEFINE c == Least(IovMax, Len(q))
           T == {g \in 1..c : g = c \/ q[g + 1].fd # None}
<1>1. Len(q) \in Nat \ {0} /\ IovMax \in Nat \ {0}
  BY ImsgAssumption, EmptySeq
<1>2. c \in Nat \ {0} /\ c <= Len(q)
  BY <1>1 DEF Least
<1> HIDE DEF c
<1>3. c \in T /\ T \subseteq Nat
  BY <1>2
<1>4. PICK g \in T : \A k \in T : g <= k
  <2> HIDE DEF T
  <2> QED
    BY <1>3, LeastNat, Zenon
<1>5. ASSUME NEW i \in 2..g PROVE q[i].fd = None
  <2>1. i - 1 \in 1..c /\ i - 1 \notin T /\ (i - 1) + 1 = i
    BY <1>2, <1>4
  <2> QED
    BY <2>1
<1>6. \E e \in 1..c : (\A i \in 2..e : q[i].fd = None) /\ (e = c \/ q[e + 1].fd # None)
  BY <1>4, <1>5
<1>7. Gather(q) \in 1..c /\ \A i \in 2..Gather(q) : q[i].fd = None
  BY <1>6 DEF Gather, c
<1> QED
  BY <1>1, <1>2, <1>7

-----------------------------------------------------------------------------
(* The units of the messages ms, in the order they were composed.          *)

Msgs == [len : HdrSize..MaxImsg, fd : BOOLEAN]

Unit(x) == <<x.m, x.u>>

Valid(a, ms) == a \in Nat \X Nat /\ a[1] \in 1..Len(ms) /\ a[2] \in 1..ms[a[1]].len

After(a, ms) == IF a[2] < ms[a[1]].len THEN <<a[1], a[2] + 1>> ELSE <<a[1] + 1, 1>>

(* A descriptor travels with the first unit of its message.                *)
Tag(a, ms) == IF a[2] = 1 /\ ms[a[1]].fd THEN a[1] ELSE None

(* The sender's queue q: the last messages, the first of them perhaps sent *)
(* in part, and its descriptor with it.                                    *)
Queue(q, ms) ==
    /\ Buffers(q) /\ Len(q) <= Len(ms)
    /\ \A i \in 1..Len(q) :
          /\ q[i].m = Len(ms) - Len(q) + i /\ q[i].m \in 1..Len(ms)
          /\ q[i].wpos = ms[q[i].m].len
          /\ i > 1 => q[i].rpos = 0
          /\ q[i].fd = IF ms[q[i].m].fd /\ q[i].rpos = 0 THEN q[i].m ELSE None

ToSend(q, ms) == IF q = <<>> THEN <<Len(ms) + 1, 1>> ELSE <<q[1].m, q[1].rpos + 1>>

LEMMA QueueFacts ==
  ASSUME NEW ms \in Seq(Msgs), NEW q, Queue(q, ms)
  PROVE  /\ Buffers(q) /\ Len(q) \in Nat /\ Len(ms) \in Nat /\ q \in Seq(Bufs)
         /\ \A i \in 1..Len(q) : /\ q[i] \in Bufs /\ q[i].rpos < q[i].wpos
                                 /\ ms[q[i].m] \in Msgs /\ ms[q[i].m].len \in Nat
  <1>1. Buffers(q) /\ q \in Seq(Bufs) /\ Len(q) \in Nat /\ Len(ms) \in Nat
    BY LenProperties DEF Queue, Buffers
  <1>2. ASSUME NEW i \in 1..Len(q)
        PROVE  /\ q[i] \in Bufs /\ q[i].rpos < q[i].wpos
               /\ ms[q[i].m] \in Msgs
    BY <1>1, ElementOfSeq DEF Queue, Buffers
  <1>3. \A x \in Msgs : x.len \in Nat
    BY ImsgAssumption DEF Msgs
  <1> QED
    BY <1>1, <1>2, <1>3

(* Neighbours in the queue are consecutive messages.                       *)
LEMMA QueueNext ==
  ASSUME NEW ms \in Seq(Msgs), NEW q, Queue(q, ms), NEW k \in 1..Len(q), k + 1 \in 1..Len(q)
  PROVE  q[k + 1].m = q[k].m + 1 /\ q[k + 1].rpos = 0
<1> DEFINE M == Len(ms)
           L == Len(q)
<1>1. M \in Nat /\ L \in Nat /\ k \in Nat /\ k + 1 > 1
  BY QueueFacts
<1>2. q[k].m = M - L + k /\ q[k + 1].m = M - L + (k + 1) /\ (k + 1 > 1 => q[k + 1].rpos = 0)
  BY DEF Queue
<1> HIDE DEF M, L
<1>3. M - L + (k + 1) = (M - L + k) + 1
  BY <1>1
<1> QED
  BY <1>1, <1>2, <1>3

LEMMA IovAfter ==
  ASSUME NEW ms \in Seq(Msgs), NEW q, Queue(q, ms), NEW g \in 1..Len(q),
         NEW j \in 1..Left(q)[g], NEW i \in 1..g, At(q, i, j)
  PROVE  /\ Unit(Iov(q, g)[j]) = <<q[i].m, q[i].rpos + (j - Left(q)[i - 1])>>
         /\ Valid(Unit(Iov(q, g)[j]), ms)
         /\ After(Unit(Iov(q, g)[j]), ms) =
               IF j < Left(q)[i] THEN <<q[i].m, q[i].rpos + (j - Left(q)[i - 1]) + 1>>
               ELSE <<q[i].m + 1, 1>>
<1> DEFINE x == Iov(q, g)[j]
           a == Left(q)[i - 1]
           b == Left(q)[i]
           rp == q[i].rpos
           wp == q[i].wpos
           mm == q[i].m
<1>1. i \in 1..Len(q) /\ Len(q) \in Nat /\ Left(q)[g] \in Nat
  BY QueueFacts, LeftSums
<1>2. a \in Nat /\ b \in Nat /\ b = a + (wp - rp) /\ a < j /\ j <= b /\ j \in Nat
  BY <1>1, QueueFacts, LeftSums DEF At
<1>3. rp \in Nat /\ wp \in Nat /\ rp < wp /\ mm \in 1..Len(ms) /\ mm \in Nat /\ wp = ms[mm].len
  BY <1>1, QueueFacts, Zenon DEF Queue, Bufs
<1>4. x.m = mm /\ x.u = rp + (j - a)
  <2> DEFINE d == IF j = 1 THEN q[1].fd ELSE None
  <2>1. x = [m |-> mm, u |-> rp + (j - a), fd |-> d]
    BY QueueFacts, IovUnit
  <2> HIDE DEF d, x
  <2> QED
    BY <2>1
<1>5. Unit(x) = <<mm, rp + (j - a)>>
  BY <1>4 DEF Unit
<1> HIDE DEF x, a, b, rp, wp, mm
<1>6. rp + (j - a) \in 1..wp /\ rp + (j - a) \in Nat /\ (rp + (j - a) < wp <=> j < b)
  <2>1. \A a1, b1, j1, r1, w1 \in Nat :
           a1 < j1 /\ j1 <= b1 /\ r1 < w1 /\ b1 = a1 + (w1 - r1) =>
              r1 + (j1 - a1) \in 1..w1 /\ r1 + (j1 - a1) \in Nat /\ (r1 + (j1 - a1) < w1 <=> j1 < b1)
    OBVIOUS
  <2>2. a < j /\ j <= b /\ rp < wp /\ b = a + (wp - rp)
    BY <1>2, <1>3
  <2>3. a \in Nat /\ b \in Nat /\ j \in Nat /\ rp \in Nat /\ wp \in Nat
    BY <1>2, <1>3
  <2> QED
    BY <2>1, <2>2, <2>3
<1>7. Valid(Unit(x), ms)
  BY <1>3, <1>5, <1>6 DEF Valid
<1>8. After(Unit(x), ms) = IF j < b THEN <<mm, rp + (j - a) + 1>> ELSE <<mm + 1, 1>>
  BY <1>3, <1>5, <1>6 DEF After
<1> QED
  BY <1>5, <1>7, <1>8 DEF x, a, b, rp, wp, mm

LEMMA IovFirst ==
  ASSUME NEW ms \in Seq(Msgs), NEW q, Queue(q, ms), NEW g \in 1..Len(q)
  PROVE  /\ 1 \in 1..Left(q)[g] /\ At(q, 1, 1)
         /\ Unit(Iov(q, g)[1]) = ToSend(q, ms)
<1>1. Len(q) \in Nat /\ Buffers(q) /\ q \in Seq(Bufs) /\ q # <<>>
  BY QueueFacts, EmptySeq
<1>2. Left(q)[0] = 0 /\ Left(q)[1] \in Nat /\ Left(q)[0] < Left(q)[1] /\ Left(q)[g] \in Nat
  BY <1>1, LeftSums
<1>3. Left(q)[0] < Left(q)[g]
  BY <1>1, LeftIncreases
<1>4. 1 \in 1..Left(q)[g] /\ At(q, 1, 1)
  BY <1>2, <1>3 DEF At
<1>5. q[1].rpos \in Nat
  BY <1>1, QueueFacts DEF Bufs
<1>6. Unit(Iov(q, g)[1]) = <<q[1].m, q[1].rpos + (1 - Left(q)[1 - 1])>>
  <2>1. 1 \in 1..g
    BY <1>1
  <2> QED
    BY <1>4, <2>1, IovAfter, Zenon
<1>7. q[1].rpos + (1 - Left(q)[1 - 1]) = q[1].rpos + 1
  BY <1>2, <1>5
<1> QED
  BY <1>1, <1>4, <1>6, <1>7 DEF ToSend

LEMMA IovNext ==
  ASSUME NEW ms \in Seq(Msgs), NEW q, Queue(q, ms), NEW g \in 1..Len(q),
         NEW j \in 1..Left(q)[g], j + 1 \in 1..Left(q)[g]
  PROVE  Unit(Iov(q, g)[j + 1]) = After(Unit(Iov(q, g)[j]), ms)
<1>1. Len(q) \in Nat /\ Buffers(q) /\ Left(q)[g] \in Nat
  BY QueueFacts, LeftSums
<1>2. PICK i \in 1..g : At(q, i, j)
  BY <1>1, SomeBuffer
<1>3. i \in 1..Len(q) /\ Left(q)[i] \in Nat /\ Left(q)[i - 1] \in Nat /\ j \in Nat
  BY <1>1, LeftSums
<1>4. CASE j < Left(q)[i]
  <2>1. At(q, i, j + 1)
    BY <1>2, <1>3, <1>4 DEF At
  <2>2. Unit(Iov(q, g)[j + 1]) = <<q[i].m, q[i].rpos + ((j + 1) - Left(q)[i - 1])>>
    BY <2>1, IovAfter, Zenon
  <2>3. After(Unit(Iov(q, g)[j]), ms) = <<q[i].m, q[i].rpos + (j - Left(q)[i - 1]) + 1>>
    BY <1>2, <1>4, IovAfter, Zenon
  <2>4. q[i].rpos \in Nat
    BY <1>3, QueueFacts, Zenon DEF Bufs
  <2>5. q[i].rpos + ((j + 1) - Left(q)[i - 1]) = q[i].rpos + (j - Left(q)[i - 1]) + 1
    <3> DEFINE a == Left(q)[i - 1]
               rp == q[i].rpos
    <3>1. a \in Nat /\ rp \in Nat /\ j \in Nat
      BY <1>3, <2>4
    <3> HIDE DEF a, rp
    <3>2. rp + ((j + 1) - a) = rp + (j - a) + 1
      BY <3>1
    <3> QED
      BY <3>2 DEF a, rp
  <2> QED
    BY <2>2, <2>3, <2>5
<1>5. CASE j = Left(q)[i]
  <2>1. i # g /\ i + 1 \in 1..g /\ i + 1 \in 1..Len(q) /\ (i + 1) - 1 = i
    BY <1>1, <1>3, <1>5
  <2>2. Left(q)[i] < Left(q)[i + 1] /\ Left(q)[i + 1] \in Nat
    BY <1>1, <2>1, LeftSums
  <2>3. At(q, i + 1, j + 1)
    BY <1>3, <1>5, <2>1, <2>2 DEF At
  <2>4. Unit(Iov(q, g)[j + 1]) = <<q[i + 1].m, q[i + 1].rpos + ((j + 1) - Left(q)[(i + 1) - 1])>>
    BY <2>1, <2>3, IovAfter, Zenon
  <2>5. After(Unit(Iov(q, g)[j]), ms) = <<q[i].m + 1, 1>>
    <3>1. ~(j < Left(q)[i])
      BY <1>3, <1>5
    <3> QED
      BY <1>2, <3>1, IovAfter, Zenon
  <2>6. q[i + 1].m = q[i].m + 1 /\ q[i + 1].rpos = 0
    BY <1>3, <2>1, QueueNext, Zenon
  <2> QED
    BY <1>3, <1>5, <2>1, <2>4, <2>5, <2>6
<1> QED
  BY <1>2, <1>3, <1>4, <1>5 DEF At

LEMMA IovTag ==
  ASSUME NEW ms \in Seq(Msgs), NEW q, Queue(q, ms), NEW g \in 1..Len(q),
         \A i \in 2..g : q[i].fd = None, NEW j \in 1..Left(q)[g]
  PROVE  Iov(q, g)[j].fd = Tag(Unit(Iov(q, g)[j]), ms)
<1>1. Len(q) \in Nat /\ Buffers(q) /\ Left(q)[g] \in Nat
  BY QueueFacts, LeftSums
<1>2. PICK i \in 1..g : At(q, i, j)
  BY <1>1, SomeBuffer
<1>3. /\ i \in 1..Len(q) /\ 1 \in 1..Len(q) /\ Left(q)[i - 1] \in Nat /\ Left(q)[0] = 0 /\ j \in Nat
      /\ Left(q)[i - 1] < j
  BY <1>1, <1>2, LeftSums DEF At
<1>4. Iov(q, g)[j].fd = IF j = 1 THEN q[1].fd ELSE None
  <2> DEFINE d == IF j = 1 THEN q[1].fd ELSE None
             x == Iov(q, g)[j]
             v == q[i].rpos + (j - Left(q)[i - 1])
  <2>1. x = [m |-> q[i].m, u |-> v, fd |-> d]
    BY <1>1, <1>2, IovUnit
  <2>2. x.fd = d
    <3> HIDE DEF x, v, d
    <3> QED
      BY <2>1
  <2> QED
    BY <2>2
<1>5. Unit(Iov(q, g)[j]) = <<q[i].m, q[i].rpos + (j - Left(q)[i - 1])>>
  BY <1>2, IovAfter, Zenon
<1>6. q[i].rpos \in Nat
  BY <1>3, QueueFacts, Zenon DEF Bufs
<1>7. CASE i = 1
  <2>1. q[i].rpos + (j - Left(q)[i - 1]) = 1 <=> j = 1 /\ q[1].rpos = 0
    BY <1>3, <1>6, <1>7
  <2>2. q[1].fd = IF ms[q[1].m].fd /\ q[1].rpos = 0 THEN q[1].m ELSE None
    BY <1>3 DEF Queue
  <2> QED
    BY <1>4, <1>5, <1>7, <2>1, <2>2 DEF Tag
<1>8. CASE i # 1
  <2>1. i \in 2..g /\ q[i].rpos = 0 /\ q[i].m # None
    BY <1>1, <1>3, <1>8 DEF Queue, None
  <2>2. ~ms[q[i].m].fd
    <3>1. q[i].fd = IF ms[q[i].m].fd /\ q[i].rpos = 0 THEN q[i].m ELSE None
      BY <1>3 DEF Queue
    <3>2. q[i].fd = None
      BY <2>1
    <3>3. ASSUME ms[q[i].m].fd PROVE FALSE
      <4>1. q[i].fd = q[i].m
        BY <2>1, <3>1, <3>3
      <4> QED
        BY <2>1, <3>2, <4>1
    <3> QED
      BY <3>3
  <2>3. j # 1
    <3>1. i - 1 \in 1..Len(q) /\ (i - 1) \in 0..Len(q) /\ 0 < i - 1 /\ 0 \in 0..Len(q)
      BY <1>1, <2>1
    <3>2. Left(q)[0] < Left(q)[i - 1]
      BY <1>1, <3>1, LeftIncreases
    <3> QED
      BY <1>3, <3>2
  <2> QED
    BY <1>4, <1>5, <2>2, <2>3 DEF Tag
<1> QED
  BY <1>7, <1>8

(* msgbuf_write closes the descriptor of the first buffer.                 *)
LEMMA FdClosed ==
  ASSUME NEW ms \in Seq(Msgs), NEW q, Queue(q, ms), q # <<>>
  PROVE  LET p == [q EXCEPT ![1].fd = None]
         IN  /\ Buffers(p) /\ Len(p) = Len(q)
             /\ \A i \in 1..Len(q) : /\ p[i] \in Bufs /\ p[i].m = q[i].m /\ p[i].wpos = q[i].wpos
                                     /\ p[i].rpos = q[i].rpos
                                     /\ p[i].fd = IF i = 1 THEN None ELSE q[i].fd
             /\ \A i \in 0..Len(q) : Left(p)[i] = Left(q)[i]
<1> DEFINE p == [q EXCEPT ![1].fd = None]
           e == [q[1] EXCEPT !.fd = None]
<1>1. Len(q) \in Nat \ {0} /\ q \in Seq(Bufs) /\ Buffers(q) /\ q[1] \in Bufs
  BY QueueFacts, EmptySeq
<1>2. e \in Bufs /\ e.m = q[1].m /\ e.wpos = q[1].wpos /\ e.rpos = q[1].rpos /\ e.fd = None
  BY <1>1, Zenon DEF Bufs, None
<1>3. p = [q EXCEPT ![1] = e]
  OBVIOUS
<1> HIDE DEF p, e
<1>4. p \in Seq(Bufs) /\ Len(p) = Len(q) /\ \A i \in 1..Len(q) : p[i] = IF i = 1 THEN e ELSE q[i]
  BY <1>1, <1>2, <1>3, ExceptSeq
<1>5. \A i \in 1..Len(q) : /\ p[i] \in Bufs /\ p[i].m = q[i].m /\ p[i].wpos = q[i].wpos
                           /\ p[i].rpos = q[i].rpos
                           /\ p[i].fd = IF i = 1 THEN None ELSE q[i].fd
  BY <1>2, <1>4, QueueFacts
<1>6. Buffers(p)
  BY <1>1, <1>4, <1>5 DEF Buffers
<1>7. \A i \in 0..Len(q) : Left(p)[i] = Left(q)[i]
  BY <1>1, <1>4, <1>5, <1>6, LeftSame
<1> QED
  BY <1>4, <1>5, <1>6, <1>7, Zenon DEF p

(* After n units of the first g buffers the queue goes on where they end.  *)
LEMMA Drained ==
  ASSUME NEW ms \in Seq(Msgs), NEW q, Queue(q, ms), NEW g \in 1..Len(q),
         \A i \in 2..g : q[i].fd = None, NEW n \in 1..Left(q)[g]
  PROVE  LET rest == MsgbufDrain([q EXCEPT ![1].fd = None], n)
         IN  Queue(rest, ms) /\ ToSend(rest, ms) = After(Unit(Iov(q, g)[n]), ms)
<1> DEFINE p == [q EXCEPT ![1].fd = None]
           rest == MsgbufDrain(p, n)
           d == Done(p, n)
           L == Len(q)
           f == Left(q)
           tail == SubSeq(p, d + 1, Len(p))
<1> SUFFICES Queue(rest, ms) /\ ToSend(rest, ms) = After(Unit(Iov(q, g)[n]), ms)
  OBVIOUS
<1>1. L \in Nat \ {0} /\ Buffers(q) /\ q # <<>> /\ f[g] \in Nat /\ n \in Nat
  BY QueueFacts, EmptySeq, LeftSums
<1>2. /\ Buffers(p) /\ Len(p) = L /\ p \in Seq(Bufs)
      /\ \A i \in 1..L : /\ p[i] \in Bufs /\ p[i].m = q[i].m /\ p[i].wpos = q[i].wpos
                         /\ p[i].rpos = q[i].rpos
                         /\ p[i].fd = IF i = 1 THEN None ELSE q[i].fd
      /\ \A i \in 0..L : Left(p)[i] = f[i]
  BY <1>1, FdClosed, Zenon DEF Buffers
<1> HIDE DEF p
<1>3. d \in 0..L /\ Left(p)[d] = f[d] /\ f[d] <= n /\ (d < L => n < f[d + 1])
  <2>1. d \in 0..L /\ Left(p)[d] <= n /\ (d < L => n < Left(p)[d + 1])
    BY <1>1, <1>2, DoneBuffers, Zenon
  <2>2. d < L => d + 1 \in 0..L
    BY <1>1, <2>1
  <2> QED
    BY <1>2, <2>1, <2>2
<1>4. rest = IF tail = <<>> THEN tail ELSE [tail EXCEPT ![1].rpos = @ + (n - f[d])]
  BY <1>2, <1>3 DEF MsgbufDrain
<1> HIDE DEF d, rest
<1>5. tail \in Seq(Bufs) /\ Len(tail) = L - d /\ \A i \in 1..(L - d) : tail[i] = p[d + i]
  <2>1. d + 1 \in 1..(L + 1) /\ d \in Nat
    BY <1>1, <1>3
  <2> QED
    BY <1>1, <1>2, <1>3, <2>1, SubSeqProperties
<1> HIDE DEF tail
<1>6. f[L] \in Nat /\ f[d] \in Nat /\ (\A i \in 1..L : f[i - 1] \in Nat /\ f[i] \in Nat /\ f[i - 1] < f[i])
  <2>1. \A i \in 0..L : f[i] \in Nat
    BY <1>1, LeftSums
  <2>2. \A i \in 1..L : f[i - 1] < f[i]
    BY <1>1, LeftSums
  <2>3. L \in 0..L /\ \A i \in 1..L : i - 1 \in 0..L /\ i \in 0..L
    BY <1>1
  <2> QED
    BY <1>3, <2>1, <2>2, <2>3
<1>7. CASE d = L
  <2>1. rest = <<>> /\ Len(rest) = 0
    BY <1>1, <1>4, <1>5, <1>7, EmptySeq
  <2>2. Queue(rest, ms)
    <3>1. 1..Len(rest) = {} /\ Len(rest) <= Len(ms)
      BY <2>1, QueueFacts
    <3>2. rest \in Seq(Bufs)
      BY <2>1, EmptySeq
    <3> QED
      BY <3>1, <3>2, Zenon DEF Queue, Buffers
  <2>3. g = L
    <3>1. g < L => f[g] < f[L]
      BY <1>1, LeftIncreases
    <3> QED
      BY <1>1, <1>3, <1>6, <1>7, <3>1
  <2>4. At(q, g, n) /\ ~(n < f[g])
    BY <1>1, <1>3, <1>6, <1>7, <2>3 DEF At
  <2>5. After(Unit(Iov(q, g)[n]), ms) = <<q[g].m + 1, 1>>
    <3>1. g \in 1..g /\ n \in 1..Left(q)[g]
      BY <1>1
    <3> QED
      BY <2>4, <3>1, IovAfter, Zenon
  <2>6. q[g].m = Len(ms)
    BY <1>1, <2>3, QueueFacts DEF Queue
  <2> QED
    BY <2>1, <2>2, <2>5, <2>6 DEF ToSend
<1>8. CASE d < L
  <2> DEFINE b == p[d + 1]
             e == [b EXCEPT !.rpos = @ + (n - f[d])]
  <2>1. d + 1 \in 1..L /\ d \in Nat /\ (d + 1) - 1 = d /\ tail # <<>> /\ 1 \in 1..(L - d)
    <3>1. d + 1 \in 1..L /\ d \in Nat /\ (d + 1) - 1 = d /\ 1 \in 1..(L - d) /\ L - d # 0
      BY <1>1, <1>3, <1>8
    <3> QED
      BY <1>5, <3>1, EmptySeq
  <2>2. b \in Bufs /\ tail[1] = b /\ n < f[d + 1] /\ f[d + 1] = f[d] + (b.wpos - b.rpos)
    <3>1. f[d + 1] = f[d] + (q[d + 1].wpos - q[d + 1].rpos)
      BY <1>1, <2>1, LeftSums
    <3> QED
      BY <1>2, <1>3, <1>5, <1>8, <2>1, <3>1
  <2>3. b.rpos \in Nat /\ b.wpos \in Nat /\ b.rpos < b.wpos
    BY <1>2, <2>1, <2>2, Zenon DEF Buffers, Bufs
  <2>4. b.rpos + (n - f[d]) \in Nat /\ b.rpos + (n - f[d]) < b.wpos
    <3> DEFINE x == f[d]
               y == b.rpos
               z == b.wpos
               v == f[d + 1]
    <3>1. /\ x \in Nat /\ x <= n /\ n < v /\ v = x + (z - y) /\ n \in Nat
          /\ y \in Nat /\ z \in Nat /\ y < z
      BY <1>1, <1>3, <1>6, <2>2, <2>3
    <3> HIDE DEF x, y, z, v
    <3>2. y + (n - x) \in Nat /\ y + (n - x) < z
      BY <3>1
    <3> QED
      BY <3>2 DEF x, y, z
  <2>5. /\ e \in Bufs /\ e.m = b.m /\ e.wpos = b.wpos /\ e.rpos = b.rpos + (n - f[d]) /\ e.fd = b.fd
    <3> DEFINE y == b.rpos + (n - f[d])
    <3>1. y \in Nat /\ e = [b EXCEPT !.rpos = y]
      BY <2>4
    <3> HIDE DEF y, e, b
    <3>2. /\ e \in Bufs /\ e.m = b.m /\ e.wpos = b.wpos /\ e.rpos = y /\ e.fd = b.fd
      BY <2>2, <3>1 DEF Bufs
    <3> QED
      BY <3>2 DEF y
  <2>6. rest = [tail EXCEPT ![1] = e]
    BY <1>4, <2>1, <2>2
  <2> HIDE DEF e, b
  <2>7. /\ rest \in Seq(Bufs) /\ Len(rest) = L - d /\ L - d \in Nat
        /\ \A i \in 1..(L - d) : rest[i] = IF i = 1 THEN e ELSE p[d + i]
    <3>1. L - d \in Nat /\ 1 \in 1..Len(tail)
      BY <1>1, <1>3, <1>5, <2>1
    <3>2. rest \in Seq(Bufs) /\ Len(rest) = Len(tail)
      BY <1>5, <2>5, <2>6, <3>1, ExceptSeq
    <3>3. DOMAIN tail = 1..(L - d)
      BY <1>5, LenProperties
    <3> QED
      BY <1>5, <2>6, <3>1, <3>2, <3>3
  <2>8. ASSUME NEW i \in 1..Len(rest)
        PROVE  /\ rest[i].rpos < rest[i].wpos
               /\ rest[i].m = Len(ms) - Len(rest) + i /\ rest[i].m \in 1..Len(ms)
               /\ rest[i].wpos = ms[rest[i].m].len
               /\ i > 1 => rest[i].rpos = 0
               /\ rest[i].fd = IF ms[rest[i].m].fd /\ rest[i].rpos = 0 THEN rest[i].m ELSE None
    <3> DEFINE k == d + i
    <3>1. k \in 1..L /\ i \in 1..(L - d)
      BY <1>1, <1>3, <2>7
    <3>2. /\ q[k].m = Len(ms) - L + k /\ q[k].m \in 1..Len(ms)
          /\ q[k].wpos = ms[q[k].m].len /\ q[k].rpos < q[k].wpos
          /\ k > 1 => q[k].rpos = 0
          /\ q[k].fd = IF ms[q[k].m].fd /\ q[k].rpos = 0 THEN q[k].m ELSE None
      BY <3>1 DEF Queue, Buffers
    <3>3. Len(ms) - L + k = Len(ms) - Len(rest) + i
      BY <1>1, <1>3, <2>7, QueueFacts
    <3>4. /\ p[k].m = q[k].m /\ p[k].wpos = q[k].wpos /\ p[k].rpos = q[k].rpos
          /\ p[k].fd = IF k = 1 THEN None ELSE q[k].fd
      BY <1>2, <3>1
    <3>5. CASE i > 1
      <4>1. rest[i] = p[k] /\ k # 1 /\ k > 1
        BY <2>1, <2>7, <3>1, <3>5
      <4> HIDE DEF k
      <4>2. /\ rest[i].m = q[k].m /\ rest[i].wpos = q[k].wpos /\ rest[i].rpos = q[k].rpos
            /\ rest[i].fd = q[k].fd
        BY <3>4, <4>1
      <4> QED
        BY <3>2, <3>3, <4>1, <4>2
    <3>6. CASE i = 1
      <4>1. rest[i] = e /\ k = d + 1 /\ b = p[k]
        BY <2>7, <3>1, <3>6 DEF b
      <4>2. /\ rest[i].m = q[k].m /\ rest[i].wpos = q[k].wpos /\ rest[i].fd = p[k].fd
            /\ rest[i].rpos = q[k].rpos + (n - f[d]) /\ rest[i].rpos < rest[i].wpos
        BY <2>4, <2>5, <3>4, <4>1
      <4>3. p[k].fd = IF ms[q[k].m].fd /\ rest[i].rpos = 0 THEN q[k].m ELSE None
        <5>0. q[k].rpos \in Nat /\ f[0] = 0
          BY <1>1, <3>1, QueueFacts, LeftSums, Zenon DEF Bufs
        <5>1. CASE k = 1
          <6>0. d = 0
            BY <2>1, <4>1, <5>1
          <6>1. rest[i].rpos # 0
            BY <1>1, <4>2, <5>0, <6>0
          <6> QED
            BY <3>4, <5>1, <6>1
        <5>2. CASE k # 1 /\ n = f[d]
          <6>1. q[k].rpos = 0 /\ rest[i].rpos = 0 /\ p[k].fd = q[k].fd
            <7>1. k > 1 /\ f[d] \in Nat
              BY <1>1, <1>6, <3>1, <5>2
            <7>2. q[k].rpos = 0 /\ p[k].fd = q[k].fd
              BY <3>2, <3>4, <5>2, <7>1
            <7>3. n - f[d] = 0
              BY <5>2, <7>1
            <7> QED
              BY <4>2, <7>2, <7>3
          <6> QED
            BY <3>2, <6>1
        <5>3. CASE k # 1 /\ n # f[d]
          <6>1. k \in 2..g
            BY <1>1, <1>3, <1>6, <2>1, <4>1, <5>3, LeftIncreases
          <6>2. p[k].fd = None /\ q[k].rpos = 0
            BY <3>1, <3>2, <3>4, <5>3, <6>1
          <6>3. rest[i].rpos # 0
            BY <1>1, <1>3, <1>6, <4>2, <5>3, <6>2
          <6> QED
            BY <6>2, <6>3
        <5> QED
          BY <5>1, <5>2, <5>3
      <4>4. ~(i > 1)
        BY <3>6
      <4> QED
        BY <3>2, <3>3, <4>2, <4>3, <4>4
    <3> QED
      BY <1>1, <1>3, <2>7, <3>5, <3>6
  <2>9. Queue(rest, ms)
    <3>1. Len(rest) <= Len(ms)
      BY <1>1, <1>3, <2>7, QueueFacts DEF Queue
    <3> QED
      BY <2>7, <2>8, <3>1 DEF Queue, Buffers
  <2>10. ToSend(rest, ms) = After(Unit(Iov(q, g)[n]), ms)
    <3>1. ToSend(rest, ms) = <<q[d + 1].m, q[d + 1].rpos + (n - f[d]) + 1>>
      <4>1. rest # <<>> /\ rest[1] = e
        BY <2>1, <2>7, EmptySeq
      <4>2. e.m = q[d + 1].m /\ e.rpos = q[d + 1].rpos + (n - f[d])
        BY <1>2, <2>1, <2>5 DEF b
      <4> QED
        BY <4>1, <4>2 DEF ToSend
    <3>2. CASE n = f[d]
      <4>1. d # 0 /\ d \in 1..L /\ f[0] = 0
        BY <1>1, <1>3, <1>6, <3>2, LeftSums
      <4>2. d \in 1..g
        BY <1>1, <1>6, <3>2, <4>1, LeftIncreases
      <4>3. At(q, d, n) /\ ~(n < f[d])
        BY <1>1, <1>6, <3>2, <4>1 DEF At
      <4>4. After(Unit(Iov(q, g)[n]), ms) = <<q[d].m + 1, 1>>
        BY <4>2, <4>3, IovAfter, Zenon
      <4>5. q[d + 1].m = q[d].m + 1 /\ q[d + 1].rpos = 0
        <5>1. d + 1 \in 1..Len(q) /\ d \in 1..Len(q)
          BY <1>1, <2>1, <4>1
        <5> HIDE DEF d
        <5> QED
          BY <5>1, QueueNext
      <4>6. q[d + 1].rpos + (n - f[d]) + 1 = 1
        BY <1>1, <1>6, <3>2, <4>5
      <4> QED
        BY <3>1, <4>4, <4>5, <4>6
    <3>3. CASE n # f[d]
      <4>1. d + 1 \in 1..g
        BY <1>1, <1>3, <1>6, <2>1, <3>3, LeftIncreases
      <4>2. At(q, d + 1, n) /\ n < f[d + 1]
        BY <1>1, <1>3, <1>6, <1>8, <2>1, <3>3 DEF At
      <4>3. After(Unit(Iov(q, g)[n]), ms) = <<q[d + 1].m, q[d + 1].rpos + (n - Left(q)[(d + 1) - 1]) + 1>>
        BY <4>1, <4>2, IovAfter, Zenon
      <4> QED
        BY <2>1, <3>1, <4>3
    <3> QED
      BY <3>2, <3>3
  <2> QED
    BY <2>9, <2>10
<1> QED
  BY <1>1, <1>3, <1>7, <1>8

-----------------------------------------------------------------------------
(* Runs: units that follow each other.                                     *)

Run(s, a, ms) ==
    /\ s \in Seq(Nat \X Nat)
    /\ s # <<>> => s[1] = a
    /\ \A i \in 1..Len(s) : Valid(s[i], ms)
    /\ \A i \in 1..Len(s) : i < Len(s) => s[i + 1] = After(s[i], ms)

(* The unit a run that starts with a ends before.                          *)
End(s, a, ms) == IF s = <<>> THEN a ELSE After(s[Len(s)], ms)

LEMMA Join ==
  ASSUME NEW ms, NEW s, NEW t, NEW a, Run(s, a, ms), Run(t, End(s, a, ms), ms)
  PROVE  /\ Run(s \o t, a, ms)
         /\ End(s \o t, a, ms) = End(t, End(s, a, ms), ms)
<1> DEFINE z == s \o t
           k == Len(s)
           l == Len(t)
<1>1. s \in Seq(Nat \X Nat) /\ t \in Seq(Nat \X Nat) /\ k \in Nat /\ l \in Nat
  BY LenProperties DEF Run
<1>2. /\ z \in Seq(Nat \X Nat) /\ Len(z) = k + l
      /\ \A i \in 1..(k + l) : z[i] = IF i <= k THEN s[i] ELSE t[i - k]
  BY <1>1, ConcatProperties
<1>3. (s = <<>> <=> k = 0) /\ (t = <<>> <=> l = 0) /\ (z = <<>> <=> k + l = 0)
  BY <1>1, <1>2, EmptySeq
<1> HIDE DEF z, k, l
<1>4. z # <<>> => z[1] = a
  <2>1. CASE k = 0
    <3>1. l # 0 => z[1] = t[1] /\ t[1] = End(s, a, ms)
      BY <1>1, <1>2, <1>3, <2>1 DEF Run, l
    <3> QED
      BY <1>1, <1>3, <2>1, <3>1 DEF End
  <2>2. CASE k # 0
    <3>1. 1 \in 1..(k + l) /\ 1 <= k
      BY <1>1, <2>2
    <3> QED
      BY <1>2, <1>3, <2>2, <3>1 DEF Run
  <2> QED
    BY <2>1, <2>2
<1>5. ASSUME NEW i \in 1..Len(z) PROVE Valid(z[i], ms)
  <2>1. CASE i <= k
    <3>1. i \in 1..k /\ z[i] = s[i]
      BY <1>1, <1>2, <2>1
    <3> QED
      BY <3>1 DEF Run, k
  <2>2. CASE i > k
    <3>1. i - k \in 1..l /\ z[i] = t[i - k]
      BY <1>1, <1>2, <2>2
    <3> QED
      BY <3>1 DEF Run, l
  <2> QED
    BY <1>1, <1>2, <2>1, <2>2
<1>6. ASSUME NEW i \in 1..Len(z), i < Len(z) PROVE z[i + 1] = After(z[i], ms)
  <2>1. CASE i < k
    <3>1. i \in 1..k /\ i + 1 \in 1..(k + l) /\ i <= k /\ i + 1 <= k /\ i \in 1..(k + l)
      BY <1>1, <1>2, <1>6, <2>1
    <3>2. z[i] = s[i] /\ z[i + 1] = s[i + 1]
      BY <1>2, <3>1
    <3> QED
      BY <2>1, <3>1, <3>2 DEF Run, k
  <2>2. CASE i = k
    <3>1. /\ i + 1 \in 1..(k + l) /\ i \in 1..(k + l) /\ i <= k /\ ~(i + 1 <= k)
          /\ (i + 1) - k = 1 /\ k # 0 /\ l # 0
      BY <1>1, <1>2, <1>6, <2>2
    <3>2. z[i] = s[k] /\ z[i + 1] = t[1]
      BY <1>2, <2>2, <3>1
    <3>3. t[1] = End(s, a, ms)
      BY <1>3, <3>1 DEF Run
    <3> QED
      BY <1>3, <3>1, <3>2, <3>3 DEF End, k
  <2>3. CASE i > k
    <3> DEFINE j == i - k
    <3>1. /\ j \in 1..l /\ j < l /\ i + 1 \in 1..(k + l) /\ i \in 1..(k + l)
          /\ ~(i <= k) /\ ~(i + 1 <= k) /\ (i + 1) - k = j + 1
      BY <1>1, <1>2, <1>6, <2>3
    <3>2. z[i] = t[j] /\ z[i + 1] = t[j + 1]
      BY <1>2, <3>1
    <3> HIDE DEF j
    <3> QED
      BY <3>1, <3>2 DEF Run, l
  <2> QED
    BY <1>1, <1>2, <2>1, <2>2, <2>3
<1>7. Run(z, a, ms)
  BY <1>2, <1>4, <1>5, <1>6 DEF Run
<1>8. End(z, a, ms) = End(t, End(s, a, ms), ms)
  <2>1. CASE l = 0
    <3>1. k # 0 => k \in 1..(k + l) /\ k <= k /\ k + l = k
      BY <1>1, <2>1
    <3>2. k # 0 => z[Len(z)] = s[k]
      BY <1>2, <3>1
    <3> QED
      BY <1>1, <1>2, <1>3, <2>1, <3>2 DEF End, k
  <2>2. CASE l # 0
    <3>1. k + l \in 1..(k + l) /\ ~(k + l <= k) /\ (k + l) - k = l /\ k + l # 0
      BY <1>1, <2>2
    <3>2. z[Len(z)] = t[l]
      BY <1>2, <3>1
    <3> QED
      BY <1>3, <2>2, <3>1, <3>2 DEF End, l
  <2> QED
    BY <2>1, <2>2
<1> QED
  BY <1>7, <1>8 DEF z

(* One more message changes nothing of a run.                              *)
LEMMA MoreMessages ==
  ASSUME NEW ms \in Seq(Msgs), NEW x \in Msgs, NEW s, NEW a, Run(s, a, ms)
  PROVE  Run(s, a, Append(ms, x)) /\ End(s, a, Append(ms, x)) = End(s, a, ms)
<1> DEFINE ns == Append(ms, x)
<1>1. /\ Len(ms) \in Nat /\ Len(ns) = Len(ms) + 1 /\ \A i \in 1..Len(ms) : ns[i] = ms[i]
  BY AppendProperties, LenProperties
<1>2. s \in Seq(Nat \X Nat) /\ Len(s) \in Nat /\ \A i \in 1..Len(s) : Valid(s[i], ms)
  BY LenProperties DEF Run
<1> HIDE DEF ns
<1>3. ASSUME NEW b, Valid(b, ms)
      PROVE  Valid(b, ns) /\ After(b, ns) = After(b, ms)
  BY <1>1, <1>3 DEF Valid, After
<1>4. Run(s, a, ns)
  BY <1>2, <1>3 DEF Run
<1>5. End(s, a, ns) = End(s, a, ms)
  <2>1. s # <<>> => Len(s) \in 1..Len(s)
    BY <1>2, EmptySeq
  <2> QED
    BY <1>2, <1>3, <2>1 DEF End
<1> QED
  BY <1>4, <1>5 DEF ns

(* What is left of a run after its first d units.                          *)
LEMMA RunRest ==
  ASSUME NEW ms, NEW s, NEW a, Run(s, a, ms), NEW d \in 1..Len(s)
  PROVE  LET rest == SubSeq(s, d + 1, Len(s))
         IN  /\ Run(rest, After(s[d], ms), ms)
             /\ End(rest, After(s[d], ms), ms) = End(s, a, ms)
<1> DEFINE rest == SubSeq(s, d + 1, Len(s))
           l == Len(s)
<1>1. s \in Seq(Nat \X Nat) /\ l \in Nat /\ s # <<>> /\ d \in Nat /\ d <= l
  BY LenProperties, EmptySeq DEF Run
<1>2. \A i \in d + 1..l : s[i] \in Nat \X Nat
  BY <1>1, ElementOfSeq
<1>3. /\ rest \in Seq(Nat \X Nat) /\ Len(rest) = l - d
      /\ \A i \in 1..(l - d) : rest[i] = s[d + i]
  <2>1. d + 1 \in Int /\ l \in Int
    BY <1>1
  <2>2. /\ rest \in Seq(Nat \X Nat)
        /\ Len(rest) = IF d + 1 <= l THEN l - (d + 1) + 1 ELSE 0
        /\ \A i \in 1..(l - (d + 1) + 1) : rest[i] = s[(d + 1) + i - 1]
    BY <1>2, <2>1, SubSeqProperties
  <2>3. l - (d + 1) + 1 = l - d /\ \A i \in 1..(l - d) : (d + 1) + i - 1 = d + i
    BY <1>1
  <2> HIDE DEF rest, l
  <2>4. Len(rest) = l - d
    BY <1>1, <2>2, <2>3
  <2> QED
    BY <2>2, <2>3, <2>4
<1>4. rest = <<>> <=> l = d
  <2> HIDE DEF rest, l
  <2>1. rest = <<>> <=> Len(rest) = 0
    BY <1>3, EmptySeq
  <2> QED
    BY <1>1, <1>3, <2>1
<1> HIDE DEF rest, l
<1>5. rest # <<>> => rest[1] = After(s[d], ms)
  <2>1. rest # <<>> => 1 \in 1..(l - d) /\ d < l
    BY <1>1, <1>4
  <2> QED
    BY <1>3, <2>1 DEF Run, l
<1>6. ASSUME NEW i \in 1..Len(rest) PROVE Valid(rest[i], ms)
  <2>1. d + i \in 1..l /\ rest[i] = s[d + i]
    BY <1>1, <1>3
  <2> QED
    BY <2>1 DEF Run, l
<1>7. ASSUME NEW i \in 1..Len(rest), i < Len(rest) PROVE rest[i + 1] = After(rest[i], ms)
  <2>1. /\ d + i \in 1..l /\ d + i < l /\ i \in 1..(l - d) /\ i + 1 \in 1..(l - d)
        /\ d + (i + 1) = (d + i) + 1
    BY <1>1, <1>3, <1>7
  <2>2. rest[i] = s[d + i]
    BY <1>3, <2>1
  <2>4. rest[i + 1] = s[d + (i + 1)]
    BY <1>3, <2>1
  <2>3. s[(d + i) + 1] = After(s[d + i], ms)
    BY <2>1 DEF Run, l
  <2> QED
    BY <2>1, <2>2, <2>3, <2>4
<1>8. Run(rest, After(s[d], ms), ms)
  BY <1>3, <1>5, <1>6, <1>7 DEF Run
<1>9. End(rest, After(s[d], ms), ms) = End(s, a, ms)
  <2>1. rest # <<>> => l - d \in 1..(l - d) /\ d + (l - d) = l
    BY <1>1, <1>4
  <2> QED
    BY <1>1, <1>3, <1>4, <2>1, Zenon DEF End, l
<1> QED
  BY <1>8, <1>9 DEF rest

(* The order of the units.                                                 *)
Before(a, b) == a[1] < b[1] \/ (a[1] = b[1] /\ a[2] < b[2])

LEMMA RunOrdered ==
  ASSUME NEW ms \in Seq(Msgs), NEW s, NEW a, Run(s, a, ms),
         NEW i \in 1..Len(s), NEW j \in 1..Len(s), i < j
  PROVE  Before(s[i], s[j])
<1> DEFINE T == {k \in Nat : (i + 1) + k <= Len(s) => Before(s[i], s[(i + 1) + k])}
<1>1. s \in Seq(Nat \X Nat) /\ Len(s) \in Nat /\ \A k \in 1..Len(s) : s[k] \in Nat \X Nat
  BY LenProperties, ElementOfSeq DEF Run
<1>2. ASSUME NEW k \in 1..Len(s), k < Len(s)
      PROVE  Before(s[k], s[k + 1])
  <2>1. s[k] \in Nat \X Nat /\ s[k + 1] = After(s[k], ms)
    BY <1>1, <1>2 DEF Run
  <2> QED
    BY <2>1 DEF After, Before
<1>3. 0 \in T
  BY <1>1, <1>2
<1>4. ASSUME NEW k \in Nat, k \in T PROVE k + 1 \in T
  <2> SUFFICES ASSUME (i + 1) + (k + 1) <= Len(s)
               PROVE  Before(s[i], s[(i + 1) + (k + 1)])
    OBVIOUS
  <2> DEFINE n == (i + 1) + k
  <2>1. n \in 1..Len(s) /\ n < Len(s) /\ n + 1 \in 1..Len(s) /\ n <= Len(s) /\ n + 1 = (i + 1) + (k + 1)
    BY <1>1
  <2>2. Before(s[i], s[n])
    <3>1. n <= Len(s) => Before(s[i], s[n])
      BY <1>4
    <3> QED
      BY <2>1, <3>1
  <2>3. Before(s[n], s[n + 1])
    BY <1>2, <2>1
  <2>4. s[i] \in Nat \X Nat /\ s[n] \in Nat \X Nat /\ s[n + 1] \in Nat \X Nat
    BY <1>1, <2>1
  <2>5. Before(s[i], s[n + 1])
    <3> DEFINE x == s[i]
               y == s[n]
               z == s[n + 1]
    <3>1. /\ x[1] \in Nat /\ x[2] \in Nat /\ y[1] \in Nat /\ y[2] \in Nat /\ z[1] \in Nat /\ z[2] \in Nat
          /\ Before(x, y) /\ Before(y, z)
      BY <2>2, <2>3, <2>4
    <3> HIDE DEF x, y, z
    <3>2. Before(x, z)
      BY <3>1 DEF Before
    <3> QED
      BY <3>2 DEF x, z
  <2> QED
    BY <2>1, <2>5
<1>5. j - (i + 1) \in Nat /\ (i + 1) + (j - (i + 1)) = j /\ j <= Len(s)
  BY <1>1
<1>6. Nat \subseteq T
  <2> HIDE DEF T
  <2> QED
    BY <1>3, <1>4, AllNat
<1> QED
  BY <1>5, <1>6, Zenon

(* A run that starts with message m begins with its units.                 *)
LEMMA RunMessage ==
  ASSUME NEW ms \in Seq(Msgs), NEW s, NEW m \in Nat, Run(s, <<m, 1>>, ms),
         NEW k \in 1..Len(s), k <= ms[m].len
  PROVE  s[k] = <<m, k>>
<1> DEFINE T == {n \in Nat : n + 1 <= Len(s) /\ n + 1 <= ms[m].len => s[n + 1] = <<m, n + 1>>}
<1>1. /\ s \in Seq(Nat \X Nat) /\ Len(s) \in Nat /\ s # <<>> /\ s[1] = <<m, 1>> /\ 1 \in 1..Len(s)
      /\ k \in Nat /\ k <= Len(s) /\ 1 <= k
  BY LenProperties, EmptySeq DEF Run
<1>2. ms[m].len \in Nat
  <2>1. Valid(s[1], ms)
    BY <1>1, Zenon DEF Run
  <2>2. m \in 1..Len(ms)
    BY <1>1, <2>1 DEF Valid
  <2>3. ms[m] \in Msgs
    BY <2>2, ElementOfSeq
  <2> QED
    BY <2>3, ImsgAssumption DEF Msgs
<1>3. 0 \in T
  BY <1>1
<1>4. ASSUME NEW n \in Nat, n \in T PROVE n + 1 \in T
  <2> SUFFICES ASSUME (n + 1) + 1 <= Len(s), (n + 1) + 1 <= ms[m].len
               PROVE  s[(n + 1) + 1] = <<m, (n + 1) + 1>>
    OBVIOUS
  <2>1. n + 1 \in 1..Len(s) /\ n + 1 < Len(s) /\ n + 1 < ms[m].len /\ n + 1 <= ms[m].len /\ n + 1 <= Len(s)
    <3> DEFINE len == ms[m].len
               l == Len(s)
    <3>1. len \in Nat /\ l \in Nat /\ (n + 1) + 1 <= l /\ (n + 1) + 1 <= len
      BY <1>1, <1>2
    <3> HIDE DEF len, l
    <3>2. n + 1 \in 1..l /\ n + 1 < l /\ n + 1 < len /\ n + 1 <= len /\ n + 1 <= l
      BY <3>1
    <3> QED
      BY <3>2 DEF len, l
  <2>2. s[n + 1] = <<m, n + 1>>
    BY <1>4, <2>1
  <2>3. s[(n + 1) + 1] = After(s[n + 1], ms)
    BY <2>1 DEF Run
  <2> QED
    BY <2>1, <2>2, <2>3 DEF After
<1>5. Nat \subseteq T
  <2> HIDE DEF T
  <2> QED
    BY <1>3, <1>4, AllNat
<1>6. k - 1 \in Nat /\ (k - 1) + 1 = k
  BY <1>1
<1> QED
  BY <1>1, <1>5, <1>6, Zenon

-----------------------------------------------------------------------------
(* The inductive invariant.                                                *)

TypeOK ==
    /\ msgs \in Seq(Msgs) /\ Len(msgs) <= MaxMsgs
    /\ w \in Seq(Bufs)
    /\ sender \in {"loop", "flush", "closed"}
    /\ sock \in Seq([m : Nat, u : Nat, fd : Nat])
    /\ r \in Seq(Nat \X Nat)
    /\ fds \in Seq(Nat)
    /\ receiver \in {"loop", "get", "dead"}
    /\ got \in Seq([m : Nat, fd : Nat, len : Nat])

(* The first unit that was not handled, and those on their way from there. *)
Start == <<Len(got) + 1, 1>>

Units(s) == [i \in 1..Len(s) |-> Unit(s[i])]

Flight == r \o Units(sock)

InFlight ==
    /\ Run(Flight, Start, msgs)
    /\ sender # "closed" => Queue(w, msgs) /\ End(Flight, Start, msgs) = ToSend(w, msgs)
    /\ sender = "closed" => w = <<>>
    /\ \A i \in 1..Len(sock) : sock[i].fd = Tag(Unit(sock[i]), msgs)

(* The messages whose descriptor was read and not handed out.              *)
Opened == {m \in 1..Len(msgs) : msgs[m].fd /\ \E i \in 1..Len(r) : r[i] = <<m, 1>>}

Descriptors ==
    /\ \A i, j \in 1..Len(fds) : i < j => fds[i] < fds[j]
    /\ {fds[i] : i \in 1..Len(fds)} = Opened

Handled == Len(got) <= Len(msgs) /\ \A i \in 1..Len(got) : got[i] = Whole(i)

(* What holds whenever a side is in its event loop.                        *)
Loops ==
    /\ sender = "loop" => events = ImsgEventAdd(w)
    /\ receiver = "loop" => ~Complete
    /\ NoFalseEof

IInv == TypeOK /\ InFlight /\ Descriptors /\ Handled /\ Loops

Kernel == [m : Nat, u : Nat, fd : Nat]

LEMMA UnitsOf ==
  ASSUME NEW s \in Seq(Kernel)
  PROVE  /\ Units(s) \in Seq(Nat \X Nat) /\ Len(Units(s)) = Len(s)
         /\ \A i \in 1..Len(s) : Units(s)[i] = Unit(s[i]) /\ Unit(s[i]) \in Nat \X Nat
<1>1. Len(s) \in Nat /\ \A i \in 1..Len(s) : s[i] \in Kernel
  BY LenProperties, ElementOfSeq
<1>2. \A i \in 1..Len(s) : Unit(s[i]) \in Nat \X Nat
  BY <1>1 DEF Kernel, Unit
<1>3. Units(s) \in [1..Len(s) -> Nat \X Nat]
  BY <1>2 DEF Units
<1>4. Units(s) \in Seq(Nat \X Nat)
  BY <1>1, <1>3, SeqDef
<1>5. Len(Units(s)) = Len(s)
  BY <1>1, <1>3, <1>4, LenProperties
<1> QED
  BY <1>2, <1>4, <1>5 DEF Units

LEMMA FlightFacts ==
  ASSUME TypeOK
  PROVE  /\ Flight \in Seq(Nat \X Nat) /\ Len(Flight) = Len(r) + Len(sock)
         /\ Len(r) \in Nat /\ Len(sock) \in Nat /\ Len(msgs) \in Nat /\ Len(got) \in Nat
         /\ Len(fds) \in Nat
         /\ \A i \in 1..Len(r) : i \in 1..Len(Flight) /\ Flight[i] = r[i]
         /\ \A i \in 1..Len(sock) : /\ Len(r) + i \in 1..Len(Flight)
                                    /\ Flight[Len(r) + i] = Unit(sock[i])
         /\ Flight = <<>> <=> r = <<>> /\ sock = <<>>
<1>1. /\ r \in Seq(Nat \X Nat) /\ sock \in Seq(Kernel) /\ Len(r) \in Nat /\ Len(sock) \in Nat
      /\ Len(msgs) \in Nat /\ Len(got) \in Nat /\ Len(fds) \in Nat
  BY LenProperties DEF TypeOK, Kernel
<1> DEFINE u == Units(sock)
<1>2. u \in Seq(Nat \X Nat) /\ Len(u) = Len(sock) /\ \A i \in 1..Len(sock) : u[i] = Unit(sock[i])
  BY <1>1, UnitsOf
<1>3. Flight = r \o u
  BY DEF Flight
<1> HIDE DEF u
<1>4. /\ Flight \in Seq(Nat \X Nat) /\ Len(Flight) = Len(r) + Len(sock)
      /\ \A i \in 1..Len(r) + Len(sock) : Flight[i] = IF i <= Len(r) THEN r[i] ELSE u[i - Len(r)]
  <2>1. /\ r \o u \in Seq(Nat \X Nat) /\ Len(r \o u) = Len(r) + Len(u)
        /\ \A i \in 1..Len(r) + Len(u) : (r \o u)[i] = IF i <= Len(r) THEN r[i] ELSE u[i - Len(r)]
    BY <1>1, <1>2, ConcatProperties, Zenon
  <2> QED
    BY <1>2, <1>3, <2>1
<1>5. \A i \in 1..Len(r) : i \in 1..Len(Flight) /\ Flight[i] = r[i]
  <2>1. ASSUME NEW i \in 1..Len(r) PROVE i \in 1..Len(r) + Len(sock) /\ i <= Len(r)
    BY <1>1
  <2> QED
    BY <1>4, <2>1
<1>6. ASSUME NEW i \in 1..Len(sock)
      PROVE  Len(r) + i \in 1..Len(Flight) /\ Flight[Len(r) + i] = Unit(sock[i])
  <2>1. /\ Len(r) + i \in 1..Len(r) + Len(sock) /\ ~(Len(r) + i <= Len(r))
        /\ (Len(r) + i) - Len(r) = i
    BY <1>1
  <2> QED
    BY <1>2, <1>4, <2>1, Zenon
<1>7. Flight = <<>> <=> r = <<>> /\ sock = <<>>
  <2>1. (Flight = <<>> <=> Len(Flight) = 0) /\ (r = <<>> <=> Len(r) = 0) /\ (sock = <<>> <=> Len(sock) = 0)
    BY <1>1, <1>4, EmptySeq
  <2> QED
    BY <1>1, <1>4, <2>1
<1> QED
  BY <1>1, <1>4, <1>5, <1>6, <1>7

LEMMA InitIInv == Init => IInv
<1> SUFFICES ASSUME Init PROVE IInv
  OBVIOUS
<1>1. \A S : <<>> \in Seq(S) /\ Len(<<>>) = 0
  OBVIOUS
<1>2. TypeOK
  BY <1>1, ImsgAssumption DEF Init, TypeOK
<1>3. Flight = <<>> /\ 1..0 = {}
  BY <1>2, FlightFacts DEF Init
<1>4. Run(Flight, Start, msgs)
  BY <1>1, <1>3 DEF Run
<1>5. Queue(w, msgs)
  BY <1>1, <1>3 DEF Init, Queue, Buffers
<1>6. InFlight
  BY <1>1, <1>3, <1>4, <1>5 DEF Init, InFlight, End, ToSend, Start
<1>7. Descriptors
  BY <1>1, <1>3 DEF Init, Descriptors, Opened
<1>8. Handled
  BY <1>1, <1>3 DEF Init, Handled
<1>9. Loops
  BY <1>1, ImsgAssumption DEF Init, Loops, Complete, NoFalseEof, ImsgEventAdd
<1> QED
  BY <1>2, <1>6, <1>7, <1>8, <1>9 DEF IInv

(* Units that are Valid, and the first unit of the read buffer.            *)
LEMMA ReadBuffer ==
  ASSUME IInv
  PROVE  /\ \A i \in 1..Len(r) : Valid(r[i], msgs) /\ r[i] \in Nat \X Nat
         /\ r # <<>> => 1 \in 1..Len(r) /\ r[1] = Start /\ Len(got) + 1 \in 1..Len(msgs)
         /\ \A m \in 1..Len(msgs) : msgs[m] \in Msgs /\ msgs[m].len \in HdrSize..MaxImsg
<1>1. TypeOK /\ Run(Flight, Start, msgs)
  BY DEF IInv, InFlight
<1>2. \A i \in 1..Len(r) : Valid(r[i], msgs) /\ r[i] \in Nat \X Nat
  BY <1>1, FlightFacts, Zenon DEF Run, Valid
<1>3. r # <<>> => 1 \in 1..Len(r) /\ r[1] = Start
  <2>1. r # <<>> => 1 \in 1..Len(r)
    BY <1>1, FlightFacts, EmptySeq DEF TypeOK
  <2>2. r # <<>> => Flight # <<>>
    BY <1>1, FlightFacts
  <2> QED
    BY <1>1, <2>1, <2>2, FlightFacts DEF Run
<1>4. r # <<>> => Len(got) + 1 \in 1..Len(msgs)
  BY <1>2, <1>3 DEF Valid, Start
<1>5. \A m \in 1..Len(msgs) : msgs[m] \in Msgs
  BY <1>1, ElementOfSeq DEF TypeOK
<1> QED
  BY <1>2, <1>3, <1>4, <1>5 DEF Msgs
-----------------------------------------------------------------------------
(* One lemma per action.                                                   *)

(* Where only the two sides' control moves, the data invariants stay.      *)
LEMMA ControlSteps ==
  ASSUME IInv, UNCHANGED <<msgs, w, sock, r, fds, got>>,
         (sender' \in {"loop", "flush"} /\ sender # "closed") \/ sender' = sender,
         receiver' \in {"loop", "get", "dead"}
  PROVE  TypeOK' /\ InFlight' /\ Descriptors' /\ Handled'
<1>1. TypeOK'
  BY DEF IInv, TypeOK
<1>2. Flight' = Flight /\ Start' = Start /\ Opened' = Opened
  BY DEF Flight, Start, Opened, Units
<1>3. InFlight'
  BY <1>2 DEF IInv, InFlight
<1>4. Descriptors' /\ Handled'
  BY <1>2 DEF IInv, Descriptors, Handled, Whole
<1> QED
  BY <1>1, <1>3, <1>4

LEMMA StepProcFlushImsg == IInv /\ ProcFlushImsg => IInv'
<1> SUFFICES ASSUME IInv, ProcFlushImsg PROVE IInv'
  OBVIOUS
<1>1. receiver' \in {"loop", "get", "dead"}
  BY DEF IInv, TypeOK, ProcFlushImsg
<1>2. TypeOK' /\ InFlight' /\ Descriptors' /\ Handled'
  BY <1>1, ControlSteps DEF ProcFlushImsg
<1>3. Loops'
  BY DEF IInv, Loops, ProcFlushImsg, Complete, NoFalseEof
<1> QED
  BY <1>2, <1>3 DEF IInv

LEMMA StepFlushDone == IInv /\ FlushDone => IInv'
<1> SUFFICES ASSUME IInv, FlushDone PROVE IInv'
  OBVIOUS
<1>1. receiver' \in {"loop", "get", "dead"}
  BY DEF IInv, TypeOK, FlushDone
<1>2. TypeOK' /\ InFlight' /\ Descriptors' /\ Handled'
  BY <1>1, ControlSteps DEF FlushDone
<1>3. Loops'
  BY DEF IInv, Loops, FlushDone, Complete, NoFalseEof, ImsgEventAdd
<1> QED
  BY <1>2, <1>3 DEF IInv

LEMMA StepDispatchDone == IInv /\ DispatchDone => IInv'
<1> SUFFICES ASSUME IInv, DispatchDone PROVE IInv'
  OBVIOUS
<1>2. TypeOK' /\ InFlight' /\ Descriptors' /\ Handled'
  BY ControlSteps DEF DispatchDone
<1>3. Loops'
  BY DEF IInv, Loops, DispatchDone, Complete, NoFalseEof, ImsgEventAdd
<1> QED
  BY <1>2, <1>3 DEF IInv

(* The read buffer of a receiver in its loop has room: a message that does *)
(* not fit is longer than the header may say.                              *)
LEMMA StepDispatchEof == IInv /\ DispatchEof => IInv'
<1> SUFFICES ASSUME IInv, DispatchEof PROVE IInv'
  OBVIOUS
<1>1. TypeOK' /\ InFlight' /\ Descriptors' /\ Handled'
  BY ControlSteps DEF DispatchEof
<1>2. Len(r) < ReadSize
  <2>1. Len(r) \in Nat /\ Len(got) \in Nat /\ ~Complete
    BY FlightFacts DEF IInv, Loops, DispatchEof
  <2>2. CASE r = <<>>
    <3>1. Len(r) = 0
      BY <2>2
    <3> QED
      BY <3>1, ImsgAssumption
  <2>3. CASE r # <<>>
    <3>1. r[1] = <<Len(got) + 1, 1>> /\ msgs[Len(got) + 1].len \in HdrSize..MaxImsg
      BY <2>3, ReadBuffer DEF Start
    <3> DEFINE len == msgs[Len(got) + 1].len
    <3>2. len \in HdrSize..MaxImsg /\ ~(Len(r) >= HdrSize /\ Len(r) >= len)
      BY <2>1, <3>1 DEF Complete
    <3> HIDE DEF len
    <3> QED
      BY <2>1, <3>2, ImsgAssumption
  <2> QED
    BY <2>2, <2>3
<1>3. sock = <<>> /\ sender = "closed"
  <2>1. Len(sock) \in Nat /\ Len(r) \in Nat /\ (Len(sock) = 0 => sock = <<>>)
    BY FlightFacts, EmptySeq DEF IInv, TypeOK
  <2>2. Len(sock) = 0
    BY <1>2, <2>1, ImsgAssumption DEF DispatchEof, Least
  <2> QED
    BY <2>1, <2>2 DEF DispatchEof
<1>4. Loops'
  BY <1>3 DEF IInv, Loops, DispatchEof, Complete, NoFalseEof, ImsgEventAdd
<1> QED
  BY <1>1, <1>4 DEF IInv

LEMMA StepProcClose == IInv /\ ProcClose => IInv'
<1> SUFFICES ASSUME IInv, ProcClose PROVE IInv'
  OBVIOUS
<1>1. TypeOK'
  BY DEF IInv, TypeOK, ProcClose
<1>2. Flight' = Flight /\ Start' = Start /\ Opened' = Opened
  BY DEF Flight, Start, Opened, Units, ProcClose
<1>3. InFlight'
  BY <1>2 DEF IInv, InFlight, ProcClose
<1>4. Descriptors' /\ Handled'
  BY <1>2 DEF IInv, Descriptors, Handled, Whole, ProcClose
<1>5. Loops'
  BY DEF IInv, Loops, ProcClose, Complete, NoFalseEof
<1> QED
  BY <1>1, <1>3, <1>4, <1>5 DEF IInv

(* What imsg_compose_event queues, when it does.                           *)
LEMMA Composed ==
  ASSUME IInv, NEW datalen \in 0..Wrap - 1, NEW hasfd \in BOOLEAN, ImsgComposeEvent(datalen, hasfd)
  PROVE  \E x \in Msgs : /\ msgs' = Append(msgs, x)
                         /\ w' = Append(w, [m |-> Len(msgs) + 1, rpos |-> 0, wpos |-> x.len,
                                            fd |-> IF x.fd THEN Len(msgs) + 1 ELSE None])
<1> DEFINE mm == Len(msgs) + 1
<1>1. PICK b0 \in ImsgCreate(mm, datalen) : \E b1 \in IbufAdd(b0, datalen) :
         LET b == [b1 EXCEPT !.fd = IF hasfd THEN mm ELSE None]
         IN  msgs' = Append(msgs, ImsgClose(b)) /\ w' = Append(w, b)
  BY Zenon DEF ImsgComposeEvent
<1>2. PICK b1 \in IbufAdd(b0, datalen) :
         LET b == [b1 EXCEPT !.fd = IF hasfd THEN mm ELSE None]
         IN  msgs' = Append(msgs, ImsgClose(b)) /\ w' = Append(w, b)
  BY <1>1, Zenon
<1>3. mm \in Nat /\ mm # 0 /\ datalen \in Nat
  <2>1. Len(msgs) \in Nat
    BY FlightFacts DEF IInv
  <2> QED
    BY <2>1, ImsgAssumption
<1> HIDE DEF mm
<1>4. b0 = [m |-> mm, rpos |-> 0, wpos |-> 0 + HdrSize, fd |-> None]
  BY DEF ImsgCreate, IbufAdd, Ibuf
<1>5. /\ b1 = [m |-> mm, rpos |-> 0, wpos |-> HdrSize + datalen, fd |-> None]
      /\ HdrSize + datalen <= MaxImsg
  BY <1>3, <1>4, ImsgAssumption DEF IbufAdd
<1> DEFINE f == IF hasfd THEN mm ELSE None
           x == [len |-> HdrSize + datalen, fd |-> hasfd]
           b == [m |-> mm, rpos |-> 0, wpos |-> HdrSize + datalen, fd |-> f]
<1>6. [b1 EXCEPT !.fd = f] = b
  BY <1>5
<1>7. ImsgClose(b) = x
  <2>1. (f # None) = hasfd
    BY <1>3 DEF None
  <2> QED
    BY <2>1 DEF ImsgClose
<1>8. x \in Msgs
  BY <1>3, <1>5, ImsgAssumption DEF Msgs
<1>9. msgs' = Append(msgs, x) /\ w' = Append(w, b)
  BY <1>2, <1>6, <1>7
<1> QED
  BY <1>8, <1>9 DEF mm
LEMMA QueueGrows ==
  ASSUME NEW ms \in Seq(Msgs), NEW q, Queue(q, ms), NEW x \in Msgs
  PROVE  LET p == Append(q, [m |-> Len(ms) + 1, rpos |-> 0, wpos |-> x.len,
                             fd |-> IF x.fd THEN Len(ms) + 1 ELSE None])
         IN  Queue(p, Append(ms, x)) /\ ToSend(p, Append(ms, x)) = ToSend(q, ms)
<1> DEFINE f == IF x.fd THEN Len(ms) + 1 ELSE None
           b == [m |-> Len(ms) + 1, rpos |-> 0, wpos |-> x.len, fd |-> f]
           p == Append(q, b)
           ns == Append(ms, x)
           L == Len(q)
           M == Len(ms)
<1> SUFFICES Queue(p, ns) /\ ToSend(p, ns) = ToSend(q, ms)
  OBVIOUS
<1>1. q \in Seq(Bufs) /\ L \in Nat /\ M \in Nat /\ L <= M
  BY QueueFacts DEF Queue
<1>2. x.len \in Nat /\ 0 < x.len /\ f \in Nat
  BY <1>1, ImsgAssumption DEF Msgs, None
<1>3. b \in Bufs
  BY <1>1, <1>2 DEF Bufs
<1>4. p \in Seq(Bufs) /\ Len(p) = L + 1 /\ p[L + 1] = b /\ \A i \in 1..L : p[i] = q[i]
  BY <1>1, <1>3, AppendProperties
<1>5. Len(ns) = M + 1 /\ ns[M + 1] = x /\ \A i \in 1..M : ns[i] = ms[i]
  BY <1>1, AppendProperties
<1>6. /\ b.m = M + 1 /\ b.rpos = 0 /\ b.wpos = x.len
      /\ b.fd = IF ns[b.m].fd /\ b.rpos = 0 THEN b.m ELSE None
  BY <1>5
<1> HIDE DEF p, ns, L, M, b
<1>7. ASSUME NEW i \in 1..Len(p)
      PROVE  /\ p[i].rpos < p[i].wpos
             /\ p[i].m = Len(ns) - Len(p) + i /\ p[i].m \in 1..Len(ns)
             /\ p[i].wpos = ns[p[i].m].len
             /\ i > 1 => p[i].rpos = 0
             /\ p[i].fd = IF ns[p[i].m].fd /\ p[i].rpos = 0 THEN p[i].m ELSE None
  <2>1. (M + 1) - (L + 1) = M - L
    BY <1>1
  <2>2. CASE i = L + 1
    <3>1. p[i] = b /\ (M - L) + i = M + 1 /\ M + 1 \in 1..(M + 1)
      BY <1>1, <1>4, <2>2
    <3> QED
      BY <1>2, <1>4, <1>5, <1>6, <2>1, <3>1
  <2>3. CASE i # L + 1
    <3>1. i \in 1..L
      BY <1>1, <1>4, <2>3
    <3>2. /\ q[i].rpos < q[i].wpos
          /\ q[i].m = M - L + i /\ q[i].m \in 1..M
          /\ q[i].wpos = ms[q[i].m].len
          /\ i > 1 => q[i].rpos = 0
          /\ q[i].fd = IF ms[q[i].m].fd /\ q[i].rpos = 0 THEN q[i].m ELSE None
      BY <3>1 DEF Queue, Buffers, L, M
    <3>3. p[i] = q[i] /\ ns[q[i].m] = ms[q[i].m] /\ q[i].m \in 1..(M + 1)
      BY <1>1, <1>4, <1>5, <3>1, <3>2
    <3> QED
      BY <1>4, <1>5, <2>1, <3>2, <3>3
  <2> QED
    BY <2>2, <2>3
<1>8. Queue(p, ns)
  <2>1. Len(p) <= Len(ns)
    BY <1>1, <1>4, <1>5
  <2> QED
    BY <1>4, <1>7, <2>1 DEF Queue, Buffers
<1>9. ToSend(p, ns) = ToSend(q, ms)
  <2>1. p # <<>> /\ (q = <<>> <=> L = 0)
    <3>1. (p = <<>> <=> Len(p) = 0) /\ (q = <<>> <=> L = 0)
      BY <1>1, <1>4, EmptySeq DEF L
    <3> QED
      BY <1>1, <1>4, <3>1
  <2>2. CASE L = 0
    BY <1>1, <1>4, <1>6, <2>1, <2>2 DEF ToSend, M
  <2>3. CASE L # 0
    <3>1. 1 \in 1..L
      BY <1>1, <2>3
    <3> QED
      BY <1>4, <2>1, <2>3, <3>1 DEF ToSend
  <2> QED
    BY <2>2, <2>3
<1> QED
  BY <1>8, <1>9

LEMMA StepCompose ==
  ASSUME IInv, NEW datalen \in 0..Wrap - 1, NEW hasfd \in BOOLEAN, ImsgComposeEvent(datalen, hasfd)
  PROVE  IInv'
<1>1. PICK x \in Msgs :
         /\ msgs' = Append(msgs, x)
         /\ w' = Append(w, [m |-> Len(msgs) + 1, rpos |-> 0, wpos |-> x.len,
                            fd |-> IF x.fd THEN Len(msgs) + 1 ELSE None])
  BY Composed
<1>2. UNCHANGED <<sender, sock, r, fds, receiver, got>> /\ sender = "loop" /\ Len(msgs) < MaxMsgs
  BY DEF ImsgComposeEvent
<1>3. /\ msgs \in Seq(Msgs) /\ Len(msgs) \in Nat /\ Len(msgs') = Len(msgs) + 1
      /\ msgs' \in Seq(Msgs) /\ \A i \in 1..Len(msgs) : msgs'[i] = msgs[i]
  BY <1>1, AppendProperties, LenProperties DEF IInv, TypeOK
<1>4. Flight' = Flight /\ Start' = Start
  BY <1>2 DEF Flight, Start, Units
<1>5. Run(Flight', Start', msgs') /\ End(Flight', Start', msgs') = End(Flight, Start, msgs)
  BY <1>1, <1>3, <1>4, MoreMessages DEF IInv, InFlight
<1>6. Queue(w', msgs') /\ ToSend(w', msgs') = ToSend(w, msgs)
  BY <1>1, <1>2, <1>3, QueueGrows DEF IInv, InFlight
<1>7. TypeOK'
  <2>1. w' \in Seq(Bufs)
    BY <1>6 DEF Queue, Buffers
  <2>2. Len(msgs') <= MaxMsgs
    BY <1>2, <1>3, ImsgAssumption
  <2> QED
    BY <1>2, <1>3, <2>1, <2>2 DEF IInv, TypeOK
<1>8. ASSUME NEW a, Valid(a, msgs)
      PROVE  a[1] \in 1..Len(msgs) /\ Tag(a, msgs') = Tag(a, msgs) /\ msgs'[a[1]] = msgs[a[1]]
  BY <1>3, <1>8 DEF Valid, Tag
<1>9. InFlight'
  <2>1. ASSUME NEW i \in 1..Len(sock) PROVE sock[i].fd = Tag(Unit(sock[i]), msgs')
    <3>1. Valid(Unit(sock[i]), msgs)
      BY FlightFacts DEF IInv, InFlight, Run
    <3> QED
      BY <1>8, <3>1 DEF IInv, InFlight
  <2> QED
    BY <1>2, <1>4, <1>5, <1>6, <2>1 DEF IInv, InFlight
<1>10. Descriptors'
  <2>1. ASSUME NEW m \in 1..Len(msgs'), NEW i \in 1..Len(r), r[i] = <<m, 1>>
        PROVE  m \in 1..Len(msgs) /\ msgs'[m] = msgs[m]
    <3>1. Valid(r[i], msgs)
      BY ReadBuffer
    <3> QED
      BY <1>8, <2>1, <3>1
  <2>2. 1..Len(msgs) \subseteq 1..Len(msgs')
    BY <1>3
  <2>3. Opened' = Opened
    BY <1>2, <1>3, <2>1, <2>2 DEF Opened
  <2> QED
    BY <1>2, <2>3 DEF IInv, Descriptors
<1>11. Handled'
  <2>1. Len(got) \in Nat /\ Len(got) <= Len(msgs) /\ Len(got) <= Len(msgs')
    BY <1>3, FlightFacts DEF IInv, Handled
  <2>2. ASSUME NEW i \in 1..Len(got) PROVE got[i] = Whole(i)'
    <3>1. i \in 1..Len(msgs) /\ got[i] = Whole(i)
      BY <1>3, <2>1 DEF IInv, Handled
    <3> QED
      BY <1>3, <3>1 DEF Whole
  <2> QED
    BY <1>2, <2>1, <2>2 DEF Handled
<1>12. Loops'
  <2>1. Complete' = Complete
    <3>1. CASE r = <<>>
      <4>1. Len(r) = 0
        BY <3>1
      <4> QED
        BY <1>2, <4>1, ImsgAssumption DEF Complete
    <3>2. CASE r # <<>>
      <4>1. Valid(r[1], msgs)
        BY <3>2, ReadBuffer
      <4>2. msgs'[r[1][1]] = msgs[r[1][1]]
        BY <1>8, <4>1
      <4> QED
        BY <1>2, <4>2 DEF Complete
    <3> QED
      BY <3>1, <3>2
  <2> QED
    BY <1>2, <2>1 DEF IInv, Loops, NoFalseEof, ImsgComposeEvent, ImsgEventAdd
<1> QED
  BY <1>7, <1>9, <1>10, <1>11, <1>12 DEF IInv
(* The units msgbuf_write gathers are a run, from where the queue begins.  *)
LEMMA IovRun ==
  ASSUME NEW ms \in Seq(Msgs), NEW q, Queue(q, ms), NEW g \in 1..Len(q),
         \A i \in 2..g : q[i].fd = None, NEW n \in 1..Left(q)[g]
  PROVE  LET sub == SubSeq(Iov(q, g), 1, n)
         IN  /\ sub \in Seq(Kernel) /\ Len(sub) = n
             /\ \A j \in 1..n : sub[j].fd = Tag(Unit(sub[j]), ms)
             /\ Run(Units(sub), ToSend(q, ms), ms)
             /\ End(Units(sub), ToSend(q, ms), ms) = After(Unit(Iov(q, g)[n]), ms)
<1> DEFINE iov == Iov(q, g)
           L == Left(q)[g]
           sub == SubSeq(iov, 1, n)
<1>1. Buffers(q) /\ L \in Nat /\ n \in Nat /\ 1 <= n /\ n <= L
  BY QueueFacts, IovLen
<1>2. ASSUME NEW j \in 1..L PROVE iov[j] \in Kernel /\ Valid(Unit(iov[j]), ms)
  <2>1. PICK i \in 1..g : At(q, i, j)
    BY <1>1, QueueFacts, SomeBuffer
  <2>2. iov[j] = [m |-> q[i].m, u |-> q[i].rpos + (j - Left(q)[i - 1]),
                  fd |-> IF j = 1 THEN q[1].fd ELSE None]
    BY <1>1, <2>1, IovUnit
  <2>3. Valid(Unit(iov[j]), ms)
    BY <2>1, IovAfter, Zenon
  <2>4. (IF j = 1 THEN q[1].fd ELSE None) \in Nat
    <3>1. 1 \in 1..Len(q)
      BY QueueFacts
    <3>2. q[1].fd \in Nat
      BY <3>1, QueueFacts DEF Bufs
    <3> QED
      BY <3>2 DEF None
  <2> DEFINE mm == q[i].m
             u == q[i].rpos + (j - Left(q)[i - 1])
             f == IF j = 1 THEN q[1].fd ELSE None
  <2> HIDE DEF mm, u, f, iov
  <2>5. iov[j] = [m |-> mm, u |-> u, fd |-> f]
    BY <2>2 DEF mm, u, f
  <2>6. mm \in Nat /\ u \in Nat
    BY <2>3, <2>5 DEF Valid, Unit
  <2> QED
    BY <2>3, <2>4, <2>5, <2>6 DEF Kernel, f
<1>3. sub \in Seq(Kernel) /\ Len(sub) = n /\ \A j \in 1..n : sub[j] = iov[j]
  <2>1. \A j \in 1..n : iov[j] \in Kernel
    BY <1>1, <1>2
  <2>2. 1 \in Int /\ n \in Int /\ (n - 1) + 1 = n /\ \A j \in 1..n : 1 + (j - 1) = j
    BY <1>1
  <2> HIDE DEF sub, iov
  <2>3. sub \in Seq(Kernel) /\ Len(sub) = (IF 1 <= n THEN n - 1 + 1 ELSE 0)
        /\ \A j \in 1..n - 1 + 1 : sub[j] = iov[1 + j - 1]
    BY <2>1, <2>2, SubSeqProperties DEF sub
  <2> QED
    BY <1>1, <2>2, <2>3
<1>4. /\ Units(sub) \in Seq(Nat \X Nat) /\ Len(Units(sub)) = n
      /\ \A j \in 1..n : Units(sub)[j] = Unit(iov[j])
  <2> HIDE DEF sub, iov
  <2>1. /\ Units(sub) \in Seq(Nat \X Nat) /\ Len(Units(sub)) = Len(sub)
        /\ \A j \in 1..Len(sub) : Units(sub)[j] = Unit(sub[j])
    BY <1>3, UnitsOf, Zenon
  <2> QED
    BY <1>3, <2>1
<1> DEFINE us == Units(sub)
<1>5. us # <<>>
  <2> HIDE DEF us
  <2>1. us \in Seq(Nat \X Nat) /\ Len(us) = n
    BY <1>4 DEF us
  <2> QED
    BY <1>1, <2>1, EmptySeq
<1>6. ASSUME NEW j \in 1..n PROVE iov[j].fd = Tag(Unit(iov[j]), ms)
  BY <1>1, IovTag
<1>7. Unit(iov[1]) = ToSend(q, ms)
  BY IovFirst
<1>8. ASSUME NEW j \in 1..n, j < n PROVE Unit(iov[j + 1]) = After(Unit(iov[j]), ms)
  <2>1. j \in 1..L /\ j + 1 \in 1..L
    BY <1>1, <1>8
  <2> QED
    BY <2>1, IovNext
<1> HIDE DEF iov, sub, us
<1>9. Run(us, ToSend(q, ms), ms)
  <2>1. us[1] = ToSend(q, ms)
    BY <1>1, <1>4, <1>7 DEF us
  <2>2. ASSUME NEW j \in 1..n PROVE Valid(us[j], ms)
    BY <1>1, <1>2, <1>4 DEF us
  <2>3. ASSUME NEW j \in 1..n, j < n PROVE us[j + 1] = After(us[j], ms)
    <3>1. j + 1 \in 1..n
      BY <1>1, <2>3
    <3> QED
      BY <1>4, <1>8, <2>3, <3>1 DEF us
  <2> QED
    BY <1>4, <2>1, <2>2, <2>3 DEF Run, us
<1>10. End(us, ToSend(q, ms), ms) = After(Unit(iov[n]), ms)
  <2>1. n \in 1..n
    BY <1>1
  <2> QED
    BY <1>4, <1>5, <2>1 DEF End, us
<1>11. \A j \in 1..n : sub[j].fd = Tag(Unit(sub[j]), ms)
  BY <1>3, <1>6
<1> QED
  BY <1>3, <1>9, <1>10, <1>11 DEF iov, sub, us

LEMMA ConcatUnits ==
  \A a, b, c \in Seq(Nat \X Nat) : (a \o b) \o c = a \o (b \o c)
<1> DEFINE S == Nat \X Nat
<1> HIDE DEF S
<1>1. \A a, b, c \in Seq(S) : (a \o b) \o c = a \o (b \o c)
  BY ConcatAssociative
<1> QED
  BY <1>1, Zenon DEF S

LEMMA UnitsConcat ==
  ASSUME NEW s \in Seq(Kernel), NEW t \in Seq(Kernel)
  PROVE  Units(s \o t) = Units(s) \o Units(t)
<1> DEFINE k == Len(s)
           l == Len(t)
           z == s \o t
           a == Units(z)
           b == Units(s) \o Units(t)
<1>1. k \in Nat /\ l \in Nat
  BY LenProperties
<1>2. z \in Seq(Kernel) /\ Len(z) = k + l /\ \A i \in 1..(k + l) : z[i] = IF i <= k THEN s[i] ELSE t[i - k]
  BY ConcatProperties
<1>3. /\ Units(s) \in Seq(Nat \X Nat) /\ Len(Units(s)) = k /\ \A i \in 1..k : Units(s)[i] = Unit(s[i])
      /\ Units(t) \in Seq(Nat \X Nat) /\ Len(Units(t)) = l /\ \A i \in 1..l : Units(t)[i] = Unit(t[i])
  BY UnitsOf
<1>4. /\ b \in Seq(Nat \X Nat) /\ Len(b) = k + l
      /\ \A i \in 1..(k + l) : b[i] = IF i <= k THEN Units(s)[i] ELSE Units(t)[i - k]
  <2> DEFINE us == Units(s)
             ut == Units(t)
  <2>1. us \in Seq(Nat \X Nat) /\ ut \in Seq(Nat \X Nat) /\ Len(us) = k /\ Len(ut) = l
    BY <1>3
  <2> HIDE DEF us, ut, k, l
  <2>2. /\ us \o ut \in Seq(Nat \X Nat) /\ Len(us \o ut) = Len(us) + Len(ut)
        /\ \A i \in 1..Len(us) + Len(ut) : (us \o ut)[i] = IF i <= Len(us) THEN us[i] ELSE ut[i - Len(us)]
    BY <2>1, ConcatProperties, Zenon
  <2>3. /\ us \o ut \in Seq(Nat \X Nat) /\ Len(us \o ut) = k + l
        /\ \A i \in 1..(k + l) : (us \o ut)[i] = IF i <= k THEN us[i] ELSE ut[i - k]
    BY <2>1, <2>2
  <2> QED
    BY <2>3 DEF us, ut
<1>5. a \in Seq(Nat \X Nat) /\ Len(a) = k + l /\ \A i \in 1..(k + l) : a[i] = Unit(z[i])
  BY <1>2, UnitsOf, Zenon
<1> HIDE DEF a, b, z, k, l
<1>6. ASSUME NEW i \in 1..(k + l) PROVE a[i] = b[i]
  <2>1. CASE i <= k
    <3>1. i \in 1..k
      BY <1>1, <2>1
    <3>2. z[i] = s[i] /\ b[i] = Units(s)[i]
      BY <1>2, <1>4, <2>1
    <3> QED
      BY <1>3, <1>5, <3>1, <3>2
  <2>2. CASE ~(i <= k)
    <3>1. i - k \in 1..l
      BY <1>1, <2>2
    <3>2. z[i] = t[i - k] /\ b[i] = Units(t)[i - k]
      BY <1>2, <1>4, <2>2
    <3> QED
      BY <1>3, <1>5, <3>1, <3>2, Zenon
  <2> QED
    BY <2>1, <2>2
<1>7. a = b
  BY <1>4, <1>5, <1>6, SeqEqual
<1> QED
  BY <1>7 DEF a, b, z
(* msgbuf_write moves the boundary between the run and the queue.          *)
LEMMA Written ==
  ASSUME IInv, sender \in {"loop", "flush"}, sender' = sender, MsgbufWrite
  PROVE  TypeOK' /\ InFlight' /\ Descriptors' /\ Handled' /\ Complete' = Complete
<1> DEFINE g == Gather(w)
           iov == Iov(w, g)
<1>1. /\ msgs \in Seq(Msgs) /\ sock \in Seq(Kernel) /\ Queue(w, msgs) /\ w # <<>> /\ w \in Seq(Bufs)
      /\ Run(Flight, Start, msgs) /\ End(Flight, Start, msgs) = ToSend(w, msgs)
      /\ r \in Seq(Nat \X Nat)
      /\ \A i \in 1..Len(sock) : sock[i].fd = Tag(Unit(sock[i]), msgs)
  BY DEF IInv, TypeOK, InFlight, MsgbufWrite, Kernel
<1>2. g \in 1..Len(w) /\ \A i \in 2..g : w[i].fd = None
  BY <1>1, GatherBuffers
<1>3. Len(iov) = Left(w)[g] /\ Left(w)[g] \in Nat
  BY <1>1, <1>2, QueueFacts, IovLen
<1>4. PICK n \in 1..Least(Len(iov), SockSize - Len(sock)) :
         /\ sock' = sock \o SubSeq(iov, 1, n)
         /\ w' = MsgbufDrain([w EXCEPT ![1].fd = None], n)
  BY DEF MsgbufWrite
<1>5. n \in 1..Left(w)[g]
  <2>1. Len(sock) \in Nat
    BY FlightFacts DEF IInv
  <2> HIDE DEF iov, g
  <2> QED
    BY <1>3, <2>1, ImsgAssumption DEF Least
<1> DEFINE sub == SubSeq(iov, 1, n)
<1>6. /\ sub \in Seq(Kernel) /\ Len(sub) = n
      /\ \A j \in 1..n : sub[j].fd = Tag(Unit(sub[j]), msgs)
      /\ Run(Units(sub), ToSend(w, msgs), msgs)
      /\ End(Units(sub), ToSend(w, msgs), msgs) = After(Unit(iov[n]), msgs)
  BY <1>1, <1>2, <1>5, IovRun, Zenon
<1>7. Queue(w', msgs) /\ ToSend(w', msgs) = After(Unit(iov[n]), msgs)
  BY <1>1, <1>2, <1>4, <1>5, Drained, Zenon
<1>8. UNCHANGED <<msgs, r, fds, receiver, got>>
  BY DEF MsgbufWrite
<1>9. sock' = sock \o sub
  BY <1>4
<1> HIDE DEF sub, iov, g
<1>10. /\ sock' \in Seq(Kernel) /\ Len(sock') = Len(sock) + n
       /\ \A i \in 1..Len(sock) + n : sock'[i] = IF i <= Len(sock) THEN sock[i] ELSE sub[i - Len(sock)]
  <2>1. /\ sock \o sub \in Seq(Kernel) /\ Len(sock \o sub) = Len(sock) + Len(sub)
        /\ \A i \in 1..Len(sock) + Len(sub) :
              (sock \o sub)[i] = IF i <= Len(sock) THEN sock[i] ELSE sub[i - Len(sock)]
    BY <1>1, <1>6, ConcatProperties, Zenon
  <2> QED
    BY <1>6, <1>9, <2>1
<1>11. Flight' = Flight \o Units(sub) /\ Start' = Start
  <2>1. Units(sock \o sub) = Units(sock) \o Units(sub)
    BY <1>1, <1>6, UnitsConcat
  <2>2. Units(sock) \in Seq(Nat \X Nat) /\ Units(sub) \in Seq(Nat \X Nat)
    BY <1>1, <1>6, UnitsOf
  <2>3. (r \o Units(sock)) \o Units(sub) = r \o (Units(sock) \o Units(sub))
    BY <1>1, <2>2, ConcatUnits, Zenon
  <2>4. Flight' = r \o Units(sock \o sub)
    <3>1. Flight' = r' \o Units(sock')
      BY DEF Flight, Units
    <3> QED
      BY <1>8, <1>9, <3>1
  <2>5. Start' = Start
    BY <1>8 DEF Start
  <2> QED
    BY <2>1, <2>3, <2>4, <2>5 DEF Flight
<1>12. /\ Run(Flight', Start', msgs)
       /\ End(Flight', Start', msgs) = ToSend(w', msgs)
  <2> DEFINE us == Units(sub)
             a == ToSend(w, msgs)
  <2>1. Run(us, End(Flight, Start, msgs), msgs) /\ End(us, a, msgs) = ToSend(w', msgs)
    BY <1>1, <1>6, <1>7
  <2>2. Flight' = Flight \o us
    BY <1>11
  <2> HIDE DEF us, a
  <2>3. /\ Run(Flight \o us, Start, msgs)
        /\ End(Flight \o us, Start, msgs) = End(us, End(Flight, Start, msgs), msgs)
    BY <1>1, <2>1, Join
  <2> QED
    BY <1>1, <1>11, <2>1, <2>2, <2>3 DEF a
<1>13. \A i \in 1..Len(sock') : sock'[i].fd = Tag(Unit(sock'[i]), msgs)
  <2> SUFFICES ASSUME NEW i \in 1..Len(sock') PROVE sock'[i].fd = Tag(Unit(sock'[i]), msgs)
    OBVIOUS
  <2>1. Len(sock) \in Nat /\ n \in Nat
    BY <1>3, <1>5, FlightFacts DEF IInv
  <2>2. CASE i <= Len(sock)
    <3>1. i \in 1..Len(sock) /\ i \in 1..Len(sock) + n
      BY <1>10, <2>1, <2>2
    <3>2. sock'[i] = sock[i]
      BY <1>10, <2>2, <3>1
    <3> QED
      BY <1>1, <3>1, <3>2
  <2>3. CASE ~(i <= Len(sock))
    <3>1. i - Len(sock) \in 1..n /\ i \in 1..Len(sock) + n
      BY <1>10, <2>1, <2>3
    <3>2. sock'[i] = sub[i - Len(sock)]
      BY <1>10, <2>3, <3>1
    <3> QED
      BY <1>6, <3>1, <3>2
  <2> QED
    BY <2>2, <2>3
<1>14. TypeOK'
  <2>1. w' \in Seq(Bufs)
    BY <1>7 DEF Queue, Buffers
  <2> QED
    BY <1>8, <1>10, <2>1 DEF IInv, TypeOK, Kernel
<1>15. InFlight'
  BY <1>7, <1>8, <1>12, <1>13 DEF InFlight
<1>16. Descriptors' /\ Handled' /\ Complete' = Complete
  <2>1. Opened' = Opened
    BY <1>8 DEF Opened
  <2>2. Descriptors'
    BY <1>8, <2>1 DEF IInv, Descriptors
  <2>3. Handled'
    BY <1>8 DEF IInv, Handled, Whole
  <2>4. Complete' = Complete
    BY <1>8 DEF Complete
  <2> QED
    BY <2>2, <2>3, <2>4
<1> QED
  BY <1>14, <1>15, <1>16

LEMMA StepDispatchWrite == IInv /\ DispatchWrite => IInv'
<1> SUFFICES ASSUME IInv, DispatchWrite PROVE IInv'
  OBVIOUS
<1>1. TypeOK' /\ InFlight' /\ Descriptors' /\ Handled' /\ Complete' = Complete
  BY Written DEF DispatchWrite
<1>2. Loops'
  BY <1>1 DEF IInv, Loops, NoFalseEof, DispatchWrite, MsgbufWrite, ImsgEventAdd
<1> QED
  BY <1>1, <1>2 DEF IInv

LEMMA StepImsgFlush == IInv /\ ImsgFlush => IInv'
<1> SUFFICES ASSUME IInv, ImsgFlush PROVE IInv'
  OBVIOUS
<1>1. TypeOK' /\ InFlight' /\ Descriptors' /\ Handled' /\ Complete' = Complete
  BY Written DEF ImsgFlush
<1>2. Loops'
  BY <1>1 DEF IInv, Loops, NoFalseEof, ImsgFlush, MsgbufWrite
<1> QED
  BY <1>1, <1>2 DEF IInv
(* imsg_read moves units from the kernel to the read buffer.               *)
LEMMA ReadUnits ==
  ASSUME NEW s \in Seq(Kernel), NEW n \in 1..Len(s)
  PROVE  LET head == [i \in 1..n |-> <<s[i].m, s[i].u>>]
             rest == SubSeq(s, n + 1, Len(s))
         IN  /\ head \in Seq(Nat \X Nat) /\ Len(head) = n
             /\ rest \in Seq(Kernel) /\ Len(rest) = Len(s) - n
             /\ \A i \in 1..(Len(s) - n) : rest[i] = s[n + i]
             /\ Units(s) = head \o Units(rest)
<1> DEFINE head == [i \in 1..n |-> <<s[i].m, s[i].u>>]
           rest == SubSeq(s, n + 1, Len(s))
           l == Len(s)
           a == Units(s)
           b == head \o Units(rest)
<1>1. l \in Nat /\ n \in Nat /\ n <= l /\ \A i \in 1..l : s[i] \in Kernel
  BY LenProperties, ElementOfSeq
<1>2. head \in Seq(Nat \X Nat) /\ Len(head) = n /\ \A i \in 1..n : head[i] = Unit(s[i])
  <2>1. ASSUME NEW i \in 1..n PROVE <<s[i].m, s[i].u>> \in Nat \X Nat
    <3>1. s[i] \in Kernel
      BY <1>1
    <3> QED
      BY <3>1 DEF Kernel
  <2>2. head \in [1..n -> Nat \X Nat]
    BY <2>1
  <2>3. head \in Seq(Nat \X Nat)
    BY <1>1, <2>2, SeqDef
  <2> QED
    BY <1>1, <2>2, <2>3, LenProperties DEF Unit
<1>3. rest \in Seq(Kernel) /\ Len(rest) = l - n /\ \A i \in 1..(l - n) : rest[i] = s[n + i]
  <2>1. /\ n + 1 \in Int /\ l \in Int /\ \A i \in n + 1..l : s[i] \in Kernel
        /\ l - (n + 1) + 1 = l - n /\ \A i \in 1..(l - n) : (n + 1) + i - 1 = n + i
    BY <1>1
  <2> HIDE DEF rest, l
  <2>2. /\ rest \in Seq(Kernel)
        /\ Len(rest) = IF n + 1 <= l THEN l - (n + 1) + 1 ELSE 0
        /\ \A i \in 1..(l - (n + 1) + 1) : rest[i] = s[(n + 1) + i - 1]
    BY <2>1, SubSeqProperties DEF rest, l
  <2>3. Len(rest) = l - n
    BY <1>1, <2>2
  <2> QED
    BY <2>1, <2>2, <2>3
<1> DEFINE u == Units(rest)
<1>4. u \in Seq(Nat \X Nat) /\ Len(u) = l - n /\ \A i \in 1..(l - n) : u[i] = Unit(s[n + i])
  <2>1. u \in Seq(Nat \X Nat) /\ Len(u) = Len(rest) /\ \A i \in 1..Len(rest) : u[i] = Unit(rest[i])
    BY <1>3, UnitsOf, Zenon
  <2> HIDE DEF u, rest, l
  <2> QED
    BY <1>3, <2>1
<1>5. a \in Seq(Nat \X Nat) /\ Len(a) = l /\ \A i \in 1..l : a[i] = Unit(s[i])
  BY UnitsOf
<1> HIDE DEF head, rest, l, u, a
<1>6. /\ b \in Seq(Nat \X Nat) /\ Len(b) = l
      /\ \A i \in 1..l : b[i] = IF i <= n THEN head[i] ELSE u[i - n]
  <2>1. /\ head \o u \in Seq(Nat \X Nat) /\ Len(head \o u) = Len(head) + Len(u)
        /\ \A i \in 1..Len(head) + Len(u) :
              (head \o u)[i] = IF i <= Len(head) THEN head[i] ELSE u[i - Len(head)]
    BY <1>2, <1>4, ConcatProperties, Zenon
  <2>2. Len(head) + Len(u) = l
    BY <1>1, <1>2, <1>4
  <2>3. b = head \o u
    BY DEF u
  <2> QED
    BY <1>2, <2>1, <2>2, <2>3, Zenon
<1> HIDE DEF b
<1>7. ASSUME NEW i \in 1..l PROVE a[i] = b[i]
  <2>1. CASE i <= n
    <3>1. i \in 1..n
      BY <1>1, <2>1
    <3> QED
      BY <1>2, <1>5, <1>6, <2>1, <3>1, Zenon
  <2>2. CASE ~(i <= n)
    <3>1. i - n \in 1..(l - n) /\ n + (i - n) = i
      BY <1>1, <2>2
    <3> QED
      BY <1>4, <1>5, <1>6, <2>2, <3>1
  <2> QED
    BY <2>1, <2>2
<1>8. a = b
  BY <1>5, <1>6, <1>7, SeqEqual
<1> QED
  BY <1>2, <1>3, <1>8 DEF a, b, head, rest, l, u

LEMMA StepDispatchRead == IInv /\ DispatchRead => IInv'
<1> SUFFICES ASSUME IInv, DispatchRead PROVE IInv'
  OBVIOUS
<1>1. /\ msgs \in Seq(Msgs) /\ sock \in Seq(Kernel) /\ r \in Seq(Nat \X Nat) /\ fds \in Seq(Nat)
      /\ Len(r) \in Nat /\ Len(sock) \in Nat /\ Len(msgs) \in Nat /\ Len(fds) \in Nat
      /\ Run(Flight, Start, msgs)
      /\ \A i \in 1..Len(sock) : sock[i].fd = Tag(Unit(sock[i]), msgs)
  BY FlightFacts DEF IInv, TypeOK, InFlight, Kernel
<1>2. PICK n \in 1..Least(Len(sock), ReadSize - Len(r)) :
         LET carried == {i \in 1..n : sock[i].fd # None}
         IN  /\ \A i, j \in carried : i = j
             /\ sock' = SubSeq(sock, n + 1, Len(sock))
             /\ r' = r \o [i \in 1..n |-> <<sock[i].m, sock[i].u>>]
             /\ fds' = IF carried = {} THEN fds
                       ELSE Append(fds, sock[CHOOSE i \in carried : TRUE].fd)
  BY Zenon DEF DispatchRead
<1>3. n \in 1..Len(sock) /\ n \in Nat
  BY <1>1, ImsgAssumption DEF Least
<1> DEFINE carried == {i \in 1..n : sock[i].fd # None}
           head == [i \in 1..n |-> <<sock[i].m, sock[i].u>>]
           rest == SubSeq(sock, n + 1, Len(sock))
<1>4. /\ head \in Seq(Nat \X Nat) /\ Len(head) = n
      /\ rest \in Seq(Kernel) /\ Len(rest) = Len(sock) - n
      /\ \A i \in 1..(Len(sock) - n) : rest[i] = sock[n + i]
      /\ Units(sock) = head \o Units(rest)
  BY <1>1, <1>3, ReadUnits, Zenon
<1>5. \A i \in 1..n : head[i] = Unit(sock[i])
  BY DEF Unit
<1>6. /\ \A i, j \in carried : i = j
      /\ sock' = rest /\ r' = r \o head
      /\ fds' = IF carried = {} THEN fds ELSE Append(fds, sock[CHOOSE i \in carried : TRUE].fd)
  BY <1>2
<1>7. UNCHANGED <<msgs, w, sender, events, got>> /\ receiver' = "get" /\ receiver = "loop"
  BY DEF DispatchRead
<1> HIDE DEF head, rest
<1>8. /\ r' \in Seq(Nat \X Nat) /\ Len(r') = Len(r) + n
      /\ \A i \in 1..Len(r) + n : r'[i] = IF i <= Len(r) THEN r[i] ELSE head[i - Len(r)]
  <2>1. /\ r \o head \in Seq(Nat \X Nat) /\ Len(r \o head) = Len(r) + Len(head)
        /\ \A i \in 1..Len(r) + Len(head) :
              (r \o head)[i] = IF i <= Len(r) THEN r[i] ELSE head[i - Len(r)]
    BY <1>1, <1>4, ConcatProperties, Zenon
  <2> QED
    BY <1>4, <1>6, <2>1
<1>9. Flight' = Flight /\ Start' = Start
  <2>1. (r \o head) \o Units(rest) = r \o (head \o Units(rest))
    <3> DEFINE u == Units(rest)
    <3>1. u \in Seq(Nat \X Nat) /\ head \in Seq(Nat \X Nat) /\ r \in Seq(Nat \X Nat)
      BY <1>1, <1>4, UnitsOf
    <3> HIDE DEF u
    <3>2. (r \o head) \o u = r \o (head \o u)
      BY <3>1, ConcatUnits, Zenon
    <3> QED
      BY <3>2 DEF u
  <2>2. Flight' = r' \o Units(sock')
    BY DEF Flight, Units
  <2>3. Start' = Start
    BY <1>7 DEF Start
  <2> QED
    BY <1>4, <1>6, <2>1, <2>2, <2>3 DEF Flight
<1>10. InFlight'
  <2>1. ASSUME NEW i \in 1..Len(sock') PROVE sock'[i].fd = Tag(Unit(sock'[i]), msgs)
    <3>1. n + i \in 1..Len(sock) /\ sock'[i] = sock[n + i]
      BY <1>1, <1>3, <1>4, <1>6
    <3> QED
      BY <1>1, <3>1
  <2> QED
    BY <1>7, <1>9, <2>1 DEF IInv, InFlight
<1>11. ASSUME NEW i \in 1..n
       PROVE  /\ Unit(sock[i]) \in Nat \X Nat /\ Unit(sock[i])[1] \in 1..Len(msgs)
              /\ i \in carried <=> Unit(sock[i])[2] = 1 /\ msgs[Unit(sock[i])[1]].fd
              /\ i \in carried => sock[i].fd = Unit(sock[i])[1] /\ sock[i].fd \in 1..Len(msgs)
  <2>1. i \in 1..Len(sock)
    BY <1>1, <1>3
  <2>2. Valid(Unit(sock[i]), msgs)
    BY <1>1, <2>1, FlightFacts DEF IInv, Run
  <2>3. sock[i].fd = Tag(Unit(sock[i]), msgs)
    BY <1>1, <2>1
  <2> DEFINE a == Unit(sock[i])
             f == sock[i].fd
  <2>4. a \in Nat \X Nat /\ a[1] \in 1..Len(msgs) /\ f = Tag(a, msgs) /\ (i \in carried <=> f # None)
    BY <2>2, <2>3 DEF Valid
  <2> HIDE DEF a, f, carried
  <2>5. a[1] # None
    <3>1. \A x \in 1..Len(msgs) : x # 0
      BY <1>1
    <3> QED
      BY <2>4, <3>1 DEF None
  <2>6. (i \in carried <=> a[2] = 1 /\ msgs[a[1]].fd) /\ (i \in carried => f = a[1])
    BY <2>4, <2>5 DEF Tag
  <2> QED
    BY <2>4, <2>6 DEF a, f
<1>12. TypeOK'
  <2>1. fds' \in Seq(Nat)
    <3>1. CASE carried = {}
      BY <1>1, <1>6, <3>1
    <3>2. CASE carried # {}
      <4>1. PICK c \in 1..n : c \in carried /\ c = CHOOSE i \in carried : TRUE
        BY <3>2
      <4>2. sock[c].fd \in Nat
        BY <1>1, <1>11, <4>1
      <4>3. fds' = Append(fds, sock[c].fd)
        BY <1>6, <3>2, <4>1
      <4> QED
        BY <1>1, <4>2, <4>3, AppendProperties
    <3> QED
      BY <3>1, <3>2
  <2>2. sock' \in Seq(Kernel)
    BY <1>4, <1>6
  <2> QED
    BY <1>7, <1>8, <2>1, <2>2 DEF IInv, TypeOK, Kernel<1>13. ASSUME NEW m
       PROVE  (\E i \in 1..Len(r') : r'[i] = <<m, 1>>)
                <=> \/ \E i \in 1..Len(r) : r[i] = <<m, 1>>
                    \/ \E i \in 1..n : Unit(sock[i]) = <<m, 1>>
  <2>1. ASSUME NEW i \in 1..Len(r'), r'[i] = <<m, 1>>
        PROVE  \/ \E k \in 1..Len(r) : r[k] = <<m, 1>>
               \/ \E k \in 1..n : Unit(sock[k]) = <<m, 1>>
    <3>1. CASE i <= Len(r)
      <4>1. i \in 1..Len(r) /\ r'[i] = r[i]
        BY <1>1, <1>3, <1>8, <3>1
      <4> QED
        BY <2>1, <4>1
    <3>2. CASE ~(i <= Len(r))
      <4>1. i - Len(r) \in 1..n /\ r'[i] = head[i - Len(r)]
        BY <1>1, <1>3, <1>8, <3>2
      <4>2. Unit(sock[i - Len(r)]) = <<m, 1>>
        BY <1>5, <2>1, <4>1, Zenon
      <4> QED
        BY <4>1, <4>2
    <3> QED
      BY <3>1, <3>2
  <2>2. ASSUME NEW i \in 1..Len(r), r[i] = <<m, 1>>
        PROVE  \E k \in 1..Len(r') : r'[k] = <<m, 1>>
    <3>1. i \in 1..Len(r') /\ i \in 1..Len(r) + n /\ i <= Len(r)
      BY <1>1, <1>3, <1>8
    <3>2. r'[i] = r[i]
      BY <1>8, <3>1
    <3> QED
      BY <2>2, <3>1, <3>2
  <2>3. ASSUME NEW i \in 1..n, Unit(sock[i]) = <<m, 1>>
        PROVE  \E k \in 1..Len(r') : r'[k] = <<m, 1>>
    <3> DEFINE k == Len(r) + i
    <3>1. k \in 1..Len(r') /\ k \in 1..Len(r) + n /\ ~(k <= Len(r)) /\ k - Len(r) = i
      BY <1>1, <1>3, <1>8
    <3>2. r'[k] = head[i]
      BY <1>8, <3>1
    <3> QED
      BY <1>5, <2>3, <3>1, <3>2
  <2> QED
    BY <2>1, <2>2, <2>3
<1>14. Descriptors'
  <2>1. CASE carried = {}
    <3>1. fds' = fds
      BY <1>6, <2>1
    <3>2. Opened' = Opened
      <4>1. ASSUME NEW m \in 1..Len(msgs), msgs[m].fd, NEW i \in 1..n, Unit(sock[i]) = <<m, 1>>
            PROVE  FALSE
        <5>1. Unit(sock[i])[1] = m /\ Unit(sock[i])[2] = 1
          BY <4>1
        <5>2. i \in carried
          BY <1>11, <4>1, <5>1, Zenon
        <5> QED
          BY <2>1, <5>2
      <4>2. Opened' = {m \in 1..Len(msgs) : msgs[m].fd /\ \E i \in 1..Len(r') : r'[i] = <<m, 1>>}
        BY <1>7 DEF Opened
      <4>3. ASSUME NEW m \in 1..Len(msgs), msgs[m].fd
            PROVE  (\E i \in 1..Len(r') : r'[i] = <<m, 1>>) <=> (\E i \in 1..Len(r) : r[i] = <<m, 1>>)
        BY <1>13, <4>1, <4>3, Zenon
      <4> QED
        BY <4>2, <4>3, Zenon DEF Opened
    <3> QED
      BY <3>1, <3>2 DEF IInv, Descriptors
  <2>2. CASE carried # {}
    <3>1. PICK c \in 1..n : c \in carried /\ c = CHOOSE i \in carried : TRUE
      BY <2>2
    <3> DEFINE d == sock[c].fd
               L == Len(fds)
    <3>2. fds' = Append(fds, d)
      BY <1>6, <2>2, <3>1
    <3>3. d \in 1..Len(msgs) /\ d \in Nat /\ Unit(sock[c]) = <<d, 1>> /\ msgs[d].fd
      <4>1. /\ Unit(sock[c]) \in Nat \X Nat /\ Unit(sock[c])[2] = 1 /\ msgs[Unit(sock[c])[1]].fd
            /\ d = Unit(sock[c])[1] /\ d \in 1..Len(msgs)
        BY <1>11, <3>1, Zenon
      <4> DEFINE u == Unit(sock[c])
      <4>2. u \in Nat \X Nat /\ u[2] = 1 /\ msgs[u[1]].fd /\ d = u[1] /\ d \in 1..Len(msgs)
        BY <4>1
      <4> HIDE DEF u, d
      <4>3. u = <<d, 1>> /\ d \in Nat /\ msgs[d].fd
        BY <4>2
      <4> QED
        BY <4>2, <4>3 DEF u
    <3>4. Len(fds') = L + 1 /\ fds'[L + 1] = d /\ \A i \in 1..L : fds'[i] = fds[i]
      BY <1>1, <3>2, <3>3, AppendProperties
    <3> HIDE DEF d, L
    <3>5. Opened' = Opened \cup {d}
      <4>1. ASSUME NEW m \in 1..Len(msgs), msgs[m].fd, NEW i \in 1..n, Unit(sock[i]) = <<m, 1>>
            PROVE  m = d
        <5>0. Unit(sock[i])[1] = m /\ Unit(sock[i])[2] = 1
          BY <4>1
        <5>1. i \in carried
          BY <1>11, <4>1, <5>0, Zenon
        <5>2. i = c
          BY <1>6, <3>1, <5>1
        <5> QED
          BY <3>3, <4>1, <5>2
      <4>2. Opened' = {m \in 1..Len(msgs) : msgs[m].fd /\ \E i \in 1..Len(r') : r'[i] = <<m, 1>>}
        BY <1>7 DEF Opened
      <4>3. \E i \in 1..Len(r') : r'[i] = <<d, 1>>
        BY <1>13, <3>3, Zenon
      <4>4. ASSUME NEW m \in 1..Len(msgs), msgs[m].fd
            PROVE  (\E i \in 1..Len(r') : r'[i] = <<m, 1>>)
                     <=> (\E i \in 1..Len(r) : r[i] = <<m, 1>>) \/ m = d
        BY <1>13, <4>1, <4>3, <4>4, Zenon
      <4> QED
        BY <3>3, <4>2, <4>4, Zenon DEF Opened
    <3>6. {fds'[i] : i \in 1..Len(fds')} = {fds[i] : i \in 1..L} \cup {d}
      <4>1. 1..(L + 1) = 1..L \cup {L + 1}
        BY <1>1 DEF L
      <4> QED
        BY <3>4, <4>1
    <3>7. ASSUME NEW i \in 1..L PROVE fds[i] < d /\ fds[i] \in Nat
      <4>1. fds[i] \in Opened
        BY <3>7 DEF IInv, Descriptors, L
      <4>2. PICK k \in 1..Len(r) : r[k] = <<fds[i], 1>>
        BY <4>1 DEF Opened
      <4>3. c \in 1..Len(sock) /\ k < Len(r) + c
        BY <1>1, <1>3
      <4>4. /\ k \in 1..Len(Flight) /\ Flight[k] = <<fds[i], 1>>
            /\ Len(r) + c \in 1..Len(Flight) /\ Flight[Len(r) + c] = <<d, 1>>
        BY <3>3, <4>2, <4>3, FlightFacts, Zenon DEF IInv
      <4>5. Before(Flight[k], Flight[Len(r) + c])
        BY <1>1, <4>3, <4>4, RunOrdered, Zenon
      <4>6. fds[i] \in Nat
        BY <1>1, <3>7, ElementOfSeq DEF L
      <4> QED
        BY <3>3, <4>4, <4>5, <4>6 DEF Before
    <3>8. ASSUME NEW i \in 1..Len(fds'), NEW j \in 1..Len(fds'), i < j PROVE fds'[i] < fds'[j]
      <4>1. L \in Nat /\ i \in 1..(L + 1) /\ j \in 1..(L + 1)
        BY <1>1, <3>4 DEF L
      <4>4. i \in 1..L /\ (j = L + 1 \/ j \in 1..L)
        BY <3>8, <4>1
      <4>2. CASE j = L + 1
        BY <3>4, <3>7, <4>4, <4>2
      <4>3. CASE j \in 1..L
        BY <3>4, <3>8, <4>3, <4>4 DEF IInv, Descriptors, L
      <4> QED
        BY <4>2, <4>3, <4>4
    <3>9. {fds'[i] : i \in 1..Len(fds')} = Opened'
      BY <3>5, <3>6 DEF IInv, Descriptors, L
    <3> QED
      BY <3>8, <3>9 DEF Descriptors
  <2> QED
    BY <2>1, <2>2
<1>15. Handled'
  BY <1>7 DEF IInv, Handled, Whole
<1>16. Loops'
  BY <1>7 DEF IInv, Loops, NoFalseEof, ImsgEventAdd
<1> QED
  BY <1>10, <1>12, <1>14, <1>15, <1>16 DEF IInv
(* What imsg_get finds: the units of the first message that is not         *)
(* handled, and its descriptor at the head of the queue of descriptors.    *)
LEMMA FirstMessage ==
  ASSUME IInv, Complete
  PROVE  /\ r # <<>> /\ r[1] = Start /\ Len(got) + 1 \in 1..Len(msgs)
         /\ msgs[Len(got) + 1].len \in 1..Len(r) /\ msgs[Len(got) + 1].fd \in BOOLEAN
         /\ \A k \in 1..Len(r) :
               IF k <= msgs[Len(got) + 1].len THEN r[k] = <<Len(got) + 1, k>>
               ELSE ~(r[k][1] <= Len(got) + 1 /\ r[k][2] = 1)
         /\ msgs[Len(got) + 1].fd => fds # <<>> /\ fds[1] = Len(got) + 1
<1> DEFINE c == Len(got) + 1
           len == msgs[c].len
<1>1. /\ TypeOK /\ Run(Flight, <<c, 1>>, msgs) /\ msgs \in Seq(Msgs) /\ fds \in Seq(Nat)
      /\ c \in Nat /\ Len(r) \in Nat /\ Len(fds) \in Nat
  BY FlightFacts DEF IInv, InFlight, TypeOK, Start
<1>2. r # <<>> /\ 1 \in 1..Len(r) /\ r[1] = <<c, 1>> /\ c \in 1..Len(msgs)
  <2>1. Len(r) >= HdrSize
    BY DEF Complete
  <2>2. Len(<<>>) = 0
    OBVIOUS
  <2>3. r # <<>>
    BY <1>1, <2>1, <2>2, ImsgAssumption
  <2> QED
    BY <2>3, ReadBuffer DEF Start
<1>3. len \in 1..Len(r) /\ len \in Nat /\ msgs[c].fd \in BOOLEAN
  <2>1. msgs[c] \in Msgs /\ len \in HdrSize..MaxImsg
    BY <1>2, ReadBuffer
  <2>2. Len(r) >= len
    BY <1>2 DEF Complete
  <2> HIDE DEF len, c
  <2>3. len \in 1..Len(r) /\ len \in Nat
    BY <1>1, <2>1, <2>2, ImsgAssumption
  <2> QED
    BY <2>1, <2>3 DEF Msgs
<1> HIDE DEF c
<1>4. ASSUME NEW k \in 1..Len(r), k <= len PROVE r[k] = <<c, k>>
  <2>1. k \in 1..Len(Flight) /\ Flight[k] = r[k]
    BY <1>1, FlightFacts
  <2> QED
    BY <1>1, <1>4, <2>1, RunMessage
<1>5. ASSUME NEW k \in 1..Len(r), k # 1 PROVE Before(<<c, 1>>, r[k]) /\ r[k] \in Nat \X Nat
  <2>1. 1 < k
    BY <1>1, <1>5
  <2>2. k \in 1..Len(Flight) /\ Flight[k] = r[k] /\ 1 \in 1..Len(Flight) /\ Flight[1] = r[1]
    BY <1>1, <1>2, FlightFacts
  <2>3. Before(Flight[1], Flight[k])
    BY <1>1, <2>1, <2>2, RunOrdered
  <2> QED
    BY <1>2, <2>2, <2>3, ReadBuffer
<1>6. ASSUME NEW k \in 1..Len(r), ~(k <= len) PROVE ~(r[k][1] <= c /\ r[k][2] = 1)
  <2>1. k # 1
    BY <1>3, <1>6
  <2> QED
    BY <1>1, <1>5, <2>1 DEF Before
<1>7. ASSUME msgs[c].fd PROVE fds # <<>> /\ fds[1] = c
  <2>1. c \in Opened
    BY <1>2, <1>7 DEF Opened
  <2>2. PICK i \in 1..Len(fds) : fds[i] = c
    BY <2>1 DEF IInv, Descriptors
  <2>3. fds # <<>> /\ 1 \in 1..Len(fds)
    BY <1>1, EmptySeq
  <2>4. fds[1] \in Opened
    BY <2>3 DEF IInv, Descriptors
  <2>5. PICK k \in 1..Len(r) : r[k] = <<fds[1], 1>>
    BY <2>4 DEF Opened
  <2>6. fds[1] \in Nat
    BY <2>3, <1>1, ElementOfSeq
  <2>7. ~(fds[1] < c)
    <3>1. CASE k = 1
      BY <1>1, <1>2, <2>5, <3>1
    <3>2. CASE k # 1
      BY <1>1, <1>5, <2>5, <2>6, <3>2 DEF Before
    <3> QED
      BY <3>1, <3>2
  <2>8. i = 1
    <3>1. 1 < i => fds[1] < fds[i]
      BY <2>3 DEF IInv, Descriptors
    <3> QED
      BY <1>1, <2>2, <2>7, <3>1
  <2> QED
    BY <2>2, <2>3, <2>8
<1> QED
  BY <1>2, <1>3, <1>4, <1>6, <1>7 DEF c, Start

(* The message imsg_get hands to p_cb.                                     *)
LEMMA Got ==
  ASSUME IInv, ImsgGet
  PROVE  /\ Complete
         /\ r' = SubSeq(r, msgs[Len(got) + 1].len + 1, Len(r))
         /\ fds' = IF msgs[Len(got) + 1].fd THEN Tail(fds) ELSE fds
         /\ got' = Append(got, Whole(Len(got) + 1))
         /\ UNCHANGED <<msgs, w, sender, events, sock, receiver>>
<1> DEFINE c == Len(got) + 1
<1>1. Complete /\ UNCHANGED <<msgs, w, sender, events, sock, receiver>>
  BY DEF ImsgGet
<1>2. r[1][1] = c
  BY <1>1, FirstMessage DEF Start
<1> HIDE DEF c
<1>3. /\ r' = SubSeq(r, msgs[c].len + 1, Len(r))
      /\ fds' = IF msgs[c].fd /\ fds # <<>> THEN Tail(fds) ELSE fds
      /\ got' = Append(got, [m |-> c, fd |-> IF msgs[c].fd THEN ImsgGetFd(fds) ELSE None,
                             len |-> msgs[c].len])
  BY <1>2 DEF ImsgGet
<1>4. msgs[c].fd => fds # <<>> /\ fds[1] = c
  BY <1>1, FirstMessage DEF c
<1>5. fds' = IF msgs[c].fd THEN Tail(fds) ELSE fds
  BY <1>3, <1>4
<1>6. msgs[c].fd => ImsgGetFd(fds) = c
  <2>1. fds \in Seq(Nat)
    BY DEF IInv, TypeOK
  <2> QED
    BY <1>4, <2>1, HeadTailProperties DEF ImsgGetFd
<1>7. (IF msgs[c].fd THEN ImsgGetFd(fds) ELSE None) = (IF msgs[c].fd THEN c ELSE None)
  BY <1>6
<1>8. got' = Append(got, Whole(c))
  BY <1>3, <1>7 DEF Whole
<1> QED
  BY <1>1, <1>3, <1>5, <1>8, Zenon DEF c
(* Dropping the first d elements of s \o t, where they are all of s.       *)
LEMMA DropFirst ==
  ASSUME NEW S, NEW s \in Seq(S), NEW t \in Seq(S), NEW d \in 1..Len(s)
  PROVE  /\ SubSeq(s, d + 1, Len(s)) \in Seq(S) /\ Len(SubSeq(s, d + 1, Len(s))) = Len(s) - d
         /\ \A i \in 1..(Len(s) - d) : SubSeq(s, d + 1, Len(s))[i] = s[d + i]
         /\ SubSeq(s \o t, d + 1, Len(s \o t)) = SubSeq(s, d + 1, Len(s)) \o t
<1> DEFINE k == Len(s)
           l == Len(t)
           z == s \o t
           a == SubSeq(s, d + 1, k)
           b == SubSeq(z, d + 1, Len(z))
           e == a \o t
<1>1. k \in Nat /\ l \in Nat /\ d \in Nat /\ 1 <= d /\ d <= k
  BY LenProperties
<1>2. z \in Seq(S) /\ Len(z) = k + l /\ \A i \in 1..(k + l) : z[i] = IF i <= k THEN s[i] ELSE t[i - k]
  BY ConcatProperties
<1>3. ASSUME NEW x \in Seq(S), NEW n \in Nat, Len(x) = n, d <= n
      PROVE  /\ SubSeq(x, d + 1, n) \in Seq(S) /\ Len(SubSeq(x, d + 1, n)) = n - d
             /\ \A i \in 1..(n - d) : SubSeq(x, d + 1, n)[i] = x[d + i]
  <2> DEFINE y == SubSeq(x, d + 1, n)
  <2>1. /\ d + 1 \in Int /\ n \in Int
        /\ n - (d + 1) + 1 = n - d /\ \A i \in 1..(n - d) : (d + 1) + i - 1 = d + i
    BY <1>1
  <2>2. \A i \in d + 1..n : x[i] \in S
    BY <1>1, <1>3, ElementOfSeq
  <2>3. /\ y \in Seq(S)
        /\ Len(y) = IF d + 1 <= n THEN n - (d + 1) + 1 ELSE 0
        /\ \A i \in 1..(n - (d + 1) + 1) : y[i] = x[(d + 1) + i - 1]
    BY <2>1, <2>2, SubSeqProperties
  <2> HIDE DEF y
  <2>4. Len(y) = n - d
    BY <1>1, <1>3, <2>3
  <2>5. y \in Seq(S) /\ Len(y) = n - d /\ \A i \in 1..(n - d) : y[i] = x[d + i]
    BY <2>1, <2>3, <2>4
  <2> QED
    BY <2>5 DEF y
<1>4. a \in Seq(S) /\ Len(a) = k - d /\ \A i \in 1..(k - d) : a[i] = s[d + i]
  BY <1>1, <1>3
<1>5. b \in Seq(S) /\ Len(b) = (k + l) - d /\ \A i \in 1..((k + l) - d) : b[i] = z[d + i]
  <2> DEFINE n == Len(z)
  <2>1. n \in Nat /\ d <= n /\ n = k + l
    BY <1>1, <1>2
  <2> HIDE DEF z, k, l
  <2> QED
    BY <1>2, <1>3, <2>1
<1> HIDE DEF a, b, z, k, l
<1>6. /\ e \in Seq(S) /\ Len(e) = (k - d) + l
      /\ \A i \in 1..((k - d) + l) : e[i] = IF i <= k - d THEN a[i] ELSE t[i - (k - d)]
  <2>1. /\ a \o t \in Seq(S) /\ Len(a \o t) = Len(a) + Len(t)
        /\ \A i \in 1..Len(a) + Len(t) : (a \o t)[i] = IF i <= Len(a) THEN a[i] ELSE t[i - Len(a)]
    BY <1>4, ConcatProperties
  <2> QED
    BY <1>4, <2>1 DEF l
<1> HIDE DEF e
<1>7. (k - d) + l = (k + l) - d
  BY <1>1
<1>8. ASSUME NEW i \in 1..((k + l) - d) PROVE b[i] = e[i]
  <2>1. CASE i <= k - d
    <3>1. i \in 1..(k - d) /\ d + i \in 1..(k + l) /\ d + i <= k
      BY <1>1, <2>1
    <3> QED
      BY <1>2, <1>4, <1>5, <1>6, <1>7, <2>1, <3>1, Zenon
  <2>2. CASE ~(i <= k - d)
    <3>1. d + i \in 1..(k + l) /\ ~(d + i <= k) /\ (d + i) - k = i - (k - d)
      BY <1>1, <2>2
    <3> QED
      BY <1>2, <1>5, <1>6, <1>7, <2>2, <3>1
  <2> QED
    BY <2>1, <2>2
<1>9. b = e
  BY <1>5, <1>6, <1>7, <1>8, SeqEqual
<1> QED
  BY <1>4, <1>9, Zenon DEF a, b, e, z, k

LEMMA StepImsgGet == IInv /\ ImsgGet => IInv'
<1> SUFFICES ASSUME IInv, ImsgGet PROVE IInv'
  OBVIOUS
<1> DEFINE c == Len(got) + 1
           len == msgs[c].len
<1>1. /\ Complete
      /\ r' = SubSeq(r, len + 1, Len(r))
      /\ fds' = IF msgs[c].fd THEN Tail(fds) ELSE fds
      /\ got' = Append(got, Whole(c))
      /\ UNCHANGED <<msgs, w, sender, events, sock, receiver>>
  BY Got
<1>2. /\ r # <<>> /\ r[1] = <<c, 1>> /\ c \in 1..Len(msgs) /\ len \in 1..Len(r) /\ msgs[c].fd \in BOOLEAN
      /\ \A k \in 1..Len(r) : IF k <= len THEN r[k] = <<c, k>> ELSE ~(r[k][1] <= c /\ r[k][2] = 1)
      /\ msgs[c].fd => fds # <<>> /\ fds[1] = c
  BY <1>1, FirstMessage DEF Start
<1>3. /\ msgs \in Seq(Msgs) /\ sock \in Seq(Kernel) /\ r \in Seq(Nat \X Nat) /\ fds \in Seq(Nat)
      /\ Len(r) \in Nat /\ Len(msgs) \in Nat /\ Len(fds) \in Nat /\ Len(got) \in Nat
      /\ Run(Flight, Start, msgs) /\ receiver = "get"
      /\ got \in Seq([m : Nat, fd : Nat, len : Nat])
  BY FlightFacts DEF IInv, TypeOK, InFlight, Kernel, ImsgGet
<1>4. Whole(c) \in [m : Nat, fd : Nat, len : Nat] /\ len \in Nat /\ c \in Nat
  <2>1. len \in Nat /\ c \in Nat
    BY <1>2, <1>3
  <2> DEFINE f == IF msgs[c].fd THEN c ELSE None
  <2>2. f \in Nat
    BY <2>1 DEF None
  <2>3. Whole(c) = [m |-> c, fd |-> f, len |-> len]
    BY DEF Whole
  <2> HIDE DEF f, c, len
  <2> QED
    BY <2>1, <2>2, <2>3
<1>5. /\ got' \in Seq([m : Nat, fd : Nat, len : Nat]) /\ Len(got') = c
      /\ got'[c] = Whole(c) /\ \A i \in 1..Len(got) : got'[i] = got[i]
  <2> DEFINE x == Whole(c)
             R == [m : Nat, fd : Nat, len : Nat]
  <2>1. x \in R /\ got \in Seq(R) /\ got' = Append(got, x)
    BY <1>1, <1>3, <1>4
  <2> HIDE DEF x, R
  <2>2. /\ got' \in Seq(R) /\ Len(got') = Len(got) + 1 /\ got'[Len(got) + 1] = x
        /\ \A i \in 1..Len(got) : got'[i] = got[i]
    BY <2>1, AppendProperties
  <2> QED
    BY <2>2, Zenon DEF x, R
<1>6. /\ r' \in Seq(Nat \X Nat) /\ Len(r') = Len(r) - len
      /\ \A i \in 1..(Len(r) - len) : r'[i] = r[len + i]
      /\ Flight' = SubSeq(Flight, len + 1, Len(Flight))
  <2> DEFINE S == Nat \X Nat
             u == Units(sock)
  <2>1. r \in Seq(S) /\ u \in Seq(S) /\ len \in 1..Len(r)
    BY <1>2, <1>3, UnitsOf
  <2>2. Flight = r \o u /\ Flight' = r' \o u
    <3>1. Flight' = r' \o Units(sock')
      BY DEF Flight, Units
    <3> QED
      BY <1>1, <3>1 DEF Flight
  <2> HIDE DEF S, u, len, c
  <2>3. /\ SubSeq(r, len + 1, Len(r)) \in Seq(S) /\ Len(SubSeq(r, len + 1, Len(r))) = Len(r) - len
        /\ \A i \in 1..(Len(r) - len) : SubSeq(r, len + 1, Len(r))[i] = r[len + i]
        /\ SubSeq(r \o u, len + 1, Len(r \o u)) = SubSeq(r, len + 1, Len(r)) \o u
    BY <2>1, DropFirst, Zenon
  <2> QED
    BY <1>1, <2>2, <2>3, Zenon DEF S
<1> HIDE DEF c, len
<1>7. len \in 1..Len(Flight) /\ After(Flight[len], msgs) = <<c + 1, 1>>
  <2>1. len \in 1..Len(Flight) /\ Flight[len] = r[len]
    BY <1>2, FlightFacts DEF IInv
  <2>2. r[len] = <<c, len>>
    <3>1. len <= len
      BY <1>4
    <3> QED
      BY <1>2, <3>1
  <2>3. Flight[len][1] = c /\ Flight[len][2] = len /\ ~(len < msgs[c].len)
    BY <1>4, <2>1, <2>2 DEF len
  <2> QED
    BY <2>1, <2>3, Zenon DEF After
<1>8. Start' = <<c + 1, 1>>
  BY <1>5 DEF Start
<1>9. Run(Flight', Start', msgs) /\ End(Flight', Start', msgs) = End(Flight, Start, msgs)
  BY <1>3, <1>6, <1>7, <1>8, RunRest, Zenon
<1>10. TypeOK'
  <2>1. fds' \in Seq(Nat)
    BY <1>1, <1>2, <1>3, HeadTailProperties
  <2> QED
    BY <1>1, <1>5, <1>6, <2>1 DEF IInv, TypeOK
<1>11. InFlight'
  BY <1>1, <1>9 DEF IInv, InFlight
<1>12. Handled'
  <2>1. ASSUME NEW i \in 1..c PROVE got'[i] = Whole(i)'
    <3>1. Whole(i)' = Whole(i)
      BY <1>1 DEF Whole
    <3>2. i = c \/ i \in 1..Len(got)
      BY <1>3 DEF c
    <3> QED
      BY <1>5, <3>1, <3>2, Zenon DEF IInv, Handled
  <2>2. c <= Len(msgs)
    BY <1>2, <1>3
  <2> QED
    BY <1>1, <1>5, <2>1, <2>2 DEF Handled
<1>13. Opened' = Opened \ {c}
  <2>1. Opened' = {m \in 1..Len(msgs) : msgs[m].fd /\ \E i \in 1..Len(r') : r'[i] = <<m, 1>>}
    BY <1>1 DEF Opened
  <2>2. ASSUME NEW m \in 1..Len(msgs), NEW i \in 1..Len(r'), r'[i] = <<m, 1>>
        PROVE  m # c /\ \E k \in 1..Len(r) : r[k] = <<m, 1>>
    <3>1. len + i \in 1..Len(r) /\ ~(len + i <= len) /\ r'[i] = r[len + i]
      <4>1. i \in 1..(Len(r) - len) /\ r'[i] = r[len + i]
        BY <1>6
      <4>2. len + i \in 1..Len(r) /\ ~(len + i <= len)
        BY <1>3, <1>4, <4>1
      <4> QED
        BY <4>1, <4>2
    <3>2. ~(m <= c)
      BY <1>2, <2>2, <3>1
    <3>3. m # c
      BY <1>4, <3>2
    <3> QED
      BY <2>2, <3>1, <3>3
  <2>3. ASSUME NEW m \in 1..Len(msgs), m # c, NEW k \in 1..Len(r), r[k] = <<m, 1>>
        PROVE  \E i \in 1..Len(r') : r'[i] = <<m, 1>>
    <3>1. ~(k <= len)
      BY <1>2, <2>3
    <3>2. k - len \in 1..(Len(r) - len) /\ len + (k - len) = k
      BY <1>3, <1>4, <3>1
    <3> QED
      BY <1>6, <2>3, <3>2, Zenon
  <2> QED
    BY <2>1, <2>2, <2>3, Zenon DEF Opened
<1>14. Descriptors'
  <2>1. CASE msgs[c].fd
    <3> DEFINE L == Len(fds)
    <3>1. fds # <<>> /\ fds[1] = c /\ fds' = Tail(fds)
      BY <1>1, <1>2, <2>1
    <3>2. L \in Nat /\ L # 0 /\ Len(fds') = L - 1 /\ \A i \in 1..(L - 1) : fds'[i] = fds[i + 1]
      BY <1>3, <3>1, HeadTailProperties, EmptySeq
    <3>3. /\ \A i, j \in 1..L : i < j => fds[i] < fds[j]
          /\ {fds[i] : i \in 1..L} = Opened
      BY DEF IInv, Descriptors
    <3> HIDE DEF L
    <3>4. ASSUME NEW i \in 1..(L - 1)
          PROVE  i + 1 \in 1..L /\ fds'[i] = fds[i + 1] /\ fds[i + 1] # c
      <4>1. i + 1 \in 1..L /\ 1 \in 1..L /\ 1 < i + 1
        BY <3>2
      <4>2. fds[1] < fds[i + 1]
        BY <3>3, <4>1
      <4> QED
        BY <1>4, <3>1, <3>2, <4>1, <4>2
    <3>5. \A i, j \in 1..Len(fds') : i < j => fds'[i] < fds'[j]
      <4> SUFFICES ASSUME NEW i \in 1..(L - 1), NEW j \in 1..(L - 1), i < j
                   PROVE  fds'[i] < fds'[j]
        BY <3>2
      <4>1. i + 1 < j + 1
        BY <3>2
      <4> QED
        BY <3>3, <3>4, <4>1
    <3>6. {fds'[i] : i \in 1..Len(fds')} = Opened \ {c}
      <4>1. ASSUME NEW i \in 1..L, fds[i] # c PROVE i - 1 \in 1..(L - 1) /\ (i - 1) + 1 = i
        BY <3>1, <3>2, <4>1
      <4>2. \A x \in Opened \ {c} : \E i \in 1..(L - 1) : x = fds'[i]
        BY <3>3, <3>4, <4>1
      <4>3. \A i \in 1..(L - 1) : fds'[i] \in Opened \ {c}
        BY <3>3, <3>4
      <4> QED
        BY <3>2, <4>2, <4>3
    <3> QED
      BY <1>13, <3>5, <3>6 DEF Descriptors
  <2>2. CASE ~msgs[c].fd
    <3>1. c \notin Opened /\ fds' = fds
      BY <1>1, <2>2 DEF Opened
    <3> QED
      BY <1>13, <3>1 DEF IInv, Descriptors
  <2> QED
    BY <2>1, <2>2
<1>15. Loops'
  BY <1>1, <1>3 DEF IInv, Loops, NoFalseEof
<1> QED
  BY <1>10, <1>11, <1>12, <1>14, <1>15 DEF IInv
LEMMA NextIInv == IInv /\ [Next]_vars => IInv'
<1> SUFFICES ASSUME IInv, [Next]_vars PROVE IInv'
  OBVIOUS
<1>1. CASE UNCHANGED vars
  <2>1. receiver' \in {"loop", "get", "dead"} /\ UNCHANGED <<msgs, w, sock, r, fds, got>> /\ sender' = sender
    BY <1>1 DEF vars, IInv, TypeOK
  <2>2. TypeOK' /\ InFlight' /\ Descriptors' /\ Handled'
    BY <2>1, ControlSteps
  <2>3. Loops'
    BY <1>1 DEF vars, IInv, Loops, Complete, NoFalseEof, ImsgEventAdd
  <2> QED
    BY <2>2, <2>3 DEF IInv
<1>2. CASE Next
  BY <1>2, StepCompose, StepDispatchWrite, StepProcFlushImsg, StepImsgFlush, StepFlushDone,
     StepProcClose, StepDispatchRead, StepImsgGet, StepDispatchDone, StepDispatchEof DEF Next
<1> QED
  BY <1>1, <1>2

(* The invariant holds of the handlers of both ends and of the kernel      *)
(* between them.                                                           *)
THEOREM AlwaysIInv == Spec => []IInv
  BY InitIInv, NextIInv, PTL DEF Spec

(* imsg_event_add is called after everything that changes the queue: while *)
(* the sender is in its event loop it waits for EV_WRITE exactly when      *)
(* there are buffers to write.                                             *)
THEOREM WriteEventKept == Spec => []WriteEventExact
<1>1. IInv => WriteEventExact
  BY DEF IInv, Loops, WriteEventExact, ImsgEventAdd
<1> QED
  BY <1>1, AlwaysIInv, PTL

(* recvmsg never returns 0 for want of room: proc_dispatch takes the pipe  *)
(* for dead only when the other end closed it and all was read.            *)
THEOREM EofIsTrue == Spec => []NoFalseEof
<1>1. IInv => NoFalseEof
  BY DEF IInv, Loops
<1> QED
  BY <1>1, AlwaysIInv, PTL

-----------------------------------------------------------------------------
(* The refinement of Channel.                                              *)

Record == [m : Nat, fd : Nat, len : Nat]

(* Message m of ms, whole.                                                 *)
Full(ms, m) == [m |-> m, fd |-> IF ms[m].fd THEN m ELSE None, len |-> ms[m].len]

PendingOK ==
    /\ Arriving \in Nat /\ Len(got) <= Arriving /\ Arriving <= Len(msgs)
    /\ Sent = {m \in Len(got) + 1..Len(msgs) :
                  \E i \in 1..Len(Flight) : Flight[i] = <<m, msgs[m].len>>}
    /\ LastSent \in Len(got)..Len(msgs)
    /\ LastSent \in Sent \cup {Len(got)} /\ \A m \in Sent : m <= LastSent
    /\ \A m \in 1..Len(msgs) : Full(msgs, m) \in Record
    /\ Pending \in Seq(Record) /\ Len(Pending) = Arriving - Len(got)
    /\ \A k \in 1..Len(Pending) : Pending[k] = Full(msgs, Len(got) + k)

LEMMA PendingFacts == IInv => PendingOK
<1> SUFFICES ASSUME IInv PROVE PendingOK
  OBVIOUS
<1> DEFINE G == Len(got)
           M == Len(msgs)
<1>1. TypeOK /\ G \in Nat /\ M \in Nat /\ G <= M /\ Len(r) \in Nat /\ Len(sock) \in Nat
  BY FlightFacts DEF IInv, Handled
<1>2. ASSUME NEW m \in 1..M PROVE Full(msgs, m) \in Record /\ Full(msgs, m) = Whole(m)
  <2>1. msgs[m].len \in HdrSize..MaxImsg
    BY ReadBuffer
  <2>2. msgs[m].len \in Nat
    BY <2>1, ImsgAssumption
  <2> QED
    BY <1>1, <2>2 DEF Whole, Full, Record, None
<1>3. Sent = {m \in G + 1..M : \E i \in 1..Len(Flight) : Flight[i] = <<m, msgs[m].len>>}
  <2> DEFINE In(m) == \/ \E i \in 1..Len(sock) : sock[i].m = m /\ sock[i].u = msgs[m].len
                      \/ \E i \in 1..Len(r) : r[i] = <<m, msgs[m].len>>
  <2>1. ASSUME NEW m, In(m) PROVE \E i \in 1..Len(Flight) : Flight[i] = <<m, msgs[m].len>>
    <3>1. CASE \E i \in 1..Len(r) : r[i] = <<m, msgs[m].len>>
      BY <1>1, <3>1, FlightFacts, Zenon
    <3>2. CASE \E i \in 1..Len(sock) : sock[i].m = m /\ sock[i].u = msgs[m].len
      <4>1. PICK i \in 1..Len(sock) : sock[i].m = m /\ sock[i].u = msgs[m].len
        BY <3>2
      <4>2. Unit(sock[i]) = <<m, msgs[m].len>>
        BY <4>1 DEF Unit
      <4> QED
        BY <1>1, <4>2, FlightFacts, Zenon
    <3> QED
      BY <2>1, <3>1, <3>2
  <2>2. ASSUME NEW m, NEW i \in 1..Len(Flight), Flight[i] = <<m, msgs[m].len>> PROVE In(m)
    <3>1. CASE i <= Len(r)
      <4>1. i \in 1..Len(r)
        BY <1>1, <3>1
      <4>2. r[i] = <<m, msgs[m].len>>
        BY <1>1, <2>2, <4>1, FlightFacts, Zenon
      <4> QED
        BY <4>1, <4>2
    <3>2. CASE ~(i <= Len(r))
      <4> DEFINE j == i - Len(r)
      <4>1. j \in 1..Len(sock) /\ Len(r) + j = i
        <5>1. i \in 1..Len(r) + Len(sock)
          BY <1>1, FlightFacts
        <5> QED
          BY <1>1, <3>2, <5>1
      <4> HIDE DEF j
      <4>2. Unit(sock[j]) = <<m, msgs[m].len>>
        BY <1>1, <2>2, <4>1, FlightFacts
      <4> QED
        BY <4>1, <4>2 DEF Unit
    <3> QED
      BY <1>1, <3>1, <3>2
  <2>3. Sent = {m \in G + 1..M : In(m)}
    BY DEF Sent
  <2> HIDE DEF In
  <2> QED
    BY <2>1, <2>2, <2>3, Zenon
<1> HIDE DEF G, M
<1>4. LastSent \in G..M /\ LastSent \in Sent \cup {G} /\ \A m \in Sent : m <= LastSent
  <2>1. Sent \subseteq G + 1..M
    BY <1>3
  <2> DEFINE S == Sent \cup {G}
  <2>2. S \subseteq 0..M /\ S # {} /\ S \subseteq G..M /\ Sent \subseteq S
    BY <1>1, <2>1
  <2> HIDE DEF S
  <2>3. \E n \in S : \A m \in S : m <= n
    BY <1>1, <2>2, GreatestNat, Zenon
  <2>4. \E n \in S : \A m \in Sent : m <= n
    BY <2>2, <2>3
  <2>5. LastSent \in S /\ \A m \in Sent : m <= LastSent
    BY <2>4 DEF LastSent, S, G
  <2> QED
    BY <2>2, <2>5 DEF S
<1>5. Arriving \in Nat /\ G <= Arriving /\ Arriving <= M
  BY <1>1, <1>4 DEF Arriving, G, M
<1>6. Arriving - G \in Nat /\ \A k \in 1..Arriving - G : G + k \in 1..M
  BY <1>1, <1>5
<1>7. Pending \in [1..Arriving - G -> Record]
  BY <1>2, <1>6 DEF Pending, G
<1>8. Pending \in Seq(Record)
  BY <1>6, <1>7, SeqDef
<1>9. Len(Pending) = Arriving - G
  BY <1>6, <1>7, <1>8, LenProperties
<1>10. \A k \in 1..Len(Pending) : Pending[k] = Full(msgs, G + k)
  BY <1>9, Zenon DEF Pending, G, Whole, Full
<1> QED
  BY <1>2, <1>3, <1>4, <1>5, <1>8, <1>9, <1>10, Zenon DEF PendingOK, G, M
(* imsg_compose_event is Send.                                             *)
LEMMA ComposeSends ==
  ASSUME IInv, IInv', PendingOK, PendingOK',
         NEW datalen \in 0..Wrap - 1, NEW hasfd \in BOOLEAN, ImsgComposeEvent(datalen, hasfd)
  PROVE  Pipe!Send
<1> DEFINE G == Len(got)
           M == Len(msgs)
<1>1. /\ sender = "loop" /\ UNCHANGED <<sender, got>>
      /\ G \in Nat /\ M \in Nat /\ G <= M
  BY FlightFacts DEF IInv, Handled, ImsgComposeEvent
<1>2. PICK x \in Msgs : msgs' = Append(msgs, x)
  BY Composed, Zenon
<1>3. /\ Len(msgs') = M + 1 /\ M + 1 <= MaxMsgs /\ msgs'[M + 1] = x
      /\ \A i \in 1..M : msgs'[i] = msgs[i]
  BY <1>2, AppendProperties DEF IInv, TypeOK
<1>4. Arriving = M /\ Arriving' = M + 1
  BY <1>1, <1>3 DEF Arriving
<1>5. /\ Pending \in Seq(Record) /\ Len(Pending) = M - G
      /\ \A k \in 1..(M - G) : Pending[k] = Full(msgs, G + k)
  BY <1>4 DEF PendingOK
<1>6. /\ Pending' \in Seq(Record) /\ Len(Pending') = (M + 1) - G
      /\ \A k \in 1..((M + 1) - G) : Pending'[k] = Full(msgs', G + k)
      /\ \A k \in 1..Len(msgs') : Full(msgs', k) \in Record
  BY <1>1, <1>4 DEF PendingOK
<1> DEFINE e == Full(msgs', M + 1)
<1>7. e \in [m : 1..MaxMsgs, fd : 0..MaxMsgs, len : HdrSize..MaxImsg] /\ e \in Record
  <2>1. M + 1 \in 1..MaxMsgs /\ M + 1 \in 0..MaxMsgs /\ None \in 0..MaxMsgs /\ M + 1 \in 1..Len(msgs')
    BY <1>1, <1>3, ImsgAssumption DEF None
  <2>2. x.len \in HdrSize..MaxImsg
    BY DEF Msgs
  <2>3. e \in Record
    BY <1>6, <2>1
  <2> QED
    BY <1>3, <2>1, <2>2, <2>3 DEF Full
<1> HIDE DEF e, G, M
<1>8. /\ Append(Pending, e) \in Seq(Record) /\ Len(Append(Pending, e)) = (M - G) + 1
      /\ Append(Pending, e)[(M - G) + 1] = e
      /\ \A k \in 1..(M - G) : Append(Pending, e)[k] = Pending[k]
  BY <1>5, <1>7, AppendProperties
<1>9. ASSUME NEW k \in 1..((M + 1) - G) PROVE Pending'[k] = Append(Pending, e)[k]
  <2>1. CASE k = (M - G) + 1
    <3>1. G + k = M + 1
      BY <1>1, <2>1
    <3> QED
      BY <1>6, <1>8, <2>1, <3>1 DEF e
  <2>2. CASE k # (M - G) + 1
    <3>1. k \in 1..(M - G) /\ G + k \in 1..M
      BY <1>1, <2>2
    <3>2. Full(msgs', G + k) = Full(msgs, G + k)
      BY <1>3, <3>1 DEF Full
    <3> QED
      BY <1>5, <1>6, <1>8, <3>1, <3>2
  <2> QED
    BY <2>1, <2>2, Zenon
<1>10. Pending' = Append(Pending, e)
  <2>1. Len(Pending') = Len(Append(Pending, e))
    BY <1>1, <1>6, <1>8
  <2> QED
    BY <1>6, <1>8, <1>9, <2>1, SeqEqual
<1> QED
  BY <1>1, <1>7, <1>10 DEF Pipe!Send

(* A prefix of what is pending.                                            *)
LEMMA PendingSubSeq ==
  ASSUME NEW s \in Seq(Record), NEW a \in Nat \ {0}, NEW b \in 0..Len(s)
  PROVE  /\ SubSeq(s, a, b) \in Seq(Record)
         /\ Len(SubSeq(s, a, b)) = IF a <= b THEN (b - a) + 1 ELSE 0
         /\ \A i \in 1..((b - a) + 1) : SubSeq(s, a, b)[i] = s[a + (i - 1)]
<1>1. a \in Int /\ b \in Int /\ Len(s) \in Nat
  BY LenProperties
<1>2. \A i \in a..b : s[i] \in Record
  BY <1>1, ElementOfSeq
<1> QED
  BY <1>1, <1>2, SubSeqProperties

(* proc_close loses what the kernel does not have whole.                   *)
LEMMA ProcCloseCloses ==
  ASSUME IInv, PendingOK, PendingOK', ProcClose
  PROVE  Pipe!Close
<1> DEFINE G == Len(got)
           M == Len(msgs)
           n == LastSent - G
<1>1. /\ sender = "loop" /\ sender' = "closed" /\ UNCHANGED <<msgs, sock, r, got>>
      /\ G \in Nat /\ M \in Nat /\ G <= M
  BY FlightFacts DEF IInv, Handled, ProcClose
<1>2. n \in Nat /\ n <= M - G /\ G + n = LastSent
  BY <1>1 DEF PendingOK
<1>3. Sent' = Sent
  BY <1>1 DEF Sent
<1>4. Arriving = M /\ Arriving' = G + n
  BY <1>1, <1>2, <1>3 DEF Arriving, LastSent
<1>5. /\ Pending \in Seq(Record) /\ Len(Pending) = M - G
      /\ \A k \in 1..(M - G) : Pending[k] = Full(msgs, G + k)
  BY <1>4, Zenon DEF PendingOK
<1>6. /\ Pending' \in Seq(Record) /\ Len(Pending') = (G + n) - G
      /\ \A k \in 1..((G + n) - G) : Pending'[k] = Full(msgs, G + k)
  BY <1>1, <1>4 DEF PendingOK
<1> HIDE DEF n, G, M
<1>7. n \in 0..Len(Pending) /\ (G + n) - G = n /\ (n - 1) + 1 = n /\ \A k \in 1..n : 1 + (k - 1) = k
  BY <1>1, <1>2, <1>5
<1>8. /\ SubSeq(Pending, 1, n) \in Seq(Record)
      /\ Len(SubSeq(Pending, 1, n)) = n
      /\ \A k \in 1..n : SubSeq(Pending, 1, n)[k] = Pending[k]
  <2>1. /\ SubSeq(Pending, 1, n) \in Seq(Record)
        /\ Len(SubSeq(Pending, 1, n)) = IF 1 <= n THEN (n - 1) + 1 ELSE 0
        /\ \A k \in 1..((n - 1) + 1) : SubSeq(Pending, 1, n)[k] = Pending[1 + (k - 1)]
    <3>1. Pending \in Seq(Record) /\ 1 \in Nat \ {0} /\ n \in 0..Len(Pending)
      BY <1>5, <1>7
    <3> QED
      BY <3>1, PendingSubSeq
  <2>2. (IF 1 <= n THEN (n - 1) + 1 ELSE 0) = n
    BY <1>2
  <2> QED
    BY <1>7, <2>1, <2>2
<1>9. \A k \in 1..n : k \in 1..(M - G)
  BY <1>1, <1>2
<1>10. Pending' = SubSeq(Pending, 1, n)
  BY <1>5, <1>6, <1>7, <1>8, <1>9, SeqEqual
<1> QED
  BY <1>1, <1>7, <1>10 DEF Pipe!Close
(* imsg_get delivers one message.                                          *)
LEMMA GetLeavesSent ==
  ASSUME IInv, ImsgGet
  PROVE  Len(got) + 1 \in Sent /\ Sent' = Sent \ {Len(got) + 1}
<1> DEFINE c == Len(got) + 1
           len == msgs[c].len
           M == Len(msgs)
           InSock(m) == \E i \in 1..Len(sock) : sock[i].m = m /\ sock[i].u = msgs[m].len
           InRead(m) == \E i \in 1..Len(r) : r[i] = <<m, msgs[m].len>>
           Later(m) == \E i \in 1..Len(r') : r'[i] = <<m, msgs[m].len>>
<1>1. /\ Complete /\ r' = SubSeq(r, len + 1, Len(r)) /\ got' = Append(got, Whole(c))
      /\ UNCHANGED <<msgs, sock>>
  BY Got
<1>2. /\ c \in 1..M /\ len \in 1..Len(r)
      /\ \A k \in 1..Len(r) : k <= len => r[k] = <<c, k>>
  BY <1>1, FirstMessage
<1>3. r \in Seq(Nat \X Nat) /\ Len(r) \in Nat /\ M \in Nat /\ Len(got) \in Nat
  BY FlightFacts DEF IInv, TypeOK
<1>4. Len(got') = c
  BY <1>1, <1>3, AppendProperties DEF IInv, TypeOK
<1>5. Sent = {m \in c..M : InSock(m) \/ InRead(m)} /\ Sent' = {m \in c + 1..M : InSock(m) \/ Later(m)}
  BY <1>1, <1>4, Zenon DEF Sent
<1> HIDE DEF c
<1>6. len \in Nat /\ len <= len /\ c \in Nat /\ c \in c..M
  BY <1>2, <1>3
<1>7. c \in Sent
  <2>1. r[len] = <<c, len>>
    BY <1>2, <1>6
  <2> QED
    BY <1>2, <1>5, <1>6, <2>1
<1>8. Len(r') = Len(r) - len /\ \A i \in 1..(Len(r) - len) : r'[i] = r[len + i]
  <2> DEFINE S == Nat \X Nat
  <2>1. r \in Seq(S) /\ len \in 1..Len(r)
    BY <1>2, <1>3
  <2> HIDE DEF S, len
  <2>2. /\ Len(SubSeq(r, len + 1, Len(r))) = Len(r) - len
        /\ \A i \in 1..(Len(r) - len) : SubSeq(r, len + 1, Len(r))[i] = r[len + i]
    BY <2>1, DropFirst
  <2> QED
    BY <1>1, <2>2, Zenon
<1> HIDE DEF len
<1>9. ASSUME NEW m \in c + 1..M, Later(m) PROVE InRead(m)
  <2>1. PICK i \in 1..Len(r') : r'[i] = <<m, msgs[m].len>>
    BY <1>9
  <2>2. i \in 1..(Len(r) - len) /\ r'[i] = r[len + i]
    BY <1>8
  <2>3. len + i \in 1..Len(r)
    BY <1>3, <1>6, <2>2
  <2> QED
    BY <2>1, <2>2, <2>3
<1>10. ASSUME NEW m \in c + 1..M, InRead(m) PROVE Later(m)
  <2>1. PICK k \in 1..Len(r) : r[k] = <<m, msgs[m].len>>
    BY <1>10
  <2>2. m # c
    BY <1>3, <1>6
  <2>3. ~(k <= len)
    BY <1>2, <2>1, <2>2
  <2>4. k - len \in 1..(Len(r) - len) /\ len + (k - len) = k
    BY <1>3, <1>6, <2>3
  <2>5. k - len \in 1..Len(r') /\ r'[k - len] = r[k]
    BY <1>8, <2>4
  <2> QED
    BY <2>1, <2>5
<1>11. c + 1..M = (c..M) \ {c}
  BY <1>3, <1>6
<1> HIDE DEF InSock, InRead, Later
<1>12. Sent' = Sent \ {c}
  BY <1>5, <1>9, <1>10, <1>11
<1> QED
  BY <1>7, <1>12 DEF c

LEMMA GetDelivers ==
  ASSUME IInv, PendingOK, PendingOK', ImsgGet
  PROVE  Pipe!Deliver
<1> DEFINE G == Len(got)
           c == G + 1
           N == Arriving - G
<1>1. got' = Append(got, Whole(c)) /\ UNCHANGED <<msgs, sender>> /\ Complete
  BY Got
<1>2. G \in Nat /\ Len(msgs) \in Nat /\ c \in 1..Len(msgs) /\ got \in Seq(Record)
  BY <1>1, FirstMessage, FlightFacts DEF IInv, TypeOK, Record
<1>3. Whole(c) = Full(msgs, c) /\ Whole(c) \in Record
  BY <1>2 DEF PendingOK, Whole, Full
<1>4. Len(got') = c
  BY <1>1, <1>2, <1>3, AppendProperties
<1>5. Arriving \in Nat /\ c <= Arriving /\ Arriving' = Arriving
  <2>1. CASE sender # "closed"
    <3>1. Arriving = Len(msgs) /\ Arriving' = Len(msgs)
      BY <1>1, <2>1 DEF Arriving
    <3> QED
      BY <1>2, <3>1
  <2>2. CASE sender = "closed"
    <3>1. c \in Sent /\ Sent' = Sent \ {c}
      BY GetLeavesSent
    <3>2. Arriving = LastSent /\ Arriving' = LastSent'
      BY <1>1, <2>2 DEF Arriving
    <3> DEFINE a == LastSent
               b == LastSent'
    <3>3. Sent \subseteq c..Len(msgs)
      BY <1>2 DEF PendingOK
    <3>4. a \in Sent \cup {G} /\ \A m \in Sent : m <= a
      BY Zenon DEF PendingOK
    <3>5. b \in Sent' \cup {c} /\ b \in c..Len(msgs) /\ \A m \in Sent' : m <= b
      BY <1>1, <1>4, Zenon DEF PendingOK
    <3> HIDE DEF a, b
    <3>6. a \in Sent
      BY <1>2, <3>1, <3>4
    <3>7. b \in Sent /\ \A m \in Sent : m <= b
      BY <1>2, <3>1, <3>5
    <3>8. a \in Nat /\ b \in Nat /\ c <= a /\ a <= b /\ b <= a
      BY <1>2, <3>3, <3>4, <3>6, <3>7
    <3> QED
      BY <3>2, <3>8 DEF a, b
  <2> QED
    BY <2>1, <2>2
<1>6. /\ Pending \in Seq(Record) /\ Len(Pending) = N
      /\ \A k \in 1..N : Pending[k] = Full(msgs, G + k)
  BY DEF PendingOK
<1>7. /\ Pending' \in Seq(Record) /\ Len(Pending') = Arriving - c
      /\ \A k \in 1..(Arriving - c) : Pending'[k] = Full(msgs, c + k)
  BY <1>1, <1>4, <1>5 DEF PendingOK
<1> HIDE DEF c, G, N
<1>8. /\ N \in Nat /\ 1 \in 1..N /\ Arriving - c = N - 1 /\ G + 1 = c
      /\ \A k \in 1..(N - 1) : 1 + k \in 1..N /\ G + (1 + k) = c + k /\ 2 + (k - 1) = 1 + k
  BY <1>2, <1>5 DEF c, N
<1>9. got' = got \o SubSeq(Pending, 1, 1)
  <2> DEFINE q == SubSeq(Pending, 1, 1)
             z == got \o q
  <2>1. q \in Seq(Record) /\ Len(q) = 1 /\ q[1] = Pending[1]
    <3>1. 1 \in Nat \ {0} /\ 1 \in 0..Len(Pending)
      BY <1>6, <1>8
    <3>2. /\ q \in Seq(Record) /\ Len(q) = IF 1 <= 1 THEN (1 - 1) + 1 ELSE 0
          /\ \A i \in 1..((1 - 1) + 1) : q[i] = Pending[1 + (i - 1)]
      BY <1>6, <3>1, PendingSubSeq
    <3> HIDE DEF q
    <3>3. 1 \in 1..((1 - 1) + 1) /\ 1 + (1 - 1) = 1
      OBVIOUS
    <3> QED
      BY <3>2, <3>3
  <2>2. q[1] = Whole(c)
    BY <1>3, <1>6, <1>8, <2>1
  <2> HIDE DEF q
  <2>3. /\ z \in Seq(Record) /\ Len(z) = Len(got) + 1
        /\ \A i \in 1..Len(got) + 1 : z[i] = IF i <= Len(got) THEN got[i] ELSE q[i - Len(got)]
    <3>1. /\ got \o q \in Seq(Record) /\ Len(got \o q) = Len(got) + Len(q)
          /\ \A i \in 1..Len(got) + Len(q) : (got \o q)[i] = IF i <= Len(got) THEN got[i] ELSE q[i - Len(got)]
      BY <1>2, <2>1, ConcatProperties, Zenon
    <3> QED
      BY <2>1, <3>1
  <2> HIDE DEF z
  <2>4. /\ got' \in Seq(Record) /\ Len(got') = Len(got) + 1 /\ got'[Len(got) + 1] = Whole(c)
        /\ \A i \in 1..Len(got) : got'[i] = got[i]
    <3> DEFINE x == Whole(c)
    <3>1. got \in Seq(Record) /\ x \in Record /\ got' = Append(got, x)
      BY <1>1, <1>2, <1>3
    <3> HIDE DEF x
    <3>2. /\ got' \in Seq(Record) /\ Len(got') = Len(got) + 1 /\ got'[Len(got) + 1] = x
          /\ \A i \in 1..Len(got) : got'[i] = got[i]
      BY <3>1, AppendProperties
    <3> QED
      BY <3>2 DEF x
  <2>5. ASSUME NEW i \in 1..Len(got) + 1 PROVE got'[i] = z[i]
    <3>1. CASE i = Len(got) + 1
      <4>1. ~(i <= Len(got)) /\ i - Len(got) = 1
        BY <1>2, <3>1 DEF G
      <4> QED
        BY <2>2, <2>3, <2>4, <3>1, <4>1
    <3>2. CASE i # Len(got) + 1
      <4>1. i \in 1..Len(got) /\ i <= Len(got)
        BY <1>2, <3>2 DEF G
      <4> QED
        BY <2>3, <2>4, <4>1
    <3> QED
      BY <3>1, <3>2
  <2>6. got' = z
    BY <2>3, <2>4, <2>5, SeqEqual
  <2> QED
    BY <2>6 DEF z, q
<1>10. Pending' = SubSeq(Pending, 2, Len(Pending))
  <2> DEFINE q == SubSeq(Pending, 2, N)
  <2>1. /\ q \in Seq(Record) /\ Len(q) = IF 2 <= N THEN (N - 2) + 1 ELSE 0
        /\ \A i \in 1..((N - 2) + 1) : q[i] = Pending[2 + (i - 1)]
    <3>1. 2 \in Nat \ {0} /\ N \in 0..Len(Pending)
      BY <1>6, <1>8
    <3> QED
      BY <1>6, <3>1, PendingSubSeq
  <2> HIDE DEF q
  <2>2. Len(q) = N - 1 /\ (N - 2) + 1 = N - 1
    BY <1>8, <2>1
  <2>3. \A k \in 1..(N - 1) : Pending'[k] = q[k]
    BY <1>6, <1>7, <1>8, <2>1, <2>2
  <2>4. Pending' = q
    BY <1>7, <1>8, <2>1, <2>2, <2>3, SeqEqual
  <2> QED
    BY <1>6, <2>4 DEF q
<1>11. 1 \in 1..Len(Pending) /\ 1 + 1 = 2
  BY <1>6, <1>8
<1> QED
  BY <1>9, <1>10, <1>11 DEF Pipe!Deliver
(* imsg_read, and every step that moves neither messages nor units, leaves *)
(* what is pending alone.                                                  *)
LEMMA SameFlight ==
  ASSUME PendingOK, PendingOK', Flight' = Flight, UNCHANGED <<msgs, got>>,
         sender' = sender \/ (sender # "closed" /\ sender' # "closed")
  PROVE  Pending' = Pending /\ got' = got
<1>1. Sent' = Sent
  BY DEF PendingOK
<1>2. Arriving' = Arriving
  BY <1>1 DEF Arriving, LastSent
<1> QED
  BY <1>2 DEF Pending, Whole

LEMMA ReadKeepsFlight ==
  ASSUME IInv, DispatchRead
  PROVE  Flight' = Flight
<1>1. /\ sock \in Seq(Kernel) /\ r \in Seq(Nat \X Nat) /\ Len(r) \in Nat /\ Len(sock) \in Nat
  BY FlightFacts DEF IInv, TypeOK, Kernel
<1>2. PICK n \in 1..Least(Len(sock), ReadSize - Len(r)) :
         /\ sock' = SubSeq(sock, n + 1, Len(sock))
         /\ r' = r \o [i \in 1..n |-> <<sock[i].m, sock[i].u>>]
  BY Zenon DEF DispatchRead
<1>3. n \in 1..Len(sock)
  BY <1>1, ImsgAssumption DEF Least
<1> DEFINE head == [i \in 1..n |-> <<sock[i].m, sock[i].u>>]
           rest == SubSeq(sock, n + 1, Len(sock))
<1>4. head \in Seq(Nat \X Nat) /\ rest \in Seq(Kernel) /\ Units(sock) = head \o Units(rest)
  BY <1>1, <1>3, ReadUnits, Zenon
<1>5. r \in Seq(Nat \X Nat) /\ head \in Seq(Nat \X Nat) /\ Units(rest) \in Seq(Nat \X Nat)
  BY <1>1, <1>4, UnitsOf, Zenon
<1>6. r' = r \o head /\ sock' = rest /\ Flight' = r' \o Units(sock')
  BY <1>2 DEF Flight, Units
<1> HIDE DEF head, rest
<1>7. (r \o head) \o Units(rest) = r \o (head \o Units(rest))
  BY <1>5, ConcatUnits, Zenon
<1> QED
  BY <1>4, <1>6, <1>7 DEF Flight

LEMMA NextChannel ==
  ASSUME IInv, IInv', PendingOK, PendingOK', [Next]_vars
  PROVE  Pipe!Next \/ (Pending' = Pending /\ got' = got)
<1>1. ASSUME NEW datalen \in 0..Wrap - 1, NEW hasfd \in BOOLEAN, ImsgComposeEvent(datalen, hasfd)
      PROVE  Pipe!Next
  BY <1>1, ComposeSends DEF Pipe!Next
<1>2. CASE DispatchWrite \/ ImsgFlush
  <2>1. UNCHANGED <<msgs, got, sender>> /\ sender # "closed"
    BY <1>2 DEF DispatchWrite, ImsgFlush, MsgbufWrite
  <2>2. Arriving' = Arriving
    BY <2>1 DEF Arriving
  <2> QED
    BY <2>1, <2>2 DEF Pending, Whole
<1>3. CASE ProcFlushImsg \/ FlushDone \/ DispatchDone \/ DispatchEof \/ UNCHANGED vars
  <2>1. /\ UNCHANGED <<msgs, got, sock, r>>
        /\ sender' = sender \/ (sender # "closed" /\ sender' # "closed")
    BY <1>3 DEF ProcFlushImsg, FlushDone, DispatchDone, DispatchEof, vars
  <2>2. Flight' = Flight
    BY <2>1 DEF Flight, Units
  <2> QED
    BY <2>1, <2>2, SameFlight
<1>4. CASE DispatchRead
  <2>1. UNCHANGED <<msgs, got, sender>> /\ Flight' = Flight
    BY <1>4, ReadKeepsFlight, Zenon DEF DispatchRead
  <2> QED
    BY <2>1, SameFlight
<1>5. CASE ProcClose
  BY <1>5, ProcCloseCloses DEF Pipe!Next
<1>6. CASE ImsgGet
  BY <1>6, GetDelivers DEF Pipe!Next
<1> QED
  BY <1>1, <1>2, <1>3, <1>4, <1>5, <1>6 DEF Next

(* For every way the kernel cuts what msgbuf_write offers and imsg_read    *)
(* takes, the pipe implements Channel: messages arrive whole, in order,    *)
(* once, each with its own descriptor; only closing the sender loses some, *)
(* and those the last.                                                     *)
THEOREM ImplementsChannel == Spec => IsChannel
<1>1. Init => Pipe!Init
  <2> SUFFICES ASSUME Init PROVE Pipe!Init
    OBVIOUS
  <2>1. Arriving = 0 /\ Len(got) = 0
    BY DEF Init, Arriving
  <2>2. Pending = <<>>
    BY <2>1 DEF Pending
  <2> QED
    BY <2>2 DEF Pipe!Init, Init
<1>2. IInv /\ IInv' /\ PendingOK /\ PendingOK' /\ [Next]_vars => [Pipe!Next]_<<Pending, got>>
  BY NextChannel
<1> QED
  BY <1>1, <1>2, PendingFacts, AlwaysIInv, PTL DEF Spec, IsChannel, Pipe!Spec, Pipe!vars
=============================================================================

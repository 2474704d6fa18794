------------------------------- MODULE Splay --------------------------------
(***************************************************************************)
(* The splay trees of connections (sc_fcgi_socks) and of requests          *)
(* (fcg_clients), as SPLAY_GENERATE makes them: nodes with two pointers,   *)
(* which even a search rearranges.  The ids are compared by a subtraction  *)
(* of unsigned integers that is returned as an int, so the order goes      *)
(* round: it is one as long as the ids in a tree are within half of the    *)
(* range.  Ids have Width bits here.                                       *)
(***************************************************************************)
EXTENDS Integers, FiniteSets

CONSTANTS
    Width,      \* the bits of an id
    MaxLive     \* bound on the elements of a tree

ASSUME SplayAssumption == Width \in Nat \ {0} /\ MaxLive \in Nat

VARIABLES
    root,       \* sph_root
    spe,        \* spe_left and spe_right of the elements
    live,       \* the elements that are allocated
    ret         \* the last operation, its argument and what it returned

vars == <<root, spe, live, ret>>

Range == 2^Width
Id == 0..(Range - 1)
NULL == Range
Node == Range + 1       \* __node, on the stack of SPLAY

Free == [l |-> NULL, r |-> NULL]

(* Mutant: the id is kept in a narrower type.                              *)
CmpNarrow(a, b) ==
    LET d == (a - b) % (Range \div 2) IN IF d < Range \div 4 THEN d ELSE d - Range \div 2

(* fcgi_cmp and fcgi_client_cmp                                            *)
Cmp(a, b) == LET d == (a - b) % Range IN IF d < Range \div 2 THEN d ELSE d - Range

-----------------------------------------------------------------------------
(* A heap is the root and the pointers, and inside SPLAY also the ends of  *)
(* the trees on the left and on the right that are being built.            *)

RotateRight(h, tmp) ==
    [h EXCEPT !.p = [@ EXCEPT ![h.root].l = h.p[tmp].r, ![tmp].r = h.root], !.root = tmp]

RotateLeft(h, tmp) ==
    [h EXCEPT !.p = [@ EXCEPT ![h.root].r = h.p[tmp].l, ![tmp].l = h.root], !.root = tmp]

LinkLeft(h) ==
    [h EXCEPT !.p = [@ EXCEPT ![h.right].l = h.root], !.right = h.root, !.root = h.p[h.root].l]

LinkRight(h) ==
    [h EXCEPT !.p = [@ EXCEPT ![h.left].r = h.root], !.left = h.root, !.root = h.p[h.root].r]

(* SPLAY_ASSEMBLE: four assignments, each of which sees the ones before.   *)
Assemble(h) ==
    LET one == [h.p EXCEPT ![h.left].r = h.p[h.root].l]
        two == [one EXCEPT ![h.right].l = one[h.root].r]
    IN  [h EXCEPT !.p = [two EXCEPT ![h.root] = [l |-> two[Node].r, r |-> two[Node].l]]]

(* The loop of SPLAY and of SPLAY_MINMAX: dir[x] compares what is looked   *)
(* for with node x.                                                        *)
RECURSIVE Loop(_, _)
Loop(h, dir) ==
    LET c == dir[h.root]
        tmp == IF c < 0 THEN h.p[h.root].l ELSE h.p[h.root].r
        turn == IF c < 0 THEN dir[tmp] < 0 ELSE dir[tmp] > 0
        h1 == IF c < 0 THEN RotateRight(h, tmp) ELSE RotateLeft(h, tmp)
        next == IF c < 0 THEN h1.p[h1.root].l ELSE h1.p[h1.root].r
        Link(x) == IF c < 0 THEN LinkLeft(x) ELSE LinkRight(x)
    IN  IF c = 0 \/ tmp = NULL THEN h
        ELSE IF ~turn THEN Loop(Link(h), dir)
        ELSE IF next = NULL THEN h1
        ELSE Loop(Link(h1), dir)

Begin(r, p) == [root |-> r, p |-> [p EXCEPT ![Node] = Free], left |-> Node, right |-> Node]

(* SPLAY                                                                   *)
DoSplay(r, p, x) == Assemble(Loop(Begin(r, p), [y \in Id \cup {NULL} |-> Cmp(x, y)]))

(* SPLAY_MINMAX with SPLAY_NEGINF                                          *)
MinMax(r, p) == Assemble(Loop(Begin(r, p), [y \in Id \cup {NULL} |-> -1]))

-----------------------------------------------------------------------------
(* Operations.                                                             *)

Install(h) == root' = h.root /\ spe' = [h.p EXCEPT ![Node] = Free]

(* The ids in a tree are within half of the range.                         *)
Window(S) == \E m \in Id : \A x \in S : (x - m) % Range < Range \div 2

(* SPLAY_INSERT of a new element                                           *)
Insert(x) ==
    /\ x \notin live
    /\ Window(live \cup {x})
    /\ Cardinality(live) < MaxLive
    /\ IF root = NULL
       THEN root' = x /\ spe' = [spe EXCEPT ![x] = Free]
       ELSE LET h == DoSplay(root, spe, x)
                c == Cmp(x, h.root)
                p == [h.p EXCEPT ![Node] = Free]
                less == [p EXCEPT ![x] = [l |-> p[h.root].l, r |-> h.root], ![h.root].l = NULL]
                more == [p EXCEPT ![x] = [r |-> p[h.root].r, l |-> h.root], ![h.root].r = NULL]
            IN  IF c = 0 THEN Install(h) ELSE root' = x /\ spe' = IF c < 0 THEN less ELSE more
    /\ live' = live \cup {x}
    /\ ret' = <<"insert", x, NULL>>

(* SPLAY_REMOVE of an element of the tree, which is then freed             *)
Remove(x) ==
    LET h == DoSplay(root, spe, x)
        g == DoSplay(h.p[h.root].l, h.p, x)
        right == h.p[h.root].r
        Freed(p) == [p EXCEPT ![x] = Free, ![Node] = Free]
    IN  /\ x \in live
        /\ IF Cmp(x, h.root) # 0
           THEN Install(h) /\ ret' = <<"remove", x, NULL>>
           ELSE /\ ret' = <<"remove", x, x>>
                /\ IF h.p[h.root].l = NULL
                   THEN root' = right /\ spe' = Freed(h.p)
                   ELSE root' = g.root /\ spe' = Freed([g.p EXCEPT ![g.root].r = right])
        /\ live' = live \ {x}

(* SPLAY_FIND                                                              *)
Find(x) ==
    /\ Window(live \cup {x})
    /\ IF root = NULL
       THEN ret' = <<"find", x, NULL>> /\ UNCHANGED <<root, spe>>
       ELSE LET h == DoSplay(root, spe, x)
            IN  Install(h) /\ ret' = <<"find", x, IF Cmp(x, h.root) = 0 THEN h.root ELSE NULL>>
    /\ UNCHANGED live

(* SPLAY_MIN                                                               *)
Min ==
    /\ IF root = NULL
       THEN ret' = <<"min", NULL, NULL>> /\ UNCHANGED <<root, spe>>
       ELSE LET h == MinMax(root, spe) IN Install(h) /\ ret' = <<"min", NULL, h.root>>
    /\ UNCHANGED live

(* SPLAY_INIT                                                              *)
Init ==
    /\ root = NULL
    /\ spe = [x \in Id \cup {NULL, Node} |-> Free]
    /\ live = {}
    /\ ret = <<"init", NULL, NULL>>

Next == Min \/ \E x \in Id : Insert(x) \/ Remove(x) \/ Find(x)

Spec == Init /\ [][Next]_vars

-----------------------------------------------------------------------------
(* Properties.                                                             *)

(* The nodes below n, no further than d levels down.                       *)
RECURSIVE Below(_, _)
Below(n, d) ==
    IF n = NULL \/ d = 0 THEN {} ELSE {n} \cup Below(spe[n].l, d - 1) \cup Below(spe[n].r, d - 1)

Tree(n) == Below(n, MaxLive)

Set == INSTANCE IdSet WITH
           elems <- Tree(root), First <- LAMBDA S, x : \A y \in S : Cmp(x, y) <= 0

(* However the tree was rearranged it behaves as a set: an element that is *)
(* there is found, one that is not is not, the one that is removed and no  *)
(* other goes, and SPLAY_MIN gives the first one, also when the ids have   *)
(* wrapped around.                                                         *)
IsSet == Set!Spec
=============================================================================

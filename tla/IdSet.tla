------------------------------- MODULE IdSet --------------------------------
(***************************************************************************)
(* What the rest of galileo takes the trees of connections and of requests *)
(* for: a set of elements that is searched by id, from which elements are  *)
(* taken out, and which is emptied from one end.  Every step says what it  *)
(* found.                                                                  *)
(***************************************************************************)
EXTENDS Naturals

CONSTANTS
    Id,
    NULL,
    First(_, _)   \* First(S, x): x is the first element of S

VARIABLES elems, ret

Init == elems = {} /\ ret = <<"init", NULL, NULL>>

Insert(x) == x \notin elems /\ elems' = elems \cup {x} /\ ret' = <<"insert", x, NULL>>

Remove(x) == x \in elems /\ elems' = elems \ {x} /\ ret' = <<"remove", x, x>>

Find(x) == ret' = <<"find", x, IF x \in elems THEN x ELSE NULL>> /\ UNCHANGED elems

Min ==
    /\ ret' \in {<<"min", NULL, x>> :
                   x \in IF elems = {} THEN {NULL} ELSE {y \in elems : First(elems, y)}}
    /\ UNCHANGED elems

Next == Min \/ \E x \in Id : Insert(x) \/ Remove(x) \/ Find(x)

Spec == Init /\ [][Next]_<<elems, ret>>
=============================================================================

------------------------------ MODULE Channel -------------------------------
(***************************************************************************)
(* What the rest of galileo expects of an imsg pipe, and what Reload takes *)
(* its toW and toP to be: messages arrive whole, in the order in which     *)
(* they were composed, each once and each with the descriptor it was       *)
(* composed with.  Only closing the sending end may lose some, and then    *)
(* only the last ones.                                                     *)
(***************************************************************************)
EXTENDS Naturals, Sequences

CONSTANTS Message

VARIABLES
    chan,       \* the messages composed and not yet handled
    got         \* the messages handled, in order

vars == <<chan, got>>

Init == chan = <<>> /\ got = <<>>

Send == \E m \in Message : chan' = Append(chan, m) /\ got' = got

(* proc_dispatch handles all the messages that are complete.               *)
Deliver ==
    \E n \in 1..Len(chan) :
        /\ got' = got \o SubSeq(chan, 1, n)
        /\ chan' = SubSeq(chan, n + 1, Len(chan))

Close == \E n \in 0..Len(chan) : chan' = SubSeq(chan, 1, n) /\ got' = got

Next == Send \/ Deliver \/ Close

Spec == Init /\ [][Next]_vars
=============================================================================

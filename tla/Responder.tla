----------------------------- MODULE Responder ------------------------------
(***************************************************************************)
(* What a proxy process promises the web server, seen from the records it  *)
(* writes: on every connection and for every request id, a request is      *)
(* begun, answered by one CGI header and a body, and ended once; then the  *)
(* id can be used again.  A connection may be dropped at any time, with    *)
(* everything on it.                                                       *)
(***************************************************************************)

CONSTANTS Conns, Ids

VARIABLE req    \* the stage of the request that uses an id of a connection

States == {"idle", "active", "hdr", "body", "ended"}

(* The stage of one request becomes s.                                     *)
Becomes(c, i, s) == req' = [req EXCEPT ![c][i] = s]

Begin(c, i) == req[c][i] = "idle" /\ Becomes(c, i, "active")

(* The request is not for a responder: it is ended without an answer.      *)
Refuse(c, i) == req[c][i] = "idle" /\ Becomes(c, i, "ended")

Reply(c, i) ==
    \/ req[c][i] = "active" /\ Becomes(c, i, "hdr")
    \/ req[c][i] \in {"active", "hdr"} /\ Becomes(c, i, "body")

End(c, i) == req[c][i] \in {"active", "hdr", "body"} /\ Becomes(c, i, "ended")

(* The web server has read all the connection carries.                     *)
Deliver(c) ==
    req' = [req EXCEPT ![c] =
               [i \in Ids |-> IF req[c][i] = "ended" THEN "idle" ELSE req[c][i]]]

(* The connections S are dropped (by a reload, several at once).           *)
Drop(S) ==
    req' = [c \in Conns |-> IF c \in S THEN [i \in Ids |-> "idle"] ELSE req[c]]

Init == req = [c \in Conns |-> [i \in Ids |-> "idle"]]

Next ==
    \/ \E c \in Conns, i \in Ids :
          Begin(c, i) \/ Refuse(c, i) \/ Reply(c, i) \/ End(c, i)
    \/ \E c \in Conns : Deliver(c)
    \/ \E S \in SUBSET Conns : Drop(S)

Spec == Init /\ [][Next]_req
=============================================================================

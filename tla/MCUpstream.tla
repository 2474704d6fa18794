----------------------------- MODULE MCUpstream -----------------------------
(***************************************************************************)
(* Replies for Upstream: empty, in one record, in several.                 *)
(***************************************************************************)
EXTENDS Upstream

SmallReplies == {<<>>, <<3>>, <<1, 3>>, <<2, 1, 3>>, <<3, 3, 1, 2>>}
=============================================================================

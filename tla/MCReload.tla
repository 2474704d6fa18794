------------------------------ MODULE MCReload ------------------------------
(***************************************************************************)
(* Reload with three files: one with more proxies than the first, then one *)
(* with none, which also asks for fewer processes than run.                *)
(***************************************************************************)
EXTENDS Reload

ThreeFiles == <<[prefork |-> 2, proxies |-> 1], [prefork |-> 2, proxies |-> 2],
                [prefork |-> 1, proxies |-> 0]>>
=============================================================================

---------------------------- MODULE MCReconcileClaims ----------------------------
(***************************************************************************)
(* One EOS switch whose artifact comes and goes: the smallest instance for *)
(* the claims of the documentation that the code does not keep.            *)
(***************************************************************************)
EXTENDS Reconcile

CONSTANTS r1, leaf

MCDevice == {leaf}
MCRender == {r1}
MCOffer == [d \in MCDevice |-> {r1, None}]
===============================================================================

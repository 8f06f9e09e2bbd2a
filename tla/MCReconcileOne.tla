----------------------------- MODULE MCReconcileOne -----------------------------
(***************************************************************************)
(* One SR Linux router, whose sessions outlive the process and whose       *)
(* commits may roll back, with two renderings that come and go, faults     *)
(* everywhere, crashes, hand edits and an operator.                        *)
(***************************************************************************)
EXTENDS Reconcile

CONSTANTS r1, r2, dev

MCDevice == {dev}
MCRender == {r1, r2}
MCOffer == [d \in MCDevice |-> {r1, r2, None}]
===============================================================================

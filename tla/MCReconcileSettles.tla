---------------------------- MODULE MCReconcileSettles ----------------------------
(***************************************************************************)
(* One firewall, whose turn a cycle may skip and whose commits may roll    *)
(* back, in a world that comes to rest at any moment, whatever is armed,   *)
(* half done or wrongly recorded then.                                     *)
(***************************************************************************)
EXTENDS Reconcile

CONSTANTS r1, r2, fw

MCDevice == {fw}
MCRender == {r1, r2}
MCOffer == [d \in MCDevice |-> {r1, r2}]
===============================================================================

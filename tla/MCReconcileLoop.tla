---------------------------- MODULE MCReconcileLoop ----------------------------
(***************************************************************************)
(* A switch of the fabric and the firewall, each with two renderings; the  *)
(* firewall's turn comes every third scheduled cycle.                      *)
(***************************************************************************)
EXTENDS ReconcileLoop

CONSTANTS leaf, fw, c1, c2

MCDevice == {leaf, fw}
MCFirewall == {fw}
MCChecksum == {c1, c2}
===============================================================================

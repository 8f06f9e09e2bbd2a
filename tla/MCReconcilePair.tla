----------------------------- MODULE MCReconcilePair -----------------------------
(***************************************************************************)
(* A switch of the fabric and the firewall.  There is one good rendering;  *)
(* the switch's artifact may also come out without its lifeline, empty, or *)
(* not at all.  Requests and answers of the switch are lost, the process   *)
(* is killed anywhere, and the operator suspends the switch.               *)
(***************************************************************************)
EXTENDS Reconcile

CONSTANTS r1, leaf, fw

MCDevice == {leaf, fw}
MCEos == {leaf}
MCFirewall == {fw}
MCRender == {r1}
MCOffer == [d \in MCDevice |-> IF d = leaf THEN {r1, Unsafe, Empty, None} ELSE {r1}]
===============================================================================

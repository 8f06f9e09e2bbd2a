--------------------------- MODULE MCAccessBroker ---------------------------
(***************************************************************************)
(* A grant that may be asked for in two pairs of zones or on two ports,    *)
(* and one that needs no approval and that Junos rejects.                  *)
(***************************************************************************)
EXTENDS AccessBroker, TLC

CONSTANTS p1, p2, http, ssh

MCGrant == {1, 2}
MCPair == {p1, p2}
MCPort == {http, ssh}
First == [pair |-> p1, ports |-> {http}]
Wider == [pair |-> p1, ports |-> {http, ssh}]
Moved == [pair |-> p2, ports |-> {http}]
Other == [pair |-> p1, ports |-> {ssh}]
MCCatalogue == (1 :> {First, Moved}) @@ (2 :> {Other})
MCNeedsApproval == {1}
MCRejected == {Other}
===============================================================================

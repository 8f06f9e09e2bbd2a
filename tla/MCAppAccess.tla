----------------------------- MODULE MCAppAccess -----------------------------
(***************************************************************************)
(* Two grants on one application that answers on a predefined port and on  *)
(* one of its own, and two runs at work at once.                           *)
(***************************************************************************)
EXTENDS AppAccess, TLC

CONSTANTS alice, bob, first, second, vip, https, api, desk, hq

MCGrant == {alice, bob}
MCRun == {first, second}
MCItem == {vip, https, api}
MCAsked == (alice :> {vip, https, api}) @@ (bob :> {vip, api})
MCSources == {(alice :> desk) @@ (bob :> from) : from \in {desk, hq}}
MCMerged == {alice}
MCChanges == {{vip, https}, {}}
MCPrefix == {desk, hq}
MCPredefined == {https}
MCDeclared == {hq}
===============================================================================

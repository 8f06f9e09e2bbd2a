-------------------------------- MODULE MCWake --------------------------------
(***************************************************************************)
(* Two devices with two renderings each; a poll every other unit, a        *)
(* confirmation delay shorter than the settle limit and an interval.       *)
(***************************************************************************)
EXTENDS Wake

CONSTANTS d1, d2, c1, c2

MCDevice == {d1, d2}
MCChecksum == {c1, c2}
MCDelays == {2, 6}
===============================================================================

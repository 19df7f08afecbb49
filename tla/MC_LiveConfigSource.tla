------------------------ MODULE MC_LiveConfigSource ------------------------
(***************************************************************************)
(* LiveConfigSource with three calls of bind and one close.                *)
(***************************************************************************)
EXTENDS LiveConfigSource

CONSTANTS c1, c2, c3

MCCaller == {c1, c2, c3}
=============================================================================

----------------------------- MODULE MC_DbLock -----------------------------
(***************************************************************************)
(* DbLock with two callers, who may drop one call and start the next while *)
(* the server still has the first, so that three sessions can want the     *)
(* key; a pool of two connections.                                         *)
(***************************************************************************)
EXTENDS DbLock

CONSTANTS c1, c2, k1, s1, s2, s3, none

MCCaller == {c1, c2}
MCKey == {k1}
MCSession == {s1, s2, s3}
=============================================================================

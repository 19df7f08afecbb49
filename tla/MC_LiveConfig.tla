--------------------------- MODULE MC_LiveConfig ---------------------------
(***************************************************************************)
(* LiveConfig with a struct on one namespace and one on two.  The first    *)
(* change of n1 breaks the struct on n1 alone, the change of n2 the other. *)
(***************************************************************************)
EXTENDS LiveConfig

CONSTANTS n1, n2, one, all, none

MCNamespace == {n1, n2}
MCBinding == {one, all}
MCUses == [b \in MCBinding |-> IF b = one THEN {n1} ELSE MCNamespace]
MCUndecodable == {<<one, n1, 1>>, <<all, n2, 1>>}
MCMaxRevision == [n \in MCNamespace |-> IF n = n1 THEN 2 ELSE 1]
=============================================================================

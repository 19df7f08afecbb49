--------------------------- MODULE MC_StartOrder ---------------------------
(***************************************************************************)
(* StartOrder on all dependency graphs of up to three components of either *)
(* kind, all graphs of four Immediate components with at most one          *)
(* dependency each (cycles of every length, with and without a tail), and  *)
(* registrations with duplicate, missing and repeated resources.           *)
(***************************************************************************)
EXTENDS StartOrder

CONSTANTS r1, r2, r3, r4, nobody

MCResource == {r1, r2, r3, r4, nobody}

Own == <<r1, r2, r3, r4>>

\* The i-th component provides the i-th resource; only dependencies vary.
Graphs(n, lists, kinds) ==
    {[i \in 1 .. n |-> [deferred |-> kind[i], provides |-> <<Own[i]>>, dependsOn |-> deps[i]]] :
        kind \in [1 .. n -> kinds], deps \in [1 .. n -> lists]}

UpToThree == {<<>>, <<r1>>, <<r2>>, <<r3>>, <<r2, r1>>, <<r1, r3>>, <<r3, r2>>, <<r1, r2, r3>>}
AtMostOne == {<<>>, <<r1>>, <<r2>>, <<r3>>, <<r4>>}

\* Two components that may provide two resources, the same one twice or the
\* other's, and depend on both resources of one provider or on nobody's.
Odd ==
    {<<a, b>> : a, b \in [deferred : BOOLEAN,
                          provides : {<<>>, <<r1>>, <<r2>>, <<r1, r2>>, <<r1, r1>>},
                          dependsOn : {<<>>, <<r1, r2>>, <<r2, r2>>, <<nobody>>}]}

MCRegistrations ==
    Graphs(3, UpToThree, BOOLEAN) \cup Graphs(4, AtMostOne, {FALSE}) \cup Odd \cup {<<>>}
=============================================================================

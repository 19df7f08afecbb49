---------------------------- MODULE MC_Registry ----------------------------
(***************************************************************************)
(* Registry on applications of up to three components.                     *)
(***************************************************************************)
EXTENDS RegistryLifecycle

CONSTANTS db, cache, api, int, term

MCResource == {db, cache, api}
MCSignal == {int, term}

Pool(r, deps) == [deferred |-> FALSE, provides |-> <<r>>, dependsOn |-> deps]
Server(own, deps) == [deferred |-> TRUE, provides |-> own, dependsOn |-> deps]

\* A server added before the two pools it needs, one of which needs the other.
ServerOnPools == <<Server(<<>>, <<cache, db>>), Pool(cache, <<db>>), Pool(db, <<>>)>>

\* Two servers on one pool.
TwoServers == <<Pool(db, <<>>), Server(<<>>, <<db>>), Server(<<api>>, <<db>>)>>

\* One component providing two resources, and its user.
TwoResources ==
    <<[deferred |-> FALSE, provides |-> <<db, cache>>, dependsOn |-> <<>>], Pool(api, <<cache>>)>>

\* A cycle: no component may start.
Loop == <<Pool(db, <<cache>>), Pool(cache, <<db>>)>>

\* An Immediate component needing what a Deferred one puts in prepare.
PoolOnServer == <<Server(<<api>>, <<>>), Pool(db, <<api>>)>>

MCRegistrations == {ServerOnPools, TwoServers, TwoResources, Loop, PoolOnServer, <<>>}
=============================================================================

------------------------- MODULE RegistryLifecycle -------------------------
(***************************************************************************)
(* Registry implements Lifecycle.                                          *)
(***************************************************************************)
EXTENDS Registry

\* A component whose startup returned Err was never up.
LifeOf(i) ==
    CASE stage[i] \in {"added", "failed"}      -> "down"
      [] stage[i] = "up"                       -> "up"
      [] stage[i] = "active"                   -> "serving"
      [] stage[i] \in {"draining", "stopping"} -> "closing"
      [] stage[i] \in {"closed", "timedout"}   -> "closed"

Promise ==
    INSTANCE Lifecycle WITH
        Comp    <- Idx,
        serving <- {i \in Idx : reg[i].deferred},
        needs   <- [i \in Idx |-> Needs(i)],
        life    <- [i \in Idx |-> LifeOf(i)],
        over    <- CASE phase = "returned" -> "finished"
                     [] phase = "killed"   -> "killed"
                     [] OTHER              -> "no"

\* Every behaviour of run(), whatever fails, keeps the promise of Lifecycle.
ImplementsLifecycle == Promise!Spec
=============================================================================

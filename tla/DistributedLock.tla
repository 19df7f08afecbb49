--------------------------- MODULE DistributedLock ---------------------------
(***************************************************************************)
(* What a lock promises to those who take it (hygiea-core/src/lock/mod.rs  *)
(* and the limits hygiea-db/src/lock/mod.rs puts on it): two callers have  *)
(* the lock of a key at the same time only when the connection of those    *)
(* who had it first is lost, which they may not know.                      *)
(***************************************************************************)
EXTENDS FiniteSets

CONSTANTS Caller, Key

VARIABLES
    holders,        \* holders[k]: the callers that have a guard of k
    lost            \* those of them whose connection is gone

lockVars == <<holders, lost>>

Init ==
    /\ holders = [k \in Key |-> {}]
    /\ lost = {}

Holding(c) == \E k \in Key : c \in holders[k]

Acquire(c, k) ==
    /\ ~Holding(c)
    /\ holders[k] \subseteq lost
    /\ holders' = [holders EXCEPT ![k] = @ \cup {c}]
    /\ UNCHANGED lost

Release(c) ==
    /\ Holding(c)
    /\ holders' = [k \in Key |-> holders[k] \ {c}]
    /\ lost' = lost \ {c}

\* Nobody holds several locks over one connection.
Lose(c) ==
    /\ Holding(c)
    /\ lost' = lost \cup {c}
    /\ UNCHANGED holders

Next ==
    \E c \in Caller :
        \/ \E k \in Key : Acquire(c, k)
        \/ Release(c)
        \/ Lose(c)

Spec == Init /\ [][Next]_lockVars
=============================================================================

----------------------------- MODULE StartOrder -----------------------------
(***************************************************************************)
(* How the Registry turns the components an application added into a start *)
(* order: Registry::sort_by_dependencies and find_cycle                    *)
(* (hygiea-core/src/app/registry.rs).                                      *)
(*                                                                         *)
(* reg is the registration: the components in the order `add` was called.  *)
(* It is chosen in Init and never changes, so one TLC run covers every     *)
(* registration of the constant Registrations.  A component is known by    *)
(* its index in reg.                                                       *)
(***************************************************************************)
EXTENDS Naturals, Sequences, FiniteSets, FiniteSetsExt, Functions

CONSTANTS
    Resource,       \* the ResourceIds (type and name) in use
    Registrations   \* the registrations an application may come with

\* A ComponentEntry, reduced to what ordering looks at.  provides and
\* dependsOn are the Vecs the component returned, repetitions included.
Entry == [deferred : BOOLEAN, provides : Seq(Resource), dependsOn : Seq(Resource)]

ASSUME RegistrationsAssumption == Registrations \subseteq Seq(Entry)

VARIABLES
    reg,        \* self.components before the sort
    sort,       \* where sort_by_dependencies is, or how it returned
    pending,    \* pending_deps: unplaced dependencies of every component
    ready,      \* the BTreeSet of unplaced components without pending ones
    order       \* the start order built so far (indices into reg)

sortVars == <<reg, sort, pending, ready, order>>

Idx == 1 .. Len(reg)

SortError == {"duplicate", "missing", "cycle"}
-----------------------------------------------------------------------------
(* The dependency graph.                                                   *)

\* The component listed as the provider of r (unique once HasDuplicate fails).
Provides(i, r) == r \in Range(reg[i].provides)

\* Two entries of the provides lists name the same resource: provider.get(&id)
\* finds an earlier one, of another component or of the same.
HasDuplicate ==
    \E i, j \in Idx : \E p \in DOMAIN reg[i].provides, q \in DOMAIN reg[j].provides :
        <<i, p>> # <<j, q>> /\ reg[i].provides[p] = reg[j].provides[q]

\* Somebody, a Deferred component included, needs what nobody provides.
HasMissing ==
    \E i \in Idx : \E r \in Range(reg[i].dependsOn) : \A j \in Idx : ~Provides(j, r)

\* Who provides what i declares in depends_on, whatever kind i is.
Needs(i) == {j \in Idx : \E r \in Range(reg[i].dependsOn) : Provides(j, r)}

\* What the sort orders by: a Deferred component reads its dependencies in the
\* second phase only, so they do not constrain the first.
Deps(i) == IF reg[i].deferred THEN {} ELSE Needs(i)
-----------------------------------------------------------------------------
SortInit ==
    /\ reg \in Registrations
    /\ sort = "check"
    /\ pending = [i \in Idx |-> 0]
    /\ ready = {}
    /\ order = <<>>

RejectDuplicate ==
    /\ sort = "check"
    /\ HasDuplicate
    /\ sort' = "duplicate"
    /\ UNCHANGED <<reg, pending, ready, order>>

RejectMissing ==
    /\ sort = "check"
    /\ ~HasDuplicate
    /\ HasMissing
    /\ sort' = "missing"
    /\ UNCHANGED <<reg, pending, ready, order>>

\* Mutant: a dependency listed twice is counted twice.
BuildGraphNoDedup ==
    /\ sort = "check"
    /\ ~HasDuplicate
    /\ ~HasMissing
    /\ pending' = [i \in Idx |-> IF reg[i].deferred THEN 0 ELSE Len(reg[i].dependsOn)]
    /\ ready' = {i \in Idx : pending'[i] = 0}
    /\ sort' = "kahn"
    /\ UNCHANGED <<reg, order>>

BuildGraph ==
    /\ sort = "check"
    /\ ~HasDuplicate
    /\ ~HasMissing
    /\ pending' = [i \in Idx |-> Cardinality(Deps(i))]
    /\ ready' = {i \in Idx : pending'[i] = 0}
    /\ sort' = "kahn"
    /\ UNCHANGED <<reg, order>>

\* Mutant: places the latest added of the ready ones.
PlaceLatest ==
    /\ sort = "kahn"
    /\ ready # {}
    /\ LET idx   == Max(ready)
           after == {j \in Idx : idx \in Deps(j)}
       IN  /\ order' = Append(order, idx)
           /\ pending' = [j \in Idx |-> IF j \in after THEN pending[j] - 1 ELSE pending[j]]
           /\ ready' = (ready \ {idx}) \cup {j \in after : pending'[j] = 0}
    /\ UNCHANGED <<reg, sort>>

\* One turn of the loop: pop the earliest added of the ready ones, place it,
\* and count down whoever depends on it.
PlaceNext ==
    /\ sort = "kahn"
    /\ ready # {}
    /\ LET idx   == Min(ready)
           after == {j \in Idx : idx \in Deps(j)}
       IN  /\ order' = Append(order, idx)
           /\ pending' = [j \in Idx |-> IF j \in after THEN pending[j] - 1 ELSE pending[j]]
           /\ ready' = (ready \ {idx}) \cup {j \in after : pending'[j] = 0}
    /\ UNCHANGED <<reg, sort>>

FinishSort ==
    /\ sort = "kahn"
    /\ ready = {}
    /\ Len(order) = Len(reg)
    /\ sort' = "sorted"
    /\ UNCHANGED <<reg, pending, ready, order>>

\* Mutant: off by one, a single stuck component is not an error.
RejectLongCycle ==
    /\ sort = "kahn"
    /\ ready = {}
    /\ Len(order) + 1 < Len(reg)
    /\ sort' = "cycle"
    /\ UNCHANGED <<reg, pending, ready, order>>

RejectCycle ==
    /\ sort = "kahn"
    /\ ready = {}
    /\ Len(order) < Len(reg)
    /\ sort' = "cycle"
    /\ UNCHANGED <<reg, pending, ready, order>>

SortStep ==
    \/ RejectDuplicate
    \/ RejectMissing
    \/ BuildGraph
    \/ PlaceNext
    \/ FinishSort
    \/ RejectCycle

SortSpec == SortInit /\ [][SortStep]_sortVars /\ WF_sortVars(SortStep)
-----------------------------------------------------------------------------
(* find_cycle: from the first stuck component, keep stepping to the first  *)
(* stuck component it depends on until one repeats; the walk from its      *)
(* first visit on, reversed, is the cycle in start direction.              *)

Stuck == {i \in Idx : pending[i] > 0}

Walk[k \in Nat] ==
    IF k = 0 THEN Min(Stuck) ELSE Min(Deps(Walk[k - 1]) \cap Stuck)

\* The first step of the walk that meets a component again.
Again == Min({k \in 1 .. Len(reg) : \E j \in 0 .. (k - 1) : Walk[j] = Walk[k]})

\* Mutant: reports the way to the cycle as well.
FindWholeWalk == [k \in 1 .. (Again + 1) |-> Walk[Again - k + 1]]

FindCycle ==
    LET first == Min({j \in 0 .. Again : Walk[j] = Walk[Again]})
    IN  [k \in 1 .. (Again - first + 1) |-> Walk[Again - k + 1]]
-----------------------------------------------------------------------------
(* Properties.                                                             *)

SortTypeOK ==
    /\ reg \in Seq(Entry)
    /\ sort \in {"check", "kahn", "sorted"} \cup SortError
    /\ pending \in [Idx -> Nat]
    /\ ready \subseteq Idx
    /\ order \in Seq(Idx)

Placed == Range(order)

\* o starts every component of reg exactly once, and an Immediate component
\* only after everything it depends on.
IsStartOrder(o) ==
    /\ o \in [1 .. Len(reg) -> Idx]
    /\ \A p, q \in DOMAIN o : o[p] = o[q] => p = q
    /\ \A p \in DOMAIN o : \A d \in Deps(o[p]) : \E q \in 1 .. (p - 1) : o[q] = d

\* A sort that succeeds hands run() a start order: nobody is lost or listed
\* twice, and dependencies come first (the `order` the loop built).
SortedIsStartOrder == sort = "sorted" => IsStartOrder(order)

\* DependencyCycle is only reported for a registration that has no start
\* order: some components each wait for another of them.
CycleIsReal ==
    sort = "cycle" =>
        \E S \in SUBSET Idx : S # {} /\ \A i \in S : Deps(i) \cap S # {}

\* The counters mean what the loop takes them for: how many dependencies of a
\* component are not placed yet; ready holds exactly the startable ones.
PendingCountsUnplaced ==
    sort \in {"kahn", "sorted", "cycle"} =>
        /\ \A i \in Idx : pending[i] = Cardinality(Deps(i) \ Placed)
        /\ ready = {i \in Idx \ Placed : Deps(i) \subseteq Placed}

\* Components nothing forces apart keep the order of `add`: what is placed is
\* always the earliest added of those that could be placed ("挑 add 最早的").
EarliestAddedFirst ==
    \A p \in DOMAIN order :
        LET done == {order[q] : q \in 1 .. (p - 1)}
        IN  \A i \in Idx \ done : Deps(i) \subseteq done => order[p] <= i

\* What a sort that succeeds promises, dependencies first and the order of `add`
\* among the rest, at every step of the loop.
StableStartOrder == SortedIsStartOrder /\ EarliestAddedFirst

\* The sort always ends, in an order or in an error.
SortDecides == <>(sort \in {"sorted"} \cup SortError)

\* The components find_cycle reports do form a cycle: it closes, and each one
\* has to start before the next, which depends on it.
ReportedCycleIsCycle ==
    sort = "cycle" =>
        LET c == FindCycle
        IN  /\ Len(c) >= 2
            /\ c[1] = c[Len(c)]
            /\ \A k \in 1 .. (Len(c) - 1) : c[k] \in Deps(c[k + 1])
            /\ \A j, k \in 1 .. (Len(c) - 1) : c[j] = c[k] => j = k
=============================================================================

--------------------------- MODULE RegistryProofs ---------------------------
(***************************************************************************)
(* For every registration, every choice of signals and every number of     *)
(* them.  First the start order: the sort keeps its counters right, what   *)
(* it returns is a start order that prefers the earliest added component,  *)
(* and it reports a cycle only where there is one.  Then run, on top of    *)
(* the sort's invariant: the safety properties of Registry, and that it    *)
(* implements Lifecycle.                                                   *)
(***************************************************************************)
EXTENDS RegistryLifecycle, SequenceTheorems, FunctionTheorems, FiniteSetTheorems,
        WellFoundedInduction, TLAPS
-----------------------------------------------------------------------------
(* What Min and Max of FiniteSetsExt return, which stand for pop_first of  *)
(* a BTreeSet and the head of a reversed range.  The order of the naturals *)
(* is reduced to the well-founded inclusion of the finite sets 0 .. n.     *)

\* A non-empty set of naturals has a least element, and Min returns it.
LEMMA MinProperties ==
    ASSUME NEW S \in SUBSET Nat, S # {}
    PROVE  Min(S) \in S /\ \A y \in S : Min(S) <= y
<1>1. DEFINE Upto == {0 .. x : x \in S}
<1>2. Upto \subseteq FiniteSubsetsOf(Nat) /\ Upto # {}
    <2>1. ASSUME NEW x \in S
          PROVE  (0 .. x) \in SUBSET Nat /\ IsFiniteSet(0 .. x)
        BY FS_Interval
    <2>2. QED
        BY <2>1 DEF FiniteSubsetsOf
<1>3. PICK T \in Upto : \A U \in Upto : <<U, T>> \notin StrictSubsetOrdering(Nat)
    <2> HIDE DEF Upto
    <2> QED BY <1>2, WFMin, FS_StrictSubsetOrderingWellFounded
<1>4. PICK x \in S : T = 0 .. x
    OBVIOUS
<1>5. ASSUME NEW y \in S, y < x
      PROVE  FALSE
    <2>1. 0 .. y \in Upto
        OBVIOUS
    <2>2. (0 .. y) \subseteq (0 .. x) /\ x \in 0 .. x /\ x \notin 0 .. y
        BY <1>5
    <2>3. <<0 .. y, 0 .. x>> \in StrictSubsetOrdering(Nat)
        BY <2>2 DEF StrictSubsetOrdering
    <2>4. QED
        BY <1>3, <1>4, <2>1, <2>3
<1>6. \A y \in S : x <= y
    BY <1>5
<1>7. QED
    BY <1>6 DEF Min

\* A non-empty set of naturals up to n has a greatest element, and Max returns it.
LEMMA MaxProperties ==
    ASSUME NEW n \in Nat, NEW S \in SUBSET (1 .. n), S # {}
    PROVE  Max(S) \in S /\ \A y \in S : Max(S) >= y
<1>1. DEFINE T == {m \in Nat : n - m \in S}
<1>2. PICK s \in S : TRUE
    OBVIOUS
<1>3. n - (n - s) = s /\ n - s \in Nat
    OBVIOUS
<1>4. T \in SUBSET Nat /\ T # {}
    BY <1>2, <1>3
<1>5. PICK least \in T : \A m \in T : least <= m
    <2> HIDE DEF T
    <2> QED BY <1>4, MinProperties
<1>6. ASSUME NEW y \in S
      PROVE  n - least >= y
    <2>1. n - (n - y) = y /\ n - y \in Nat
        OBVIOUS
    <2>2. least <= n - y
        BY <2>1, <1>5
    <2>3. QED
        BY <2>2
<1>7. n - least \in S
    OBVIOUS
<1>8. QED
    BY <1>6, <1>7 DEF Max

\* A set of naturals that has 0, and with a number the next one, has them all.
LEMMA SetInduction ==
    ASSUME NEW S \in SUBSET Nat, 0 \in S, \A n \in S : n + 1 \in S
    PROVE  S = Nat
<1> SUFFICES ASSUME S # Nat PROVE FALSE
    OBVIOUS
<1> DEFINE R == Nat \ S
<1>1. R \in SUBSET Nat /\ R # {}
    OBVIOUS
<1>2. PICK n : n \in R /\ \A y \in R : n <= y
    <2> HIDE DEF R
    <2> QED BY <1>1, MinProperties
<1>3. n \in Nat /\ n # 0 /\ n - 1 \in Nat /\ n - 1 < n /\ (n - 1) + 1 = n
    BY <1>2
<1>4. n - 1 \in S
    BY <1>2, <1>3
<1> QED BY <1>2, <1>3, <1>4

\* A function can be applied again and again.
LEMMA Iteration ==
    ASSUME NEW S, NEW x \in S, NEW next \in [S -> S]
    PROVE  \E f \in [Nat -> S] : f[0] = x /\ \A k \in Nat \ {0} : f[k] = next[f[k - 1]]
<1> DEFINE Upto(h, n) == /\ h \in [0 .. n -> S] /\ h[0] = x
                         /\ \A k \in 1 .. n : h[k] = next[h[k - 1]]
           Reached == {n \in Nat : \E h : Upto(h, n)}
           Agreed == {k \in Nat : \A h, g : \A n, m \in Nat :
                                     Upto(h, n) /\ Upto(g, m) /\ k <= n /\ k <= m => h[k] = g[k]}
<1>1. Reached = Nat
    <2>1. 0 \in Reached
        <3>1. Upto([k \in 0 .. 0 |-> x], 0)
            OBVIOUS
        <3> QED BY <3>1
    <2>2. ASSUME NEW n \in Reached PROVE n + 1 \in Reached
        <3>1. n \in Nat
            OBVIOUS
        <3>2. PICK h : Upto(h, n)
            OBVIOUS
        <3> DEFINE g == [k \in 0 .. n + 1 |-> IF k = n + 1 THEN next[h[n]] ELSE h[k]]
        <3>3. h[n] \in S
            BY <3>1, <3>2
        <3>4. \A k \in 0 .. n + 1 : k # n + 1 => k \in 0 .. n
            BY <3>1
        <3>5. g \in [0 .. n + 1 -> S]
            BY <3>2, <3>3, <3>4
        <3>6. g[0] = x
            BY <3>1, <3>2
        <3>7. ASSUME NEW k \in 1 .. n + 1 PROVE g[k] = next[g[k - 1]]
            <4>1. k \in 0 .. n + 1 /\ k - 1 \in 0 .. n /\ k - 1 # n + 1 /\ k - 1 \in 0 .. n + 1
                BY <3>1
            <4>2. g[k - 1] = h[k - 1]
                BY <4>1
            <4>3. CASE k = n + 1
                <5>1. k - 1 = n
                    BY <3>1, <4>3
                <5> QED BY <4>1, <4>2, <4>3, <5>1
            <4>4. CASE k # n + 1
                <5>1. k \in 1 .. n
                    BY <3>1, <4>4
                <5> QED BY <3>2, <4>1, <4>2, <4>4, <5>1
            <4> QED BY <4>3, <4>4
        <3>8. Upto(g, n + 1)
            BY <3>5, <3>6, <3>7
        <3> HIDE DEF g, Upto
        <3> QED BY <3>1, <3>8
    <2> HIDE DEF Reached
    <2>3. Reached \in SUBSET Nat
        BY DEF Reached
    <2> QED BY <2>1, <2>2, <2>3, SetInduction
<1>2. Agreed = Nat
    <2>1. 0 \in Agreed
        OBVIOUS
    <2>2. ASSUME NEW k \in Agreed PROVE k + 1 \in Agreed
        <3>1. SUFFICES ASSUME NEW h, NEW g, NEW n \in Nat, NEW m \in Nat, Upto(h, n), Upto(g, m),
                              k + 1 <= n, k + 1 <= m
                       PROVE  h[k + 1] = g[k + 1]
            BY SMTT(30)
        <3>2. k \in Nat /\ k <= n /\ k <= m /\ k + 1 \in 1 .. n /\ k + 1 \in 1 .. m /\ (k + 1) - 1 = k
            BY <3>1
        <3>3. h[k] = g[k]
            BY <3>1, <3>2
        <3> QED BY <3>1, <3>2, <3>3
    <2> HIDE DEF Agreed
    <2>3. Agreed \in SUBSET Nat
        BY DEF Agreed
    <2> QED BY <2>1, <2>2, <2>3, SetInduction
<1> DEFINE H(n) == CHOOSE h : Upto(h, n)
           f == [k \in Nat |-> H(k)[k]]
<1>3. \A n \in Nat : Upto(H(n), n)
    <2> SUFFICES ASSUME NEW n \in Nat PROVE Upto(H(n), n)
        OBVIOUS
    <2> HIDE DEF Upto
    <2>1. \E h : Upto(h, n)
        BY <1>1
    <2> QED BY <2>1
<1> HIDE DEF H
<1>4. \A k \in Nat : k \in 0 .. k
    OBVIOUS
<1>5. f \in [Nat -> S] /\ f[0] = x
    BY <1>3, <1>4
<1>6. ASSUME NEW k \in Nat \ {0} PROVE f[k] = next[f[k - 1]]
    <2>1. k - 1 \in Nat /\ k \in 1 .. k /\ k - 1 <= k /\ k - 1 <= k - 1
        OBVIOUS
    <2>2. H(k)[k] = next[H(k)[k - 1]]
        BY <1>3, <2>1
    <2>3. H(k)[k - 1] = H(k - 1)[k - 1]
        <3>1. Upto(H(k), k) /\ Upto(H(k - 1), k - 1) /\ k - 1 \in Agreed
            BY <1>2, <1>3, <2>1
        <3> HIDE DEF Upto
        <3> QED BY <2>1, <3>1
    <2> QED BY <2>1, <2>2, <2>3
<1> QED BY <1>5, <1>6
-----------------------------------------------------------------------------
(* The sort.                                                               *)

Built == {"kahn", "sorted", "cycle"}

\* Before the graph is built nothing is placed; a successful sort placed all.
OrderMatchesSort ==
    /\ sort \notin Built => order = <<>>
    /\ sort = "sorted" => Len(order) = Len(reg)
    /\ sort = "cycle" => ready = {} /\ Len(order) < Len(reg)

OrderIsInjective == \A p, q \in DOMAIN order : order[p] = order[q] => p = q

\* Whatever is placed comes after its dependencies, also while the loop runs.
OrderIsClosed ==
    \A p \in DOMAIN order : \A d \in Deps(order[p]) : \E q \in 1 .. (p - 1) : order[q] = d

\* The graph is built only for a registration that passed both checks.
GraphIsChecked == sort \in Built => ~HasDuplicate /\ ~HasMissing

SortInv ==
    /\ SortTypeOK
    /\ GraphIsChecked
    /\ OrderMatchesSort
    /\ PendingCountsUnplaced
    /\ OrderIsInjective
    /\ OrderIsClosed
    /\ EarliestAddedFirst
-----------------------------------------------------------------------------
\* The interval 1 .. n has n elements.
LEMMA CardinalityUpTo == \A n \in Nat : Cardinality(1 .. n) = n
<1> TAKE n \in Nat
<1>1. Cardinality(1 .. n) = IF 1 > n THEN 0 ELSE n - 1 + 1
    BY FS_Interval
<1>2. QED
    BY <1>1

\* The components are finitely many, so sets of them can be counted.
LEMMA DepsFinite ==
    ASSUME reg \in Seq(Entry)
    PROVE  /\ Len(reg) \in Nat
           /\ IsFiniteSet(Idx)
           /\ \A i \in Idx : Deps(i) \subseteq Idx /\ IsFiniteSet(Deps(i))
<1>1. Len(reg) \in Nat
    OBVIOUS
<1>2. IsFiniteSet(Idx)
    BY <1>1, FS_Interval DEF Idx
<1>3. \A i \in Idx : Deps(i) \subseteq Idx
    BY DEF Deps, Needs
<1>4. QED
    BY <1>1, <1>2, <1>3, FS_Subset

\* At first nothing is placed.
LEMMA SortInitInv == SortInit => SortInv
<1> SUFFICES ASSUME SortInit PROVE SortInv
    OBVIOUS
<1> USE DEF SortInit
<1>1. reg \in Seq(Entry)
    BY RegistrationsAssumption
<1>2. SortTypeOK
    BY <1>1, EmptySeq DEF SortTypeOK, Idx
<1>3. GraphIsChecked /\ OrderMatchesSort /\ PendingCountsUnplaced
    BY DEF GraphIsChecked, OrderMatchesSort, PendingCountsUnplaced, Built
<1>4. OrderIsInjective /\ OrderIsClosed /\ EarliestAddedFirst
    BY DEF OrderIsInjective, OrderIsClosed, EarliestAddedFirst
<1>5. QED
    BY <1>2, <1>3, <1>4 DEF SortInv

\* Building the graph: nothing is placed, and what counts 0 is ready.
LEMMA BuildGraphInv == SortInv /\ BuildGraph => SortInv'
<1> SUFFICES ASSUME SortInv, BuildGraph PROVE SortInv'
    OBVIOUS
<1>1. reg \in Seq(Entry) /\ reg' = reg /\ order = <<>> /\ order' = <<>> /\ sort' = "kahn"
    BY DEF SortInv, SortTypeOK, OrderMatchesSort, BuildGraph, Built
<1>2. Idx' = Idx /\ \A i : Deps(i)' = Deps(i)
    BY <1>1 DEF Idx, Deps, Needs, Provides
<1>3. \A i \in Idx : Cardinality(Deps(i)) \in Nat /\ (Cardinality(Deps(i)) = 0 <=> Deps(i) = {})
    BY <1>1, DepsFinite, FS_CardinalityType, FS_EmptySet
<1>4. /\ pending' = [i \in Idx |-> Cardinality(Deps(i))]
      /\ ready' = {i \in Idx : pending'[i] = 0}
    BY DEF BuildGraph
<1>5. Placed' = {}
    BY <1>1 DEF Placed, Range
<1>6. SortTypeOK'
    BY <1>1, <1>2, <1>3, <1>4, EmptySeq DEF SortTypeOK
<1>7. PendingCountsUnplaced'
    <2>1. \A i \in Idx : Deps(i) \ {} = Deps(i)
        OBVIOUS
    <2>2. \A i \in Idx : pending'[i] = Cardinality(Deps(i) \ {})
        BY <1>4, <2>1
    <2>3. ready' = {i \in Idx \ {} : Deps(i) \subseteq {}}
        BY <1>3, <1>4
    <2>4. QED
        BY <1>1, <1>2, <1>5, <2>2, <2>3 DEF PendingCountsUnplaced
<1>8. OrderMatchesSort' /\ OrderIsInjective' /\ OrderIsClosed' /\ EarliestAddedFirst'
    BY <1>1 DEF OrderMatchesSort, Built, OrderIsInjective, OrderIsClosed, EarliestAddedFirst
<1>9. GraphIsChecked'
    BY <1>1, <1>2 DEF BuildGraph, GraphIsChecked, HasDuplicate, HasMissing, Provides
<1>10. QED
    BY <1>6, <1>7, <1>8, <1>9 DEF SortInv

\* One turn of the loop.  Its component is the least of those whose
\* dependencies are all placed, which gives all three facts about the order;
\* the counters of those that depend on it lose exactly one.
LEMMA PlaceNextInv == SortInv /\ PlaceNext => SortInv'
<1> SUFFICES ASSUME SortInv, PlaceNext PROVE SortInv'
    OBVIOUS
<1> DEFINE idx == Min(ready)
           after == {j \in Idx : idx \in Deps(j)}
           n == Len(order)
<1>1. reg \in Seq(Entry) /\ reg' = reg /\ sort = "kahn" /\ sort' = "kahn" /\ ready # {}
    BY DEF SortInv, SortTypeOK, PlaceNext
<1>2. Idx' = Idx /\ \A i : Deps(i)' = Deps(i)
    BY <1>1 DEF Idx, Deps, Needs, Provides
<1>3. /\ order' = Append(order, idx)
      /\ pending' = [j \in Idx |-> IF j \in after THEN pending[j] - 1 ELSE pending[j]]
      /\ ready' = (ready \ {idx}) \cup {j \in after : pending'[j] = 0}
    BY DEF PlaceNext
<1>4. /\ order \in Seq(Idx)
      /\ \A i \in Idx : pending[i] = Cardinality(Deps(i) \ Placed)
      /\ ready = {i \in Idx \ Placed : Deps(i) \subseteq Placed}
    BY <1>1 DEF SortInv, SortTypeOK, PendingCountsUnplaced
<1>5. idx \in ready /\ \A i \in ready : idx <= i
    <2>1. ready \in SUBSET Nat
        BY <1>1, <1>4, DepsFinite DEF Idx
    <2>2. QED
        BY <1>1, <2>1, MinProperties
<1>6. idx \in Idx /\ idx \notin Placed /\ Deps(idx) \subseteq Placed
    BY <1>4, <1>5
<1> HIDE DEF idx
<1>7. /\ n \in Nat /\ DOMAIN order = 1 .. n
      /\ order' \in Seq(Idx) /\ DOMAIN order' = 1 .. (n + 1) /\ Len(order') = n + 1
      /\ \A p \in 1 .. n : order'[p] = order[p]
      /\ order'[n + 1] = idx
    BY <1>3, <1>4, <1>6, AppendProperties, LenProperties
<1>8. Placed = {order[p] : p \in 1 .. n} /\ Placed' = Placed \cup {idx}
    BY <1>7 DEF Placed, Range
<1>9. ASSUME NEW j \in Idx
      PROVE  /\ pending'[j] = Cardinality(Deps(j) \ Placed')
             /\ pending'[j] \in Nat
             /\ pending'[j] = 0 <=> Deps(j) \subseteq Placed'
    <2>1. IsFiniteSet(Deps(j) \ Placed) /\ IsFiniteSet(Deps(j) \ Placed')
        BY <1>1, DepsFinite, FS_Difference
    <2>2. Deps(j) \ Placed' = (Deps(j) \ Placed) \ {idx}
        BY <1>8
    <2>3. Cardinality(Deps(j) \ Placed') =
              IF idx \in Deps(j) \ Placed THEN Cardinality(Deps(j) \ Placed) - 1
                                          ELSE Cardinality(Deps(j) \ Placed)
        <3> DEFINE S == Deps(j) \ Placed
        <3>1. IsFiniteSet(S)
            BY <2>1
        <3> HIDE DEF S
        <3>2. Cardinality(S \ {idx}) = IF idx \in S THEN Cardinality(S) - 1 ELSE Cardinality(S)
            BY <3>1, FS_RemoveElement
        <3>3. QED
            BY <3>2, <2>2 DEF S
    <2>4. pending'[j] = IF idx \in Deps(j) THEN pending[j] - 1 ELSE pending[j]
        BY <1>3
    <2>5. pending'[j] = Cardinality(Deps(j) \ Placed')
        BY <1>4, <1>6, <2>3, <2>4
    <2>6. Cardinality(Deps(j) \ Placed') \in Nat /\
          (Cardinality(Deps(j) \ Placed') = 0 <=> Deps(j) \ Placed' = {})
        BY <2>1, FS_CardinalityType, FS_EmptySet
    <2>7. QED
        BY <2>5, <2>6
<1>10. ready' = {i \in Idx \ Placed' : Deps(i) \subseteq Placed'}
    <2>1. ASSUME NEW i \in ready' PROVE i \in Idx \ Placed' /\ Deps(i) \subseteq Placed'
        <3>1. CASE i \in ready \ {idx}
            BY <3>1, <1>4, <1>8
        <3>2. CASE i \in after /\ pending'[i] = 0
            <4>1. i \in Idx /\ idx \in Deps(i) /\ Deps(i) \subseteq Placed'
                BY <3>2, <1>9
            <4>2. i # idx
                BY <4>1, <1>6
            <4>3. i \notin Placed
                \* whoever is placed has its dependencies placed, idx is not
                <5>1. SUFFICES ASSUME i \in Placed PROVE FALSE
                    OBVIOUS
                <5>2. PICK p \in 1 .. n : order[p] = i
                    BY <5>1, <1>8
                <5>3. PICK q \in 1 .. (p - 1) : order[q] = idx
                    BY <4>1, <5>2, <1>7 DEF SortInv, OrderIsClosed
                <5>4. idx \in Placed
                    BY <5>3, <1>7, <1>8
                <5>5. QED
                    BY <5>4, <1>6
            <4>4. QED
                BY <4>1, <4>2, <4>3, <1>8
        <3>3. QED
            BY <3>1, <3>2, <1>3
    <2>2. ASSUME NEW i \in Idx, i \notin Placed', Deps(i) \subseteq Placed' PROVE i \in ready'
        <3>1. CASE idx \in Deps(i)
            BY <3>1, <2>2, <1>3, <1>9
        <3>2. CASE idx \notin Deps(i)
            BY <3>2, <2>2, <1>3, <1>4, <1>8
        <3>3. QED
            BY <3>1, <3>2
    <2>3. QED
        BY <2>1, <2>2
<1>11. SortTypeOK'
    <2>1. pending' \in [Idx -> Nat]
        BY <1>3, <1>9
    <2>2. ready' \subseteq Idx
        BY <1>10
    <2>3. QED
        BY <1>1, <1>2, <1>7, <2>1, <2>2 DEF SortTypeOK
<1>12. PendingCountsUnplaced'
    BY <1>1, <1>2, <1>9, <1>10 DEF PendingCountsUnplaced
<1>13. OrderIsInjective'
    <2>1. \A p \in 1 .. n : order'[p] \in Placed
        BY <1>7, <1>8
    <2>2. \A p, q \in 1 .. n : order'[p] = order'[q] => p = q
        BY <1>7 DEF SortInv, OrderIsInjective
    <2>3. QED
        BY <2>1, <2>2, <1>6, <1>7 DEF OrderIsInjective
<1>14. OrderIsClosed'
    <2>1. ASSUME NEW p \in 1 .. (n + 1), NEW d \in Deps(order'[p])
          PROVE  \E q \in 1 .. (p - 1) : order'[q] = d
        <3>1. CASE p \in 1 .. n
            <4>1. PICK q \in 1 .. (p - 1) : order[q] = d
                BY <3>1, <1>7 DEF SortInv, OrderIsClosed
            <4>2. QED
                BY <4>1, <3>1, <1>7
        <3>2. CASE p = n + 1
            BY <3>2, <1>6, <1>7, <1>8
        <3>3. QED
            BY <3>1, <3>2, <1>7
    <2>2. QED
        BY <2>1, <1>2, <1>7 DEF OrderIsClosed
<1>15. EarliestAddedFirst'
    <2>1. ASSUME NEW p \in 1 .. (n + 1),
                 NEW i \in Idx \ {order'[q] : q \in 1 .. (p - 1)},
                 Deps(i) \subseteq {order'[q] : q \in 1 .. (p - 1)}
          PROVE  order'[p] <= i
        <3>1. {order'[q] : q \in 1 .. (p - 1)} = {order[q] : q \in 1 .. (p - 1)}
            BY <1>7
        <3>2. CASE p \in 1 .. n
            BY <2>1, <3>1, <3>2, <1>7 DEF SortInv, EarliestAddedFirst
        <3>3. CASE p = n + 1
            <4>1. {order[q] : q \in 1 .. (p - 1)} = Placed
                BY <3>3, <1>7, <1>8
            <4>2. i \in ready
                BY <2>1, <3>1, <4>1, <1>4
            <4>3. QED
                BY <3>3, <4>2, <1>5, <1>7
        <3>4. QED
            BY <3>2, <3>3, <1>7
    <2>2. QED
        BY <2>1, <1>2, <1>7 DEF EarliestAddedFirst
<1>16. OrderMatchesSort' /\ GraphIsChecked'
    BY <1>1, <1>2 DEF SortInv, OrderMatchesSort, GraphIsChecked, Built, HasDuplicate, HasMissing, Provides
<1>17. QED
    BY <1>11, <1>12, <1>13, <1>14, <1>15, <1>16 DEF SortInv

\* The other steps leave reg, pending, ready and order alone.
LEMMA SortStepInv == SortInv /\ [SortStep]_sortVars => SortInv'
<1> SUFFICES ASSUME SortInv, [SortStep]_sortVars PROVE SortInv'
    OBVIOUS
<1> USE DEF SortInv
<1> DEFINE Kept == UNCHANGED <<reg, pending, ready, order>>
<1>1. ASSUME Kept
      PROVE  /\ Idx' = Idx /\ (\A i : Deps(i)' = Deps(i)) /\ Placed' = Placed
             /\ OrderIsInjective' /\ OrderIsClosed' /\ EarliestAddedFirst'
             /\ HasDuplicate' = HasDuplicate /\ HasMissing' = HasMissing
    <2>1. Idx' = Idx /\ (\A i : Deps(i)' = Deps(i)) /\ Placed' = Placed
        BY <1>1 DEF Idx, Deps, Needs, Provides, Placed
    <2>2. OrderIsInjective' /\ OrderIsClosed'
        BY <1>1, <2>1 DEF OrderIsInjective, OrderIsClosed
    <2>3. EarliestAddedFirst'
        BY <1>1, <2>1 DEF EarliestAddedFirst
    <2>4. HasDuplicate' = HasDuplicate /\ HasMissing' = HasMissing
        BY <1>1, <2>1 DEF HasDuplicate, HasMissing, Provides
    <2>5. QED
        BY <2>1, <2>2, <2>3, <2>4
<1>2. CASE RejectDuplicate \/ RejectMissing
    <2>1. Kept /\ sort = "check" /\ sort' \in {"duplicate", "missing"}
        BY <1>2 DEF RejectDuplicate, RejectMissing
    <2>2. SortTypeOK' /\ GraphIsChecked' /\ OrderMatchesSort' /\ PendingCountsUnplaced'
        BY <1>1, <2>1 DEF SortTypeOK, GraphIsChecked, OrderMatchesSort, PendingCountsUnplaced, Built, SortError
    <2>3. QED
        BY <1>1, <2>1, <2>2
<1>3. CASE BuildGraph
    BY <1>3, BuildGraphInv
<1>4. CASE PlaceNext
    BY <1>4, PlaceNextInv
<1>5. CASE FinishSort \/ RejectCycle
    <2>1. /\ Kept /\ sort = "kahn" /\ ready = {}
          /\ \/ sort' = "sorted" /\ Len(order) = Len(reg)
             \/ sort' = "cycle" /\ Len(order) < Len(reg)
        BY <1>5 DEF FinishSort, RejectCycle
    <2>2. SortTypeOK' /\ GraphIsChecked' /\ OrderMatchesSort' /\ PendingCountsUnplaced'
        BY <1>1, <2>1 DEF SortTypeOK, GraphIsChecked, OrderMatchesSort, PendingCountsUnplaced, Built, SortError
    <2>3. QED
        BY <1>1, <2>1, <2>2
<1>6. CASE UNCHANGED sortVars
    <2>1. Kept /\ sort' = sort
        BY <1>6 DEF sortVars
    <2>2. SortTypeOK' /\ GraphIsChecked' /\ OrderMatchesSort' /\ PendingCountsUnplaced'
        BY <1>1, <2>1 DEF SortTypeOK, GraphIsChecked, OrderMatchesSort, PendingCountsUnplaced, Built
    <2>3. QED
        BY <1>1, <2>1, <2>2
<1>7. QED
    BY <1>2, <1>3, <1>4, <1>5, <1>6 DEF SortStep
-----------------------------------------------------------------------------
\* A complete order is a start order.
LEMMA SortInvOrdered == SortInv => SortedIsStartOrder
<1> SUFFICES ASSUME SortInv, sort = "sorted" PROVE IsStartOrder(order)
    BY DEF SortedIsStartOrder
<1>1. order \in [1 .. Len(reg) -> Idx] /\ DOMAIN order = 1 .. Len(reg)
    BY LenProperties DEF SortInv, SortTypeOK, OrderMatchesSort
<1>2. QED
    BY <1>1 DEF SortInv, IsStartOrder, OrderIsInjective, OrderIsClosed

\* A complete order leaves nobody out: it is injective, and as long as reg.
LEMMA SortedPlacesAll == SortInv /\ sort = "sorted" => Placed = Idx
<1> SUFFICES ASSUME SortInv, sort = "sorted" PROVE Placed = Idx
    OBVIOUS
<1>1. order \in [1 .. Len(reg) -> Idx] /\ DOMAIN order = 1 .. Len(reg)
    BY LenProperties DEF SortInv, SortTypeOK, OrderMatchesSort
<1>2. order \in Injection(Idx, Idx)
    BY <1>1 DEF SortInv, OrderIsInjective, Injection, IsInjective, Idx
<1>3. IsFiniteSet(Idx)
    BY DepsFinite DEF SortInv, SortTypeOK
<1>4. order \in Surjection(Idx, Idx)
    BY <1>2, <1>3, FS_Injection
<1>5. QED
    BY <1>1, <1>4 DEF Surjection, Placed, Range, Idx

\* When nothing is ready, the components that are left wait for each other.
LEMMA UnplacedWait ==
    ASSUME SortInv, sort = "cycle"
    PROVE  Idx \ Placed # {} /\ \A i \in Idx \ Placed : Deps(i) \cap (Idx \ Placed) # {}
<1>1. /\ reg \in Seq(Entry) /\ order \in Seq(Idx)
      /\ ready = {} /\ Len(order) < Len(reg)
      /\ ready = {i \in Idx \ Placed : Deps(i) \subseteq Placed}
    BY DEF SortInv, SortTypeOK, OrderMatchesSort, PendingCountsUnplaced
<1>2. Idx \ Placed # {}
    <2>1. SUFFICES ASSUME Idx \subseteq Placed PROVE FALSE
        OBVIOUS
    <2>2. order \in [1 .. Len(order) -> Idx] /\ DOMAIN order = 1 .. Len(order) /\ Len(order) \in Nat
        BY <1>1, LenProperties
    <2>3. order \in Surjection(1 .. Len(order), Idx)
        BY <2>1, <2>2 DEF Surjection, Placed, Range
    <2>4. Cardinality(Idx) <= Cardinality(1 .. Len(order)) /\ IsFiniteSet(1 .. Len(order))
        BY <2>2, <2>3, FS_Surjection, FS_Interval
    <2>5. Len(reg) \in Nat /\ Cardinality(Idx) = Len(reg)
        BY <1>1, DepsFinite, CardinalityUpTo DEF Idx
    <2>6. Cardinality(1 .. Len(order)) = Len(order)
        BY <2>2, CardinalityUpTo
    <2>7. QED
        BY <1>1, <2>2, <2>4, <2>5, <2>6
<1>3. \A i \in Idx \ Placed : Deps(i) \cap (Idx \ Placed) # {}
    BY <1>1, DepsFinite
<1>4. QED
    BY <1>2, <1>3

\* So there is no start order for them.
LEMMA SortInvCycle == SortInv => CycleIsReal
BY UnplacedWait DEF CycleIsReal
-----------------------------------------------------------------------------
(* The cycle that is reported.                                             *)

\* Those are the ones with pending dependencies, from which find_cycle starts.
LEMMA StuckWait ==
    ASSUME SortInv, sort = "cycle"
    PROVE  /\ Stuck \subseteq Idx /\ Min(Stuck) \in Stuck
           /\ \A i \in Stuck : Min(Deps(i) \cap Stuck) \in Deps(i) \cap Stuck
<1>1. /\ reg \in Seq(Entry) /\ order \in Seq(Idx)
      /\ \A i \in Idx : pending[i] = Cardinality(Deps(i) \ Placed)
      /\ Idx \ Placed # {} /\ \A i \in Idx \ Placed : Deps(i) \cap (Idx \ Placed) # {}
    BY UnplacedWait DEF SortInv, SortTypeOK, PendingCountsUnplaced
<1>2. \A i \in Placed : Deps(i) \subseteq Placed
    <2> SUFFICES ASSUME NEW i \in Placed, NEW d \in Deps(i) PROVE d \in Placed
        OBVIOUS
    <2>1. DOMAIN order = 1 .. Len(order) /\ Len(order) \in Nat
        BY <1>1, LenProperties
    <2>2. PICK p \in 1 .. Len(order) : order[p] = i
        BY <2>1 DEF Placed, Range
    <2>3. PICK q \in 1 .. (p - 1) : order[q] = d
        BY <2>1, <2>2 DEF SortInv, OrderIsClosed
    <2>4. q \in 1 .. Len(order)
        BY <2>1
    <2> QED BY <2>1, <2>3, <2>4 DEF Placed, Range
<1>3. ASSUME NEW i \in Idx PROVE pending[i] > 0 <=> i \notin Placed
    <2>1. Deps(i) \subseteq Idx /\ IsFiniteSet(Deps(i) \ Placed)
        BY <1>1, DepsFinite, FS_Difference
    <2>2. pending[i] \in Nat /\ (pending[i] = 0 <=> Deps(i) \ Placed = {})
        BY <1>1, <2>1, FS_EmptySet, FS_CardinalityType
    <2>3. i \notin Placed => Deps(i) \ Placed # {}
        BY <1>1
    <2>4. i \in Placed => Deps(i) \ Placed = {}
        BY <1>2
    <2> QED BY <2>2, <2>3, <2>4
<1>4. Stuck = Idx \ Placed /\ Stuck \in SUBSET Nat
    BY <1>3 DEF Stuck, Idx
<1>5. \A i \in Stuck : Deps(i) \cap Stuck # {} /\ Deps(i) \cap Stuck \in SUBSET Nat
    BY <1>1, <1>4
<1>6. Min(Stuck) \in Stuck
    BY <1>1, <1>4, MinProperties
<1>7. \A i \in Stuck : Min(Deps(i) \cap Stuck) \in Deps(i) \cap Stuck
    BY <1>5, MinProperties
<1> QED BY <1>4, <1>6, <1>7

\* find_cycle always has a next component to step to.
LEMMA WalkSteps ==
    ASSUME Min(Stuck) \in Stuck, \A i \in Stuck : Min(Deps(i) \cap Stuck) \in Stuck
    PROVE  /\ Walk \in [Nat -> Stuck]
           /\ \A k \in Nat \ {0} : Walk[k] = Min(Deps(Walk[k - 1]) \cap Stuck)
<1> DEFINE Is(f) == f = [k \in Nat |-> IF k = 0 THEN Min(Stuck) ELSE Min(Deps(f[k - 1]) \cap Stuck)]
<1>1. Walk = CHOOSE f : Is(f)
    BY DEF Walk
<1> DEFINE next == [i \in Stuck |-> Min(Deps(i) \cap Stuck)]
<1>2. next \in [Stuck -> Stuck]
    OBVIOUS
<1>3. PICK f \in [Nat -> Stuck] : f[0] = Min(Stuck) /\ \A k \in Nat \ {0} : f[k] = next[f[k - 1]]
    <2> HIDE DEF next
    <2> QED BY <1>2, Iteration
<1>4. Is(f)
    <2>1. \A k \in Nat \ {0} : k - 1 \in Nat /\ f[k - 1] \in Stuck
        OBVIOUS
    <2>2. \A k \in Nat : f[k] = IF k = 0 THEN Min(Stuck) ELSE Min(Deps(f[k - 1]) \cap Stuck)
        BY <1>3, <2>1
    <2> QED BY <2>2
<1>5. Is(Walk)
    <2> HIDE DEF Is
    <2> QED BY <1>1, <1>4
<1>6. /\ DOMAIN Walk = Nat /\ Walk[0] = Min(Stuck)
      /\ \A k \in Nat \ {0} : Walk[k] = Min(Deps(Walk[k - 1]) \cap Stuck)
    BY <1>5
<1> DEFINE Inside == {k \in Nat : Walk[k] \in Stuck}
<1>7. Inside = Nat
    <2>1. 0 \in Inside
        BY <1>6
    <2>2. ASSUME NEW k \in Inside PROVE k + 1 \in Inside
        <3>1. k + 1 \in Nat \ {0} /\ (k + 1) - 1 = k
            OBVIOUS
        <3> QED BY <1>6, <3>1
    <2>3. Inside \in SUBSET Nat
        OBVIOUS
    <2> HIDE DEF Inside
    <2> QED BY <2>1, <2>2, <2>3, SetInduction
<1>8. Walk = [k \in Nat |-> Walk[k]]
    BY <1>5
<1> QED BY <1>6, <1>7, <1>8

\* The walk meets a component again after at most as many steps as there are components.
LEMMA WalkReturns ==
    ASSUME SortInv, sort = "cycle"
    PROVE  /\ Again \in 1 .. Len(reg) /\ \E j \in 0 .. (Again - 1) : Walk[j] = Walk[Again]
           /\ \A k \in 1 .. (Again - 1) : \A j \in 0 .. (k - 1) : Walk[j] # Walk[k]
<1> DEFINE n == Len(reg)
           Meets == {k \in 1 .. n : \E j \in 0 .. (k - 1) : Walk[j] = Walk[k]}
<1>1. n \in Nat /\ IsFiniteSet(Idx) /\ Idx = 1 .. n
    BY DepsFinite DEF SortInv, SortTypeOK, Idx
<1>2. Walk \in [Nat -> Stuck] /\ Stuck \subseteq Idx
    BY StuckWait, WalkSteps
<1>3. \E x, y \in 0 .. n : x # y /\ Walk[x] = Walk[y]
    <2> DEFINE f == [k \in 0 .. n |-> Walk[k]]
    <2>1. f \in [0 .. n -> Idx]
        BY <1>1, <1>2
    <2>2. IsFiniteSet(0 .. n) /\ Cardinality(0 .. n) = n + 1
        BY <1>1, FS_Interval
    <2>3. Cardinality(Idx) = n
        BY <1>1, CardinalityUpTo
    <2>4. Cardinality(Idx) < Cardinality(0 .. n)
        BY <1>1, <2>2, <2>3
    <2> HIDE DEF f
    <2>5. \E x, y \in 0 .. n : x # y /\ f[x] = f[y]
        BY <1>1, <2>1, <2>2, <2>4, FS_PigeonHole
    <2> QED BY <2>5 DEF f
<1>4. Meets # {}
    <2>1. PICK x \in 0 .. n, y \in 0 .. n : x < y /\ Walk[x] = Walk[y]
        <3>1. PICK a \in 0 .. n, b \in 0 .. n : a # b /\ Walk[a] = Walk[b]
            BY <1>3
        <3>2. a < b \/ b < a
            BY <1>1, <3>1
        <3> QED BY <3>1, <3>2
    <2>2. y \in 1 .. n /\ x \in 0 .. (y - 1)
        BY <1>1, <2>1
    <2> QED BY <2>1, <2>2
<1>5. Meets \in SUBSET Nat /\ Again = Min(Meets)
    BY <1>1 DEF Again
<1> HIDE DEF Meets
<1>6. Again \in Meets /\ \A k \in Meets : Again <= k
    BY <1>4, <1>5, MinProperties
<1> USE DEF Meets
<1>7. Again \in 1 .. n /\ \E j \in 0 .. (Again - 1) : Walk[j] = Walk[Again]
    BY <1>6
<1>8. ASSUME NEW k \in 1 .. (Again - 1) PROVE \A j \in 0 .. (k - 1) : Walk[j] # Walk[k]
    <2>1. k \in 1 .. n /\ ~(Again <= k)
        BY <1>1, <1>7
    <2> QED BY <1>6, <2>1
<1> QED BY <1>7, <1>8

\* From there on, backwards, it is a cycle, and nobody is in it twice.
LEMMA SortInvReported == SortInv => ReportedCycleIsCycle
<1> SUFFICES ASSUME SortInv, sort = "cycle"
             PROVE  LET c == FindCycle
                    IN  /\ Len(c) >= 2
                        /\ c[1] = c[Len(c)]
                        /\ \A k \in 1 .. (Len(c) - 1) : c[k] \in Deps(c[k + 1])
                        /\ \A j, k \in 1 .. (Len(c) - 1) : c[j] = c[k] => j = k
    BY DEF ReportedCycleIsCycle
<1>1. /\ Walk \in [Nat -> Stuck] /\ Stuck \subseteq Idx
      /\ \A k \in Nat \ {0} : Walk[k] \in Deps(Walk[k - 1])
    <2>1. /\ Walk \in [Nat -> Stuck] /\ Stuck \subseteq Idx
          /\ \A k \in Nat \ {0} : Walk[k] = Min(Deps(Walk[k - 1]) \cap Stuck)
        BY StuckWait, WalkSteps
    <2>2. ASSUME NEW k \in Nat \ {0} PROVE Walk[k] \in Deps(Walk[k - 1])
        <3>1. k - 1 \in Nat
            OBVIOUS
        <3>2. Walk[k - 1] \in Stuck
            BY <2>1, <3>1
        <3> QED BY <2>1, <3>2, StuckWait
    <2> QED BY <2>1, <2>2
<1>2. PICK again \in Nat \ {0} :
         /\ again = Again /\ \E j \in 0 .. (again - 1) : Walk[j] = Walk[again]
         /\ \A k \in 1 .. (again - 1) : \A j \in 0 .. (k - 1) : Walk[j] # Walk[k]
    <2>1. Again \in 1 .. Len(reg) /\ Len(reg) \in Nat
        BY WalkReturns, DepsFinite DEF SortInv, SortTypeOK
    <2> QED BY <2>1, WalkReturns
<1> DEFINE Visits == {j \in 0 .. again : Walk[j] = Walk[again]}
<1>3. PICK first \in Visits : first = Min(Visits) /\ \A j \in Visits : first <= j
    <2>1. Visits \in SUBSET Nat /\ Visits # {}
        OBVIOUS
    <2> HIDE DEF Visits
    <2> QED BY <2>1, MinProperties
<1>4. first \in 0 .. (again - 1) /\ Walk[first] = Walk[again]
    <2>1. PICK j \in 0 .. (again - 1) : Walk[j] = Walk[again]
        BY <1>2
    <2>2. j \in Visits /\ first <= j
        BY <1>3, <2>1
    <2> QED BY <1>3, <2>2
<1> DEFINE n == again - first + 1
           c == [k \in 1 .. n |-> Walk[again - k + 1]]
<1>5. FindCycle = c
    BY <1>2, <1>3 DEF FindCycle
<1>6. n \in Nat /\ n >= 2 /\ again - n + 1 = first
    BY <1>4
<1>7. Len(c) = n
    <2>1. c \in Seq(Stuck)
        <3>1. \A k \in 1 .. n : again - k + 1 \in Nat
            BY <1>4
        <3>2. c \in [1 .. n -> Stuck]
            BY <1>1, <3>1
        <3> HIDE DEF c, n
        <3> QED BY <1>6, <3>2
    <2>2. DOMAIN c = 1 .. n
        OBVIOUS
    <2> HIDE DEF c, n
    <2> QED BY <1>6, <2>1, <2>2, LenProperties
<1>8. c[1] = c[n]
    <2>1. 1 \in 1 .. n /\ n \in 1 .. n /\ again - 1 + 1 = again
        BY <1>6
    <2> QED BY <1>4, <1>6, <2>1
<1>9. ASSUME NEW k \in 1 .. (n - 1) PROVE c[k] \in Deps(c[k + 1])
    <2>1. /\ k \in 1 .. n /\ k + 1 \in 1 .. n
          /\ again - k + 1 \in Nat \ {0} /\ again - (k + 1) + 1 = (again - k + 1) - 1
        BY <1>4, <1>6
    <2> QED BY <1>1, <2>1
<1>10. ASSUME NEW j \in 1 .. (n - 1), NEW k \in 1 .. (n - 1), c[j] = c[k] PROVE j = k
    <2>1. \A a, b \in (first + 1) .. again : a < b => Walk[a] # Walk[b]
        <3> SUFFICES ASSUME NEW a \in (first + 1) .. again, NEW b \in (first + 1) .. again,
                            a < b, Walk[a] = Walk[b]
                     PROVE  FALSE
            OBVIOUS
        <3>1. a \in 1 .. (again - 1) /\ first \in 0 .. (a - 1) /\ b \in 1 .. again /\ a \in 0 .. (b - 1)
            BY <1>4
        <3>2. b = again
            BY <1>2, <3>1
        <3>3. Walk[first] = Walk[a]
            BY <1>4, <3>2
        <3> QED BY <1>2, <3>1, <3>3
    <2>2. /\ j \in 1 .. n /\ k \in 1 .. n
          /\ again - j + 1 \in (first + 1) .. again /\ again - k + 1 \in (first + 1) .. again
        BY <1>4, <1>6
    <2>3. Walk[again - j + 1] = Walk[again - k + 1]
        BY <1>10, <2>2
    <2>4. again - j + 1 = again - k + 1
        <3>1. \/ again - j + 1 < again - k + 1
              \/ again - j + 1 > again - k + 1
              \/ again - j + 1 = again - k + 1
            BY <2>2
        <3> QED BY <2>1, <2>2, <2>3, <3>1
    <2> QED BY <1>4, <2>4
<1> HIDE DEF c, n
<1> QED BY <1>5, <1>6, <1>7, <1>8, <1>9, <1>10
-----------------------------------------------------------------------------
\* The invariant holds throughout the sort, for every registration.
THEOREM SortCorrect == SortSpec => []SortInv
<1>1. SortInit => SortInv
    BY SortInitInv
<1>2. SortInv /\ [SortStep]_sortVars => SortInv'
    BY SortStepInv
<1>3. QED
    BY <1>1, <1>2, PTL DEF SortSpec

\* sort_by_dependencies keeps its types.
THEOREM SortTypeCorrect == SortSpec => []SortTypeOK
<1>1. SortInv => SortTypeOK
    BY DEF SortInv
<1>2. QED
    BY <1>1, SortCorrect, PTL

\* What it returns is a start order: everybody once, after its dependencies.
THEOREM SortedCorrect == SortSpec => []SortedIsStartOrder
BY SortInvOrdered, SortCorrect, PTL

\* What it rejects as a cycle has no start order.
THEOREM CycleCorrect == SortSpec => []CycleIsReal
BY SortInvCycle, SortCorrect, PTL

\* The counters count, and the components that may be placed first are.
THEOREM PlacementCorrect == SortSpec => [](PendingCountsUnplaced /\ EarliestAddedFirst)
<1>1. SortInv => PendingCountsUnplaced /\ EarliestAddedFirst
    BY DEF SortInv
<1>2. QED
    BY <1>1, SortCorrect, PTL

\* What a sort that succeeds promises holds at every step, for every registration.
THEOREM StableStartOrderCorrect == SortSpec => []StableStartOrder
<1>1. SortedIsStartOrder /\ PendingCountsUnplaced /\ EarliestAddedFirst => StableStartOrder
    BY DEF StableStartOrder
<1>2. QED
    BY <1>1, SortedCorrect, PlacementCorrect, PTL

\* What find_cycle reports is a cycle, from a component back to it, each one needed by the
\* next and nobody twice, for every registration that has no start order.
THEOREM ReportedCycleCorrect == SortSpec => []ReportedCycleIsCycle
BY SortInvReported, SortCorrect, PTL
-----------------------------------------------------------------------------
(* The registry.  The inductive invariant RInv adds to the sort's what the *)
(* loops have in common: which stages the components before and after the  *)
(* loop's position have, and who holds which task.                         *)

\* The phases before shutdown() in which components are or come up.
Forward == {"starting", "before_activate", "activating", "on_ready", "running", "delay"}

\* shutdown() is at work or has finished.
ShuttingDown == phase = "stopping" \/ (phase = "returned" /\ result # "SortFailed")

\* Nothing is started unless the sort has succeeded.
SortedFirst ==
    IF phase = "sorting" \/ (phase = "returned" /\ result = "SortFailed")
      THEN /\ \A i \in Idx : stage[i] = "added"
           /\ resources = {} /\ pos = 0 /\ started = 0 /\ left = {} /\ current = 0
      ELSE sort = "sorted"

\* Before shutdown() the first `started` components are up, the rest untouched.
ForwardStages ==
    phase \in Forward =>
        /\ left = {} /\ current = 0
        /\ phase # "starting" => started = Len(order)
        /\ \A p \in 1 .. Len(order) :
              IF p <= started THEN stage[order[p]] \in {"up", "active"}
                              ELSE stage[order[p]] = "added"

\* In shutdown() what is left to close is up, one component is being closed,
\* and the others are closed or never came up.
ClosingStages ==
    ShuttingDown =>
        /\ phase = "stopping" => result # "SortFailed"
        /\ phase = "returned" => left = {} /\ current = 0
        /\ \A p \in 1 .. Len(order) :
              IF p \in left THEN order[p] # current /\ stage[order[p]] \in {"up", "active"}
              ELSE IF order[p] = current THEN stage[order[p]] \in {"draining", "stopping"}
              ELSE stage[order[p]] \in {"added", "failed", "closed", "timedout"}

\* A running task is in its entry's handle or awaited by shutdown().
TaskOwned ==
    \A i \in Idx :
        /\ stage[i] \in {"added", "failed"} => task[i] = "none"
        /\ stage[i] \in {"up", "active"} =>
              task[i] # "aborted" /\ (task[i] = "running" => handle[i])
        /\ stage[i] = "draining" => task[i] # "aborted"
        /\ stage[i] \in {"stopping", "closed"} => task[i] \in {"none", "ended"}
        /\ stage[i] = "timedout" => task[i] # "running"
        /\ handle[i] => stage[i] \in {"up", "active"}

\* The map holds what the started components provide; nothing else while they start.
MapIsProvided ==
    /\ phase \in Forward => \A p \in 1 .. started : ProvidedBy(order[p]) \subseteq resources
    /\ phase = "starting" => \A r \in resources : \E p \in 1 .. started : r \in ProvidedBy(order[p])

RInv ==
    /\ SortInv
    /\ TypeOK
    /\ SortedFirst
    /\ ForwardStages
    /\ ClosingStages
    /\ TaskOwned
    /\ MapIsProvided
    /\ ProvidersOutliveUsers
-----------------------------------------------------------------------------
\* In a sorted registration every component has exactly one position, and its
\* ordering dependencies have smaller ones.
LEMMA Positions ==
    ASSUME SortInv, sort = "sorted"
    PROVE  /\ Len(order) \in Nat
           /\ \A p \in 1 .. Len(order) : order[p] \in Idx
           /\ \A i \in Idx : \E p \in 1 .. Len(order) : order[p] = i
           /\ \A p, q \in 1 .. Len(order) : order[p] = order[q] => p = q
           /\ \A p \in 1 .. Len(order) : \A d \in Deps(order[p]) :
                 \E q \in 1 .. (p - 1) : order[q] = d
<1>1. Len(order) \in Nat /\ DOMAIN order = 1 .. Len(order) /\ order \in [1 .. Len(order) -> Idx]
    BY LenProperties DEF SortInv, SortTypeOK
<1>2. Placed = Idx
    BY SortedPlacesAll
<1>3. \A i \in Idx : \E p \in 1 .. Len(order) : order[p] = i
    BY <1>1, <1>2 DEF Placed, Range
<1>4. QED
    BY <1>1, <1>3 DEF SortInv, OrderIsInjective, OrderIsClosed

\* Steps of run() after the sort leave what the sort computed alone.
LEMMA SortVarsKept ==
    ASSUME SortInv, UNCHANGED sortVars
    PROVE  /\ SortInv' /\ Idx' = Idx
           /\ \A i : Deps(i)' = Deps(i) /\ Needs(i)' = Needs(i) /\ ProvidedBy(i)' = ProvidedBy(i)
           /\ order' = order /\ reg' = reg /\ sort' = sort
<1>1. order' = order /\ reg' = reg /\ sort' = sort
    BY DEF sortVars
<1>2. SortInv'
    BY SortStepInv
<1>3. QED
    BY <1>1, <1>2 DEF Idx, Deps, Needs, Provides, ProvidedBy

\* What an entry provides and depends on are resources.
LEMMA EntryResources ==
    ASSUME reg \in Seq(Entry), NEW i \in Idx
    PROVE  ProvidedBy(i) \subseteq Resource /\ Range(reg[i].dependsOn) \subseteq Resource
<1>1. reg[i] \in Entry
    BY ElementOfSeq DEF Idx
<1>2. reg[i].provides \in Seq(Resource) /\ reg[i].dependsOn \in Seq(Resource)
    BY <1>1 DEF Entry
<1>3. ASSUME NEW f \in Seq(Resource) PROVE Range(f) \subseteq Resource
    BY LenProperties DEF Range
<1>4. QED
    BY <1>2, <1>3 DEF ProvidedBy

\* Nothing is up before run() sorts.
LEMMA InitInv == Init => RInv
<1> SUFFICES ASSUME Init PROVE RInv
    OBVIOUS
<1> USE DEF Init
<1>1. SortInv
    BY SortInitInv
<1>2. SortTypeOK /\ Len(order) = 0
    BY <1>1, EmptySeq DEF SortInv, SortInit
<1>3. TypeOK
    BY <1>2 DEF TypeOK, Phase, Result, Stage
<1>4. SortedFirst /\ ForwardStages /\ ClosingStages /\ TaskOwned /\ MapIsProvided
    BY DEF SortedFirst, ForwardStages, ClosingStages, ShuttingDown, TaskOwned, MapIsProvided, Forward
<1>5. ProvidersOutliveUsers
    BY DEF ProvidersOutliveUsers, Live
<1>6. QED
    BY <1>1, <1>3, <1>4, <1>5 DEF RInv

\* While sorting nothing is up, whatever the sort does.
LEMMA SortPhaseInv == RInv /\ Sort => RInv'
<1> SUFFICES ASSUME RInv, Sort PROVE RInv'
    OBVIOUS
<1>1. /\ phase = "sorting" /\ SortStep
      /\ UNCHANGED <<phase, result, pos, started, stage, task, handle, resources,
                     unread, sent, left, current>>
    BY DEF Sort
<1>2. SortInv' /\ reg' = reg
    BY <1>1, SortStepInv DEF RInv, SortStep, RejectDuplicate, RejectMissing, BuildGraph, PlaceNext,
                             FinishSort, RejectCycle
<1>3. Idx' = Idx
    BY <1>2 DEF Idx
<1>4. Len(order') \in Nat
    BY <1>2, LenProperties DEF SortInv, SortTypeOK
<1>5. /\ \A i \in Idx : stage[i] = "added"
      /\ resources = {} /\ pos = 0 /\ started = 0 /\ left = {} /\ current = 0
    BY <1>1 DEF RInv, SortedFirst
<1>6. TypeOK'
    BY <1>1, <1>2, <1>3, <1>4, <1>5 DEF RInv, SortInv, TypeOK
<1>7. SortedFirst' /\ ForwardStages' /\ ClosingStages' /\ MapIsProvided' /\ TaskOwned'
    BY <1>1, <1>3, <1>5 DEF RInv, SortedFirst, ForwardStages, ClosingStages, ShuttingDown, MapIsProvided,
                            TaskOwned, Forward
<1>8. ProvidersOutliveUsers'
    BY <1>1, <1>3, <1>5 DEF ProvidersOutliveUsers, Live
<1>9. QED
    BY <1>2, <1>6, <1>7, <1>8 DEF RInv

\* Only the phase moves on; no component is touched.
LEMMA PhaseInv == RInv /\ (Sorted \/ SortFails \/ AllStarted \/ HookOk \/ AllActive) => RInv'
<1> SUFFICES ASSUME RInv, Sorted \/ SortFails \/ AllStarted \/ HookOk \/ AllActive PROVE RInv'
    OBVIOUS
<1>1. UNCHANGED <<sortVars, pos, started, stage, task, handle, resources, unread, sent, left, current>>
    BY DEF Sorted, SortFails, AllStarted, HookOk, AllActive
<1>2. \/ phase = "sorting" /\ sort = "sorted" /\ phase' = "starting" /\ result' = result
      \/ phase = "sorting" /\ phase' = "returned" /\ result' = "SortFailed"
      \/ phase = "starting" /\ started = Len(order) /\ phase' = "before_activate" /\ result' = result
      \/ phase = "before_activate" /\ phase' = "activating" /\ result' = result
      \/ phase = "activating" /\ phase' = "on_ready" /\ result' = result
      \/ phase = "on_ready" /\ phase' = "running" /\ result' = result
    BY DEF Sorted, SortFails, AllStarted, HookOk, AllActive
<1>3. /\ SortInv' /\ Idx' = Idx /\ order' = order /\ reg' = reg /\ sort' = sort
      /\ \A i : Needs(i)' = Needs(i) /\ ProvidedBy(i)' = ProvidedBy(i)
    BY <1>1, SortVarsKept DEF RInv
<1>4. TypeOK'
    BY <1>1, <1>2, <1>3 DEF RInv, SortInv, TypeOK, Phase, Result
<1>5. SortedFirst'
    BY <1>1, <1>2, <1>3 DEF RInv, SortedFirst
<1>6. ForwardStages' /\ MapIsProvided'
    <2>1. CASE phase = "sorting" /\ sort = "sorted" /\ phase' = "starting"
        BY <2>1, <1>1, <1>3, Positions DEF RInv, SortedFirst, ForwardStages, MapIsProvided, Forward
    <2>2. CASE phase \in Forward
        BY <2>2, <1>1, <1>2, <1>3 DEF RInv, ForwardStages, MapIsProvided, Forward
    <2>3. CASE phase' = "returned"
        BY <2>3 DEF ForwardStages, MapIsProvided, Forward
    <2>4. QED
        BY <1>2, <2>1, <2>2, <2>3 DEF Forward
<1>7. ClosingStages'
    BY <1>2 DEF ClosingStages, ShuttingDown
<1>8. TaskOwned' /\ ProvidersOutliveUsers'
    BY <1>1, <1>3 DEF RInv, TaskOwned, ProvidersOutliveUsers, Live, Gone
<1>9. QED
    BY <1>3, <1>4, <1>5, <1>6, <1>7, <1>8 DEF RInv

\* Entering shutdown() from a forward phase with the first n components up:
\* exactly those are left to close.
LEMMA ShutdownStages ==
    ASSUME RInv, phase \in Forward, UNCHANGED <<sortVars, current>>,
           NEW n \in 0 .. Len(order), NEW res \in Result \ {"SortFailed"}, Shutdown(n, res),
           \A p \in 1 .. Len(order) :
              IF p <= n THEN stage'[order[p]] \in {"up", "active"}
                        ELSE stage'[order[p]] \in {"added", "failed"}
    PROVE  /\ SortedFirst' /\ ForwardStages' /\ ClosingStages' /\ MapIsProvided'
           /\ left' \subseteq 1 .. Len(order) /\ started' \in 0 .. Len(order)
           /\ phase' \in Phase /\ result' \in Result
<1> USE DEF Shutdown
<1>1. SortInv' /\ order' = order /\ sort' = sort /\ sort = "sorted" /\ current = 0 /\ current' = 0
    BY SortVarsKept DEF RInv, SortedFirst, ForwardStages, Forward
<1>2. Len(order) \in Nat
    BY <1>1, Positions DEF RInv
<1>3. SortedFirst' /\ ForwardStages' /\ MapIsProvided'
    BY <1>1 DEF SortedFirst, ForwardStages, MapIsProvided, Forward
<1>4. \A p \in 1 .. Len(order) : order[p] # 0
    BY <1>1, Positions DEF RInv, Idx
<1>5. ClosingStages'
    BY <1>1, <1>2, <1>4 DEF ClosingStages
<1>6. QED
    BY <1>1, <1>2, <1>3, <1>5 DEF Phase

\* In a forward phase no component is closed yet, in whatever stage it is.
LEMMA NobodyGone ==
    ASSUME RInv, phase \in Forward, UNCHANGED sortVars,
           \A p \in 1 .. Len(order) : stage'[order[p]] \in {"added", "failed", "up", "active"}
    PROVE  ProvidersOutliveUsers'
<1>1. SortInv' /\ Idx' = Idx /\ sort = "sorted"
    BY SortVarsKept DEF RInv, SortedFirst, Forward
<1>2. \A i \in Idx : stage'[i] \in {"added", "failed", "up", "active"}
    BY <1>1, Positions DEF RInv
<1>3. QED
    BY <1>1, <1>2 DEF ProvidersOutliveUsers, Gone

\* The next component comes up, after those it needs.
LEMMA StartOkInv == RInv /\ StartOk => RInv'
<1> SUFFICES ASSUME RInv, StartOk PROVE RInv'
    OBVIOUS
<1> DEFINE i == order[started + 1]
<1>1. /\ phase = "starting" /\ started < Len(order)
      /\ UNCHANGED <<sortVars, pos, unread, sent, current>>
    BY DEF StartOk, AllPut
<1>2. PICK put \in SUBSET ProvidedBy(i), spawned \in BOOLEAN :
         /\ stage' = [stage EXCEPT ![i] = "up"]
         /\ task' = [task EXCEPT ![i] = IF spawned THEN "running" ELSE "none"]
         /\ handle' = [handle EXCEPT ![i] = spawned]
         /\ resources' = resources \cup put
         /\ IF ProvidedBy(i) \subseteq resources'
              THEN started' = started + 1 /\ UNCHANGED <<phase, result, left>>
              ELSE Shutdown(started + 1, "ComponentStartFailed")
    BY DEF StartOk, AllPut
<1>3. /\ SortInv' /\ Idx' = Idx /\ order' = order /\ reg' = reg /\ sort' = sort /\ sort = "sorted"
      /\ \A j : ProvidedBy(j)' = ProvidedBy(j)
    BY <1>1, SortVarsKept DEF RInv, SortedFirst
<1>4. /\ Len(order) \in Nat /\ started \in Nat /\ started + 1 \in 1 .. Len(order) /\ i \in Idx
      /\ \A p \in 1 .. Len(order) : order[p] \in Idx /\ (order[p] = i <=> p = started + 1)
    BY <1>1, <1>3, Positions DEF RInv, TypeOK
<1>5. /\ stage \in [Idx -> Stage] /\ handle \in [Idx -> BOOLEAN]
      /\ task \in [Idx -> {"none", "running", "ended", "aborted"}]
    BY DEF RInv, TypeOK
<1>6. \A p \in 1 .. Len(order) :
         IF p <= started + 1 THEN stage'[order[p]] \in {"up", "active"}
                             ELSE stage'[order[p]] = "added"
    BY <1>1, <1>2, <1>4, <1>5 DEF RInv, ForwardStages, Forward
<1>7. ProvidersOutliveUsers'
    BY <1>1, <1>6, NobodyGone DEF Forward
<1>8. TaskOwned'
    BY <1>2, <1>3, <1>4, <1>5 DEF RInv, TaskOwned
<1>9. ProvidedBy(i) \subseteq Resource
    BY <1>4, EntryResources DEF RInv, SortInv, SortTypeOK
<1>10. /\ SortedFirst' /\ ForwardStages' /\ ClosingStages' /\ MapIsProvided'
       /\ left' \subseteq 1 .. Len(order) /\ started' \in 0 .. Len(order)
       /\ phase' \in Phase /\ result' \in Result
    <2>1. CASE ProvidedBy(i) \subseteq resources'
        <3>1. started' = started + 1 /\ UNCHANGED <<phase, result, left>>
            BY <2>1, <1>2
        <3>2. SortedFirst' /\ ForwardStages' /\ ClosingStages'
            BY <3>1, <1>1, <1>3, <1>4, <1>6 DEF RInv, SortedFirst, ForwardStages, ClosingStages, ShuttingDown,
                                               Forward
        <3>3. MapIsProvided'
            BY <2>1, <3>1, <1>1, <1>2, <1>3, <1>4 DEF RInv, MapIsProvided, Forward
        <3>4. QED
            BY <3>1, <3>2, <3>3, <1>4 DEF RInv, TypeOK
    <2>2. CASE ~(ProvidedBy(i) \subseteq resources')
        <3>1. Shutdown(started + 1, "ComponentStartFailed") /\ UNCHANGED <<sortVars, current>>
            BY <2>2, <1>1, <1>2
        <3>2. phase \in Forward /\ "ComponentStartFailed" \in Result \ {"SortFailed"}
            BY <1>1 DEF Forward, Result
        <3>3. \A p \in 1 .. Len(order) :
                 IF p <= started + 1 THEN stage'[order[p]] \in {"up", "active"}
                                     ELSE stage'[order[p]] \in {"added", "failed"}
            BY <1>6
        <3>4. started + 1 \in 0 .. Len(order)
            BY <1>4
        <3>5. QED
            BY <3>1, <3>2, <3>3, <3>4, ShutdownStages
    <2>3. QED
        BY <2>1, <2>2
<1>11. TypeOK'
    BY <1>1, <1>2, <1>3, <1>5, <1>9, <1>10 DEF RInv, SortInv, TypeOK, Stage
<1>12. QED
    BY <1>3, <1>7, <1>8, <1>10, <1>11 DEF RInv

\* A startup fails, whatever it had put into the map: shutdown begins with what is up.
LEMMA StartErrInv == RInv /\ StartErr => RInv'
<1> SUFFICES ASSUME RInv, StartErr PROVE RInv'
    OBVIOUS
<1> DEFINE i == order[started + 1]
<1>1. /\ phase = "starting" /\ started < Len(order)
      /\ Shutdown(started, "ComponentStartFailed")
      /\ UNCHANGED <<sortVars, pos, task, handle, unread, sent, current>>
    BY DEF StartErr
<1>2. PICK put \in SUBSET ProvidedBy(i) :
         stage' = [stage EXCEPT ![i] = "failed"] /\ resources' = resources \cup put
    BY DEF StartErr
<1>3. SortInv' /\ Idx' = Idx /\ order' = order /\ reg' = reg /\ sort' = sort /\ sort = "sorted"
    BY <1>1, SortVarsKept DEF RInv, SortedFirst
<1>4. /\ Len(order) \in Nat /\ started \in 0 .. Len(order) /\ i \in Idx
      /\ \A p \in 1 .. Len(order) : order[p] \in Idx /\ (order[p] = i <=> p = started + 1)
    BY <1>1, <1>3, Positions DEF RInv, TypeOK
<1>5. stage \in [Idx -> Stage]
    BY DEF RInv, TypeOK
<1>6. \A p \in 1 .. Len(order) :
         IF p <= started THEN stage'[order[p]] \in {"up", "active"}
                         ELSE stage'[order[p]] \in {"added", "failed"}
    BY <1>1, <1>2, <1>4, <1>5 DEF RInv, ForwardStages, Forward
<1>7. ProvidersOutliveUsers'
    BY <1>1, <1>6, NobodyGone DEF Forward
<1>8. TaskOwned'
    <2>1. stage[i] = "added"
        BY <1>1, <1>4 DEF RInv, ForwardStages, Forward
    <2>2. QED
        BY <2>1, <1>1, <1>2, <1>3, <1>4, <1>5 DEF RInv, TaskOwned
<1>9. ProvidedBy(i) \subseteq Resource
    BY <1>4, EntryResources DEF RInv, SortInv, SortTypeOK
<1>10. /\ SortedFirst' /\ ForwardStages' /\ ClosingStages' /\ MapIsProvided'
       /\ left' \subseteq 1 .. Len(order) /\ started' \in 0 .. Len(order)
       /\ phase' \in Phase /\ result' \in Result
    <2>1. phase \in Forward /\ "ComponentStartFailed" \in Result \ {"SortFailed"}
        BY <1>1 DEF Forward, Result
    <2>2. QED
        BY <2>1, <1>1, <1>4, <1>6, ShutdownStages
<1>11. TypeOK'
    BY <1>1, <1>2, <1>3, <1>5, <1>9, <1>10 DEF RInv, SortInv, TypeOK, Stage
<1>12. QED
    BY <1>3, <1>7, <1>8, <1>10, <1>11 DEF RInv

\* An orderly or failed end of a phase after start-up: all are up, all are left
\* to close.
LEMMA LeaveInv ==
    ASSUME RInv, phase \in Forward \ {"starting"},
           UNCHANGED <<sortVars, pos, stage, task, resources, sent, current>>,
           unread' \subseteq unread, handle' \in [Idx -> BOOLEAN],
           \A i \in Idx : handle'[i] # handle[i] => ~handle'[i] /\ task[i] # "running",
           NEW res \in Result \ {"SortFailed"}, Shutdown(started, res)
    PROVE  RInv'
<1>1. /\ SortInv' /\ Idx' = Idx /\ order' = order /\ sort = "sorted"
      /\ \A p \in 1 .. Len(order) : order[p] \in Idx
      /\ started \in 0 .. Len(order)
    BY SortVarsKept, Positions DEF RInv, SortedFirst, Forward, TypeOK
<1>2. \A p \in 1 .. Len(order) : IF p <= started THEN stage'[order[p]] \in {"up", "active"}
                                                 ELSE stage'[order[p]] \in {"added", "failed"}
    BY DEF RInv, ForwardStages
<1>3. \A p \in 1 .. Len(order) : stage'[order[p]] \in {"added", "failed", "up", "active"}
    BY <1>2
<1>4. ProvidersOutliveUsers'
    BY <1>3, NobodyGone
<1>5. /\ SortedFirst' /\ ForwardStages' /\ ClosingStages' /\ MapIsProvided'
      /\ left' \subseteq 1 .. Len(order) /\ started' \in 0 .. Len(order)
      /\ phase' \in Phase /\ result' \in Result
    BY <1>1, <1>2, ShutdownStages
<1>6. TaskOwned'
    BY <1>1 DEF RInv, TypeOK, TaskOwned
<1>7. TypeOK'
    BY <1>1, <1>5 DEF RInv, SortInv, TypeOK
<1>8. QED
    BY <1>1, <1>4, <1>5, <1>6, <1>7 DEF RInv

\* The hooks, activate, a signal and the delay leave all entries as they are;
\* any_task_exited takes a handle whose task is over.
LEMMA LeavingInv ==
    RInv /\ (HookErr \/ ActivateErr \/ ReceiveSignal \/ NoticeTaskExit \/ DelayElapses) => RInv'
<1> SUFFICES ASSUME RInv, HookErr \/ ActivateErr \/ ReceiveSignal \/ NoticeTaskExit \/ DelayElapses
             PROVE  RInv'
    OBVIOUS
<1> USE DEF Forward, Result
<1>1. handle \in [Idx -> BOOLEAN]
    BY DEF RInv, TypeOK
<1>2. CASE HookErr \/ ActivateErr \/ DelayElapses
    <2>1. /\ phase \in Forward \ {"starting"}
          /\ UNCHANGED <<sortVars, pos, stage, task, handle, resources, unread, sent, current>>
        BY <1>2 DEF HookErr, ActivateErr, DelayElapses, Activating
    <2>2. \E res \in Result \ {"SortFailed"} : Shutdown(started, res)
        BY <1>2 DEF HookErr, ActivateErr, DelayElapses
    <2>3. QED
        BY <1>1, <2>1, <2>2, LeaveInv
<1>3. CASE ReceiveSignal /\ ShutdownDelay = 0
    <2>1. /\ phase \in Forward \ {"starting"} /\ unread' \subseteq unread
          /\ UNCHANGED <<sortVars, pos, stage, task, handle, resources, sent, current>>
          /\ Shutdown(started, "Ok") /\ "Ok" \in Result \ {"SortFailed"}
        BY <1>3 DEF ReceiveSignal
    <2>2. QED
        BY <1>1, <2>1, LeaveInv
<1>4. CASE ReceiveSignal /\ ShutdownDelay # 0
    <2>1. /\ phase = "running" /\ phase' = "delay" /\ unread' \subseteq unread
          /\ UNCHANGED <<sortVars, result, left, started, pos, stage, task, handle, resources, sent, current>>
        BY <1>4 DEF ReceiveSignal
    <2>2. /\ SortInv' /\ Idx' = Idx /\ order' = order /\ reg' = reg /\ sort' = sort
          /\ \A i : Needs(i)' = Needs(i) /\ ProvidedBy(i)' = ProvidedBy(i)
        BY <2>1, SortVarsKept DEF RInv
    <2>3. TypeOK'
        BY <2>1, <2>2 DEF RInv, SortInv, TypeOK, Phase
    <2>4. SortedFirst' /\ ForwardStages' /\ MapIsProvided' /\ ClosingStages'
        BY <2>1, <2>2 DEF RInv, SortedFirst, ForwardStages, MapIsProvided, ClosingStages, ShuttingDown
    <2>5. TaskOwned' /\ ProvidersOutliveUsers'
        BY <2>1, <2>2 DEF RInv, TaskOwned, ProvidersOutliveUsers, Live, Gone
    <2>6. QED
        BY <2>2, <2>3, <2>4, <2>5 DEF RInv
<1>5. CASE NoticeTaskExit
    <2> DEFINE p == Min(Exited)
    <2>1. /\ phase \in Forward \ {"starting"} /\ Exited # {}
          /\ UNCHANGED <<sortVars, pos, stage, task, resources, unread, sent, current>>
          /\ handle' = [handle EXCEPT ![order[p]] = FALSE]
          /\ Shutdown(started, "TaskExited") /\ "TaskExited" \in Result \ {"SortFailed"}
        BY <1>5 DEF NoticeTaskExit
    <2>2. Exited \in SUBSET Nat
        BY DEF Exited, RInv, TypeOK
    <2>3. p \in Exited
        BY <2>1, <2>2, MinProperties
    <2> HIDE DEF p
    <2>4. task[order[p]] = "ended"
        BY <2>3 DEF Exited
    <2>5. handle' \in [Idx -> BOOLEAN]
          /\ \A i \in Idx : handle'[i] # handle[i] => ~handle'[i] /\ task[i] # "running"
        BY <1>1, <2>1, <2>4
    <2>6. QED
        BY <2>1, <2>5, LeaveInv
<1>6. QED
    BY <1>2, <1>3, <1>4, <1>5

\* The loop over the components in activate_components.
LEMMA ActivateInv == RInv /\ (SkipImmediate \/ ActivateOk) => RInv'
<1> SUFFICES ASSUME RInv, SkipImmediate \/ ActivateOk PROVE RInv'
    OBVIOUS
<1> DEFINE i == order[pos + 1]
<1>1. /\ phase = "activating" /\ pos < Len(order) /\ pos' = pos + 1
      /\ UNCHANGED <<sortVars, phase, result, left, started, resources, unread, sent, current>>
    BY DEF SkipImmediate, ActivateOk, Activating, Stay
<1>2. /\ SortInv' /\ Idx' = Idx /\ order' = order /\ reg' = reg /\ sort' = sort /\ sort = "sorted"
      /\ \A j : ProvidedBy(j)' = ProvidedBy(j)
    BY <1>1, SortVarsKept DEF RInv, SortedFirst
<1>3. /\ Len(order) \in Nat /\ pos + 1 \in 1 .. Len(order) /\ i \in Idx
      /\ \A p \in 1 .. Len(order) : order[p] \in Idx
    BY <1>1, <1>2, Positions DEF RInv, TypeOK
<1>4. /\ stage \in [Idx -> Stage] /\ handle \in [Idx -> BOOLEAN]
      /\ task \in [Idx -> {"none", "running", "ended", "aborted"}]
      /\ \A p \in 1 .. Len(order) : stage[order[p]] \in {"up", "active"}
    BY <1>1 DEF RInv, TypeOK, ForwardStages, Forward
<1>5. \/ UNCHANGED <<stage, task, handle>>
      \/ \E spawned \in BOOLEAN :
            /\ stage' = [stage EXCEPT ![i] = "active"]
            /\ task' = [task EXCEPT ![i] = IF spawned THEN "running" ELSE "none"]
            /\ handle' = [handle EXCEPT ![i] = spawned]
    BY DEF SkipImmediate, ActivateOk
<1>6. \A p \in 1 .. Len(order) : stage'[order[p]] \in {"up", "active"}
    BY <1>3, <1>4, <1>5
<1>7. ProvidersOutliveUsers'
    BY <1>1, <1>6, NobodyGone DEF Forward
<1>8. TaskOwned'
    BY <1>2, <1>3, <1>4, <1>5 DEF RInv, TaskOwned
<1>9. TypeOK'
    BY <1>1, <1>2, <1>3, <1>4, <1>5 DEF RInv, SortInv, TypeOK, Stage
<1>10. SortedFirst' /\ ForwardStages' /\ ClosingStages' /\ MapIsProvided'
    BY <1>1, <1>2, <1>6 DEF RInv, SortedFirst, ForwardStages, ClosingStages, ShuttingDown, MapIsProvided,
                            Forward
<1>11. QED
    BY <1>2, <1>7, <1>8, <1>9, <1>10 DEF RInv

\* Which component shutdown() turns to: if it is an Immediate one, only
\* Immediate components of smaller or equal position are left.
LEMMA NextToCloseProperties ==
    ASSUME RInv, phase = "stopping", left # {}
    PROVE  /\ sort = "sorted" /\ NextToClose \in left
           /\ ~reg[order[NextToClose]].deferred =>
                 \A p \in left : ~reg[order[p]].deferred /\ p <= NextToClose
<1>1. sort = "sorted" /\ left \in SUBSET (1 .. Len(order)) /\ Len(order) \in Nat
    BY Positions DEF RInv, SortedFirst, TypeOK
<1> DEFINE deferred == {p \in left : reg[order[p]].deferred}
<1>2. NextToClose = IF deferred # {} THEN Max(deferred) ELSE Max(left)
    BY DEF NextToClose
<1>3. deferred \in SUBSET (1 .. Len(order))
    BY <1>1
<1>4. CASE deferred # {}
    <2>1. Max(deferred) \in deferred
        <3> HIDE DEF deferred
        <3> QED BY <1>1, <1>3, <1>4, MaxProperties
    <2>2. QED
        BY <1>1, <1>2, <1>4, <2>1
<1>5. CASE deferred = {}
    <2>1. Max(left) \in left /\ \A p \in left : p <= Max(left)
        BY <1>1, MaxProperties
    <2>2. QED
        BY <1>1, <1>2, <1>5, <2>1
<1>6. QED
    BY <1>4, <1>5

\* The step that can close a provider too early.  It turns to an Immediate
\* component only when no Deferred one is up any more, and then to the last
\* started: whoever needs it started later and has been closed.
LEMMA CloseNextInv == RInv /\ CloseNext => RInv'
<1> SUFFICES ASSUME RInv, CloseNext PROVE RInv'
    OBVIOUS
<1> DEFINE c == NextToClose
           i == order[c]
<1>1. /\ phase = "stopping" /\ current = 0 /\ left # {}
      /\ current' = i /\ left' = left \ {c}
      /\ stage' = [stage EXCEPT ![i] = IF handle[i] THEN "draining" ELSE "stopping"]
      /\ handle' = [handle EXCEPT ![i] = FALSE]
      /\ UNCHANGED <<sortVars, phase, result, pos, started, task, resources, unread, sent>>
    BY DEF CloseNext
<1>2. /\ sort = "sorted" /\ c \in left
      /\ ~reg[i].deferred => \A p \in left : ~reg[order[p]].deferred /\ p <= c
    BY <1>1, NextToCloseProperties
<1> HIDE DEF c
<1>3. /\ SortInv' /\ Idx' = Idx /\ order' = order /\ reg' = reg /\ sort' = sort
      /\ \A j : Needs(j)' = Needs(j)
    BY <1>1, SortVarsKept DEF RInv
<1>4. /\ Len(order) \in Nat /\ left \subseteq 1 .. Len(order) /\ c \in 1 .. Len(order) /\ i \in Idx
      /\ \A p \in 1 .. Len(order) : order[p] \in Idx /\ order[p] # 0 /\ (order[p] = i <=> p = c)
      /\ \A j \in Idx : \E p \in 1 .. Len(order) : order[p] = j
      /\ \A p \in 1 .. Len(order) : \A d \in Deps(order[p]) : \E q \in 1 .. (p - 1) : order[q] = d
    BY <1>2, Positions DEF RInv, TypeOK, Idx
<1>5. /\ stage \in [Idx -> Stage] /\ handle \in [Idx -> BOOLEAN]
      /\ task \in [Idx -> {"none", "running", "ended", "aborted"}]
    BY DEF RInv, TypeOK
<1>6. \A p \in 1 .. Len(order) :
         IF p \in left THEN stage[order[p]] \in {"up", "active"}
                       ELSE stage[order[p]] \in {"added", "failed", "closed", "timedout"}
    BY <1>1, <1>4 DEF RInv, ClosingStages, ShuttingDown
<1>7. ClosingStages'
    <2>1. \A p \in 1 .. Len(order) :
             IF p \in left' THEN order[p] # current' /\ stage'[order[p]] \in {"up", "active"}
             ELSE IF order[p] = current' THEN stage'[order[p]] \in {"draining", "stopping"}
             ELSE stage'[order[p]] \in {"added", "failed", "closed", "timedout"}
        BY <1>1, <1>4, <1>5, <1>6
    <2>2. result' # "SortFailed" /\ phase' = "stopping"
        BY <1>1 DEF RInv, ClosingStages, ShuttingDown
    <2>3. QED
        BY <2>1, <2>2, <1>3 DEF ClosingStages
<1>8. ProvidersOutliveUsers'
    <2>1. SUFFICES ASSUME NEW u \in Idx, NEW j \in Idx, Live(u)', j \in Needs(u), ~reg[j].deferred
                   PROVE  ~Gone(j)'
        BY <1>1, <1>3 DEF ProvidersOutliveUsers
    <2>2. Live(u)
        BY <2>1, <1>1, <1>4, <1>5, <1>6, <1>2 DEF Live
    <2>3. CASE j # i
        BY <2>1, <2>2, <2>3, <1>1 DEF RInv, ProvidersOutliveUsers, Gone
    <2>4. CASE j = i
        <3>1. PICK p \in 1 .. Len(order) : order[p] = u
            BY <1>4
        <3>2. p \in left
            BY <3>1, <2>2, <1>6 DEF Live
        <3>3. ~reg[u].deferred /\ p <= c
            BY <3>1, <3>2, <2>1, <2>4, <1>2
        <3>4. j \in Deps(order[p])
            BY <3>1, <3>3, <2>1 DEF Deps
        <3>5. PICK q \in 1 .. (p - 1) : order[q] = i
            BY <3>4, <2>4, <1>4
        <3>6. q = c /\ q < p
            BY <3>5, <1>4
        <3>7. QED
            BY <3>3, <3>6, <1>4
    <2>5. QED
        BY <2>3, <2>4
<1>9. TaskOwned'
    BY <1>1, <1>2, <1>3, <1>4, <1>5, <1>6 DEF RInv, TaskOwned
<1>10. TypeOK'
    BY <1>1, <1>3, <1>4, <1>5 DEF RInv, SortInv, TypeOK, Stage
<1>11. SortedFirst' /\ ForwardStages' /\ MapIsProvided'
    BY <1>1, <1>2, <1>3 DEF SortedFirst, ForwardStages, MapIsProvided, Forward
<1>12. QED
    BY <1>3, <1>7, <1>8, <1>9, <1>10, <1>11 DEF RInv

\* The other steps of shutdown() concern the component being closed.
LEMMA ClosingInv == RInv /\ (TaskDrained \/ StopReturns \/ CloseTimesOut \/ ShutdownDone) => RInv'
<1> SUFFICES ASSUME RInv, TaskDrained \/ StopReturns \/ CloseTimesOut \/ ShutdownDone PROVE RInv'
    OBVIOUS
<1>1. /\ phase = "stopping" /\ sort = "sorted"
      /\ UNCHANGED <<sortVars, result, pos, started, handle, resources, unread, sent, left>>
    BY DEF TaskDrained, StopReturns, CloseTimesOut, ShutdownDone, RInv, SortedFirst
<1>2. /\ SortInv' /\ Idx' = Idx /\ order' = order /\ reg' = reg /\ sort' = sort
      /\ \A j : Needs(j)' = Needs(j)
    BY <1>1, SortVarsKept DEF RInv
<1>3. /\ stage \in [Idx -> Stage] /\ handle \in [Idx -> BOOLEAN] /\ current \in Idx \cup {0} /\ 0 \notin Idx
      /\ task \in [Idx -> {"none", "running", "ended", "aborted"}]
    BY DEF RInv, TypeOK, Idx
<1>4. SortedFirst' /\ ForwardStages' /\ MapIsProvided'
    <2>1. phase' = "stopping" \/ (phase' = "returned" /\ result' = result)
        BY <1>1 DEF TaskDrained, StopReturns, CloseTimesOut, ShutdownDone
    <2>2. CASE phase' = "stopping"
        BY <2>2, <1>1, <1>2 DEF SortedFirst, ForwardStages, MapIsProvided, Forward
    <2>3. CASE phase' = "returned" /\ result # "SortFailed"
        BY <2>3, <1>1, <1>2 DEF SortedFirst, ForwardStages, MapIsProvided, Forward
    <2>4. result # "SortFailed"
        BY <1>1 DEF RInv, ClosingStages, ShuttingDown
    <2>5. QED
        BY <2>1, <2>2, <2>3, <2>4
<1>5. CASE ShutdownDone
    <2>1. /\ UNCHANGED <<stage, task, current>> /\ current = 0 /\ left = {}
          /\ phase' = "returned" /\ result' = result
        BY <1>5 DEF ShutdownDone
    <2>2. ClosingStages' /\ TaskOwned' /\ ProvidersOutliveUsers'
        BY <2>1, <1>1, <1>2 DEF RInv, ClosingStages, ShuttingDown, TaskOwned, ProvidersOutliveUsers, Live, Gone
    <2>3. TypeOK'
        BY <2>1, <1>1, <1>2 DEF RInv, SortInv, TypeOK, Phase
    <2>4. QED
        BY <2>2, <2>3, <1>2, <1>4 DEF RInv
<1>6. CASE TaskDrained \/ StopReturns \/ CloseTimesOut
    <2>1. /\ phase' = phase /\ current \in Idx /\ stage[current] \in {"draining", "stopping"}
          /\ \/ /\ stage' = [stage EXCEPT ![current] = "stopping"] /\ task' = task /\ current' = current
                /\ stage[current] = "draining" /\ task[current] = "ended"
             \/ /\ stage' = [stage EXCEPT ![current] = "closed"] /\ task' = task /\ current' = 0
                /\ stage[current] = "stopping"
             \/ /\ stage' = [stage EXCEPT ![current] = "timedout"] /\ current' = 0
                /\ task' = [task EXCEPT ![current] = IF @ = "running" THEN "aborted" ELSE @]
        <3>1. current \in Idx /\ stage[current] \in {"draining", "stopping"}
            <4>1. current # 0
                BY <1>6 DEF TaskDrained, StopReturns, CloseTimesOut
            <4>2. PICK p \in 1 .. Len(order) : order[p] = current
                BY <4>1, <1>1, <1>3, Positions DEF RInv
            <4>3. p \notin left
                BY <4>1, <4>2, <1>1 DEF RInv, ClosingStages, ShuttingDown
            <4>4. QED
                BY <4>1, <4>2, <4>3, <1>1, <1>3 DEF RInv, ClosingStages, ShuttingDown
        <3>2. QED
            BY <3>1, <1>6 DEF TaskDrained, StopReturns, CloseTimesOut
    <2>2. ClosingStages'
        BY <2>1, <1>1, <1>2, <1>3, Positions DEF RInv, ClosingStages, ShuttingDown
    <2>3. TaskOwned'
        BY <2>1, <1>1, <1>2, <1>3 DEF RInv, TaskOwned
    <2>4. ProvidersOutliveUsers'
        BY <2>1, <1>1, <1>2, <1>3 DEF RInv, ProvidersOutliveUsers, Live, Gone
    <2>5. TypeOK'
        BY <2>1, <1>1, <1>2, <1>3 DEF RInv, SortInv, TypeOK, Stage
    <2>6. QED
        BY <2>2, <2>3, <2>4, <2>5, <1>2, <1>4 DEF RInv
<1>7. QED
    BY <1>5, <1>6

\* What run() does not do itself: a forced exit freezes the components as they
\* are, a task that ends stays in its handle, a signal only becomes unread.
LEMMA EnvironmentInv ==
    RInv /\ (ForceExit \/ (\E i \in Idx : TaskEnds(i)) \/ (\E s \in Signal : SignalArrives(s))) => RInv'
<1> SUFFICES ASSUME RInv,
                    ForceExit \/ (\E i \in Idx : TaskEnds(i)) \/ (\E s \in Signal : SignalArrives(s))
             PROVE  RInv'
    OBVIOUS
<1>1. UNCHANGED <<sortVars, result, pos, started, stage, handle, resources, left, current>>
    BY DEF ForceExit, TaskEnds, SignalArrives
<1>2. /\ SortInv' /\ Idx' = Idx /\ order' = order /\ reg' = reg /\ sort' = sort
      /\ \A j : Needs(j)' = Needs(j) /\ ProvidedBy(j)' = ProvidedBy(j)
    BY <1>1, SortVarsKept DEF RInv
<1>3. ProvidersOutliveUsers'
    BY <1>1, <1>2 DEF RInv, ProvidersOutliveUsers, Live, Gone
<1>4. CASE ForceExit
    <2>1. /\ phase \in {"delay", "stopping"} /\ phase' = "killed" /\ unread' \subseteq unread
          /\ UNCHANGED <<task, sent>>
        BY <1>4 DEF ForceExit
    <2>2. SortedFirst' /\ ForwardStages' /\ ClosingStages' /\ MapIsProvided' /\ TaskOwned'
        BY <2>1, <1>1, <1>2 DEF RInv, SortedFirst, ForwardStages, ClosingStages, ShuttingDown, MapIsProvided,
                                Forward, TaskOwned
    <2>3. TypeOK'
        BY <2>1, <1>1, <1>2 DEF RInv, SortInv, TypeOK, Phase
    <2>4. QED
        BY <2>2, <2>3, <1>2, <1>3 DEF RInv
<1>5. ASSUME NEW i \in Idx, TaskEnds(i)
      PROVE  RInv'
    <2>1. /\ task[i] = "running" /\ task' = [task EXCEPT ![i] = "ended"]
          /\ UNCHANGED <<phase, unread, sent>>
        BY <1>5 DEF TaskEnds
    <2>2. SortedFirst' /\ ForwardStages' /\ ClosingStages' /\ MapIsProvided'
        BY <2>1, <1>1, <1>2 DEF RInv, SortedFirst, ForwardStages, ClosingStages, ShuttingDown, MapIsProvided
    <2>3. TaskOwned' /\ TypeOK'
        BY <2>1, <1>1, <1>2 DEF RInv, SortInv, TypeOK, TaskOwned
    <2>4. QED
        BY <2>2, <2>3, <1>2, <1>3 DEF RInv
<1>6. ASSUME NEW s \in Signal, SignalArrives(s)
      PROVE  RInv'
    <2>1. /\ unread' = unread \cup {s} /\ sent' = sent + 1
          /\ UNCHANGED <<phase, task>>
        BY <1>6 DEF SignalArrives
    <2>2. SortedFirst' /\ ForwardStages' /\ ClosingStages' /\ MapIsProvided'
        BY <2>1, <1>1, <1>2 DEF RInv, SortedFirst, ForwardStages, ClosingStages, ShuttingDown, MapIsProvided
    <2>3. TaskOwned' /\ TypeOK'
        BY <2>1, <1>1, <1>2 DEF RInv, SortInv, TypeOK, TaskOwned
    <2>4. QED
        BY <2>2, <2>3, <1>2, <1>3 DEF RInv
<1>7. QED
    BY <1>4, <1>5, <1>6

\* Every step keeps the invariant.
LEMMA NextInv == RInv /\ [Next]_vars => RInv'
<1> SUFFICES ASSUME RInv, [Next]_vars PROVE RInv'
    OBVIOUS
<1>1. CASE Starting
    BY <1>1, SortPhaseInv, PhaseInv, StartOkInv, StartErrInv, LeavingInv DEF Starting
<1>2. CASE Activation
    BY <1>2, ActivateInv, LeavingInv, PhaseInv DEF Activation
<1>3. CASE Running
    BY <1>3, LeavingInv DEF Running
<1>4. CASE Closing
    BY <1>4, CloseNextInv, ClosingInv DEF Closing
<1>5. CASE ForceExit \/ (\E i \in Idx : TaskEnds(i)) \/ (\E s \in Signal : SignalArrives(s))
    BY <1>5, EnvironmentInv
<1>6. CASE UNCHANGED vars
    <2>1. UNCHANGED sortVars
          /\ UNCHANGED <<phase, result, pos, started, stage, task, handle, resources, unread, sent, left, current>>
        BY <1>6 DEF vars
    <2>2. /\ SortInv' /\ Idx' = Idx /\ order' = order /\ reg' = reg /\ sort' = sort
          /\ \A j : Needs(j)' = Needs(j) /\ ProvidedBy(j)' = ProvidedBy(j)
        BY <2>1, SortVarsKept DEF RInv
    <2>3. TypeOK' /\ TaskOwned' /\ ProvidersOutliveUsers'
        BY <2>1, <2>2 DEF RInv, SortInv, TypeOK, TaskOwned, ProvidersOutliveUsers, Live, Gone
    <2>4. SortedFirst' /\ ForwardStages' /\ ClosingStages' /\ MapIsProvided'
        BY <2>1, <2>2 DEF RInv, SortedFirst, ForwardStages, ClosingStages, ShuttingDown, MapIsProvided
    <2>5. QED
        BY <2>2, <2>3, <2>4 DEF RInv
<1>7. QED
    BY <1>1, <1>2, <1>3, <1>4, <1>5, <1>6 DEF Next

\* The inductive invariant holds throughout, for every registration.
THEOREM RegistryInvariant == Spec => []RInv
<1>1. Init => RInv
    BY InitInv
<1>2. RInv /\ [Next]_vars => RInv'
    BY NextInv
<1>3. QED
    BY <1>1, <1>2, PTL DEF Spec
-----------------------------------------------------------------------------
\* run() keeps its types.
THEOREM TypeCorrect == Spec => []TypeOK
<1>1. RInv => TypeOK
    BY DEF RInv
<1>2. QED
    BY <1>1, RegistryInvariant, PTL

\* Whatever fails and whoever interrupts: no pool is closed under its users.
THEOREM ProvidersOutliveUsersCorrect == Spec => []ProvidersOutliveUsers
<1>1. RInv => ProvidersOutliveUsers
    BY DEF RInv
<1>2. QED
    BY <1>1, RegistryInvariant, PTL

\* stop() never overlaps the component's own task.
THEOREM StopAfterTaskCorrect == Spec => []StopAfterTask
<1>1. RInv => StopAfterTask
    BY DEF RInv, TaskOwned, StopAfterTask
<1>2. QED
    BY <1>1, RegistryInvariant, PTL

\* Closing keeps its order, whatever fails and whoever interrupts.
THEOREM ClosedInOrderCorrect == Spec => []ClosedInOrder
<1>1. ProvidersOutliveUsers /\ StopAfterTask => ClosedInOrder
    BY DEF ClosedInOrder
<1>2. QED
    BY <1>1, ProvidersOutliveUsersCorrect, StopAfterTaskCorrect, PTL

\* run() returns with everything it started closed and no task left alone.
THEOREM NothingLeftRunningCorrect == Spec => []NothingLeftRunning
<1>1. RInv => NothingLeftRunning
    <2>1. SUFFICES ASSUME RInv, phase = "returned", NEW i \in Idx
                   PROVE  stage[i] \in {"added", "failed", "closed", "timedout"} /\ task[i] # "running"
        BY DEF NothingLeftRunning
    <2>2. stage[i] \in {"added", "failed", "closed", "timedout"}
        <3>1. CASE result = "SortFailed"
            BY <3>1, <2>1 DEF RInv, SortedFirst
        <3>2. CASE result # "SortFailed"
            <4>1. sort = "sorted" /\ left = {} /\ current = 0 /\ 0 \notin Idx
                BY <3>2, <2>1 DEF RInv, SortedFirst, ClosingStages, ShuttingDown, Idx
            <4>2. PICK p \in 1 .. Len(order) : order[p] = i
                BY <4>1, <2>1, Positions DEF RInv
            <4>3. QED
                BY <4>1, <4>2, <3>2, <2>1 DEF RInv, ClosingStages, ShuttingDown
        <3>3. QED
            BY <3>1, <3>2
    <2>3. QED
        BY <2>1, <2>2 DEF RInv, TaskOwned
<1>2. QED
    BY <1>1, RegistryInvariant, PTL

\* What a component declared is there when it is called, and only once.
THEOREM ResourcesAreThereCorrect == Spec => []ResourcesAreThere
<1>1. RInv => ResourcesAreThere
    <2> SUFFICES ASSUME RInv PROVE ResourcesAreThere
        OBVIOUS
    <2>1. ASSUME phase \in Forward
          PROVE  /\ sort = "sorted" /\ ~HasDuplicate /\ ~HasMissing
                 /\ \A i \in Idx : \A r \in Range(reg[i].dependsOn) : \E j \in Needs(i) : r \in ProvidedBy(j)
        <3>1. sort = "sorted" /\ ~HasDuplicate /\ ~HasMissing
            BY <2>1 DEF RInv, SortedFirst, SortInv, GraphIsChecked, Built, Forward
        <3>2. QED
            BY <3>1 DEF HasMissing, Needs, Provides, ProvidedBy
    <2>2. ASSUME ~HasDuplicate, NEW i \in Idx, NEW j \in Idx, NEW r \in ProvidedBy(i) \cap ProvidedBy(j)
          PROVE  i = j
        BY <2>2 DEF HasDuplicate, ProvidedBy, Range
    <2>3. ASSUME phase = "starting", started < Len(order)
          PROVE  LET i == order[started + 1]
                 IN  /\ ~reg[i].deferred => Range(reg[i].dependsOn) \subseteq resources
                     /\ ProvidedBy(i) \cap resources = {}
        <3> DEFINE i == order[started + 1]
        <3>1. /\ sort = "sorted" /\ started \in Nat /\ started + 1 \in 1 .. Len(order) /\ i \in Idx
              /\ \A p \in 1 .. Len(order) : order[p] \in Idx /\ (order[p] = i => p = started + 1)
              /\ \A d \in Deps(i) : \E q \in 1 .. started : order[q] = d
            <4>1. sort = "sorted" /\ SortInv /\ started \in 0 .. Len(order)
                BY <2>1, <2>3 DEF RInv, TypeOK, Forward
            <4>2. started \in Nat /\ started + 1 \in 1 .. Len(order) /\ (started + 1) - 1 = started
                BY <4>1, <2>3, Positions
            <4>3. \A d \in Deps(i) : \E q \in 1 .. ((started + 1) - 1) : order[q] = d
                BY <4>1, <4>2, Positions
            <4>4. QED
                BY <4>1, <4>2, <4>3, Positions
        <3>2. ASSUME ~reg[i].deferred, NEW r \in Range(reg[i].dependsOn)
              PROVE  r \in resources
            <4>1. PICK j \in Needs(i) : r \in ProvidedBy(j)
                BY <2>1, <2>3, <3>1 DEF Forward
            <4>2. j \in Deps(i)
                BY <4>1, <3>2 DEF Deps
            <4>3. PICK q \in 1 .. started : order[q] = j
                BY <4>2, <3>1
            <4>4. QED
                BY <4>1, <4>3, <2>3 DEF RInv, MapIsProvided, Forward
        <3>3. ASSUME NEW r \in ProvidedBy(i) \cap resources
              PROVE  FALSE
            <4>1. PICK p \in 1 .. started : r \in ProvidedBy(order[p])
                BY <2>3, <3>3 DEF RInv, MapIsProvided
            <4>2. p \in 1 .. Len(order) /\ order[p] \in Idx /\ p # started + 1
                BY <3>1, <2>3
            <4>3. order[p] = i
                BY <4>1, <4>2, <3>1, <3>3, <2>1, <2>2, <2>3 DEF Forward
            <4>4. QED
                BY <4>2, <4>3, <3>1
        <3>4. QED
            BY <3>2, <3>3
    <2>4. ASSUME phase \in {"before_activate", "activating", "on_ready", "running"}, NEW i \in Idx
          PROVE  ProvidedBy(i) \cup Range(reg[i].dependsOn) \subseteq resources
        <3>1. phase \in Forward /\ sort = "sorted" /\ started = Len(order)
            BY <2>1, <2>4 DEF RInv, ForwardStages, Forward
        <3>2. ASSUME NEW j \in Idx PROVE ProvidedBy(j) \subseteq resources
            <4>1. PICK p \in 1 .. Len(order) : order[p] = j
                BY <3>1, Positions DEF RInv
            <4>2. QED
                BY <4>1, <3>1 DEF RInv, MapIsProvided
        <3>3. Needs(i) \subseteq Idx
            BY DEF Needs
        <3>4. Range(reg[i].dependsOn) \subseteq resources
            BY <2>1, <3>1, <3>2, <3>3
        <3>5. QED
            BY <3>2, <3>4
    <2>5. QED
        BY <2>3, <2>4 DEF ResourcesAreThere
<1>2. QED
    BY <1>1, RegistryInvariant, PTL
-----------------------------------------------------------------------------
(* Registry implements Lifecycle.                                          *)

\* Nobody serves before its turn in the second phase.
ServesInTurn ==
    phase \in {"starting", "before_activate", "activating"} =>
        /\ phase # "activating" => pos = 0
        /\ \A p \in 1 .. Len(order) : p > pos => stage[order[p]] # "active"

\* At first nobody serves.
LEMMA InitServesInTurn == Init => ServesInTurn
BY DEF Init, ServesInTurn

\* activate() follows the start order.
LEMMA NextServesInTurn == RInv /\ ServesInTurn /\ [Next]_vars => ServesInTurn'
<1> SUFFICES ASSUME RInv, ServesInTurn, [Next]_vars PROVE ServesInTurn'
    OBVIOUS
<1>1. CASE phase = "sorting"
    <2>1. CASE Sorted
        <3>1. phase' = "starting" /\ pos' = 0 /\ UNCHANGED <<sortVars, stage>> /\ sort = "sorted"
            BY <2>1, <1>1 DEF Sorted, RInv, SortedFirst
        <3>2. order' = order /\ \A p \in 1 .. Len(order) : order[p] \in Idx
            BY <3>1, Positions DEF RInv, sortVars
        <3> QED BY <1>1, <3>1, <3>2 DEF ServesInTurn, RInv, SortedFirst
    <2>2. CASE ~Sorted
        <3>1. phase' \in {"sorting", "returned"}
            BY <1>1, <2>2
            DEF Next, vars, Starting, Sort, SortFails, StartOk, StartErr, AllStarted, HookOk, HookErr, Activation,
                SkipImmediate, ActivateOk, ActivateErr, AllActive, Activating, Running, ReceiveSignal,
                NoticeTaskExit, DelayElapses, Closing, CloseNext, TaskDrained, StopReturns, CloseTimesOut,
                ShutdownDone, ForceExit, TaskEnds, SignalArrives
        <3> QED BY <3>1 DEF ServesInTurn
    <2> QED BY <2>1, <2>2
<1>2. CASE phase = "starting"
    <2>1. CASE StartOk
        <3>1. /\ pos' = pos /\ UNCHANGED sortVars /\ phase' \in {"starting", "stopping"}
              /\ stage' = [stage EXCEPT ![order[started + 1]] = "up"]
            BY <2>1, <1>2 DEF StartOk, Shutdown
        <3>2. order' = order /\ sort = "sorted" /\ stage \in [Idx -> Stage]
            BY <1>2, <3>1 DEF sortVars, RInv, SortedFirst, TypeOK
        <3>3. \A p \in 1 .. Len(order) : order[p] \in Idx
            BY <3>2, Positions DEF RInv
        <3> QED BY <1>2, <3>1, <3>2, <3>3 DEF ServesInTurn
    <2>2. CASE ~StartOk
        <3>1. \/ phase' = "stopping"
              \/ /\ phase' \in {"starting", "before_activate"} /\ pos' = pos /\ stage' = stage /\ order' = order
            BY <1>2, <2>2
            DEF Next, vars, sortVars, Starting, Sort, Sorted, SortFails, StartErr, Shutdown, AllStarted, HookOk,
                HookErr, Activation, SkipImmediate, ActivateOk, ActivateErr, AllActive, Activating, Running,
                ReceiveSignal, NoticeTaskExit, DelayElapses, Closing, CloseNext, TaskDrained, StopReturns,
                CloseTimesOut, ShutdownDone, ForceExit, TaskEnds, SignalArrives
        <3> QED BY <1>2, <3>1 DEF ServesInTurn
    <2> QED BY <2>1, <2>2
<1>3. CASE phase \in {"before_activate", "activating"}
    <2>1. CASE ActivateOk
        <3>1. /\ phase = "activating" /\ phase' = "activating" /\ pos' = pos + 1 /\ UNCHANGED sortVars
              /\ stage' = [stage EXCEPT ![order[pos + 1]] = "active"] /\ pos < Len(order)
            BY <2>1 DEF ActivateOk, Activating, Stay
        <3>2. order' = order /\ sort = "sorted" /\ stage \in [Idx -> Stage] /\ pos \in Nat
            BY <1>3, <3>1, Positions DEF sortVars, RInv, SortedFirst, TypeOK
        <3>3. /\ Len(order) \in Nat /\ \A p \in 1 .. Len(order) : order[p] \in Idx
              /\ \A p, q \in 1 .. Len(order) : order[p] = order[q] => p = q
            BY <3>2, Positions DEF RInv
        <3>4. ASSUME NEW p \in 1 .. Len(order), p > pos + 1 PROVE stage'[order[p]] # "active"
            <4>1. pos + 1 \in 1 .. Len(order) /\ p > pos /\ p # pos + 1
                BY <3>1, <3>2, <3>3, <3>4
            <4>2. order[p] # order[pos + 1]
                BY <3>3, <4>1
            <4> QED BY <1>3, <3>1, <3>2, <3>3, <4>1, <4>2 DEF ServesInTurn
        <3> QED BY <3>1, <3>2, <3>4 DEF ServesInTurn
    <2>2. CASE ~ActivateOk
        <3>1. \/ phase' \in {"stopping", "on_ready"}
              \/ /\ phase' \in {"before_activate", "activating"} /\ stage' = stage /\ order' = order
                 /\ pos' \in {pos, pos + 1}
                 /\ phase = "before_activate" \/ phase' = "before_activate" => pos' = pos
                 /\ phase' = "before_activate" => phase = phase'
            BY <1>3, <2>2
            DEF Next, vars, sortVars, Starting, Sort, Sorted, SortFails, StartOk, StartErr, Shutdown, AllStarted,
                HookOk, HookErr, Activation, SkipImmediate, ActivateErr, AllActive, Activating, Stay, Running,
                ReceiveSignal, NoticeTaskExit, DelayElapses, Closing, CloseNext, TaskDrained, StopReturns,
                CloseTimesOut, ShutdownDone, ForceExit, TaskEnds, SignalArrives
        <3>2. pos \in Nat /\ Len(order) \in Nat
            BY <1>3, Positions DEF RInv, SortedFirst, TypeOK
        <3>3. CASE phase' \in {"stopping", "on_ready"}
            BY <3>3 DEF ServesInTurn
        <3>4. CASE phase' \in {"before_activate", "activating"} /\ stage' = stage /\ order' = order
            <4>1. phase' = "before_activate" => pos' = 0
                BY <1>3, <3>1, <3>4 DEF ServesInTurn
            <4>2. \A p \in 1 .. Len(order) : p > pos' => p > pos
                BY <3>1, <3>2, <3>4
            <4> QED BY <1>3, <3>4, <4>1, <4>2 DEF ServesInTurn
        <3> QED BY <3>1, <3>3, <3>4
    <2> QED BY <2>1, <2>2
<1>4. CASE phase \notin {"sorting", "starting", "before_activate", "activating"}
    <2>1. phase' \notin {"starting", "before_activate", "activating"}
        BY <1>4
        DEF Next, vars, Starting, Sort, Sorted, SortFails, StartOk, StartErr, Shutdown, AllStarted, HookOk, HookErr,
            Activation, SkipImmediate, ActivateOk, ActivateErr, AllActive, Activating, Running, ReceiveSignal,
            NoticeTaskExit, DelayElapses, Closing, CloseNext, TaskDrained, StopReturns, CloseTimesOut,
            ShutdownDone, ForceExit, TaskEnds, SignalArrives
    <2> QED BY <2>1 DEF ServesInTurn
<1> QED BY <1>1, <1>2, <1>3, <1>4

\* A step that changes what one component is to Lifecycle.
LEMMA LifeChanges ==
    ASSUME reg' = reg, phase \notin Ended, phase' \notin Ended, NEW i \in Idx, NEW to, LifeOf(i)' = to,
           \A j \in Idx : j # i => LifeOf(j)' = LifeOf(j)
    PROVE  Promise!Change(i, to)
<1>1. Idx' = Idx /\ \A j : Needs(j)' = Needs(j)
    BY DEF Idx, Needs, Provides
<1> QED BY <1>1 DEF Promise!Change, Ended

\* One that changes nothing to it.
LEMMA LifeStays ==
    ASSUME reg' = reg, phase' = phase \/ (phase \notin Ended /\ phase' \notin Ended),
           \A j \in Idx : LifeOf(j)' = LifeOf(j)
    PROVE  UNCHANGED Promise!lifeVars
<1>1. Idx' = Idx /\ \A j : Needs(j)' = Needs(j)
    BY DEF Idx, Needs, Provides
<1> QED BY <1>1 DEF Promise!lifeVars, Ended

\* And one that ends the application.
LEMMA LifeEnds ==
    ASSUME reg' = reg, phase \notin Ended, phase' \in Ended, stage' = stage,
           phase' = "returned" => \A j \in Idx : LifeOf(j) \in {"down", "closed"}
    PROVE  Promise!Finish \/ Promise!Kill
<1>1. Idx' = Idx /\ \A j : Needs(j)' = Needs(j) /\ LifeOf(j)' = LifeOf(j)
    BY DEF Idx, Needs, Provides, LifeOf
<1> QED BY <1>1 DEF Promise!Finish, Promise!Kill, Ended

\* At first everything is down in the abstract lifecycle too.
LEMMA InitPromise == Init => Promise!Init
BY DEF Init, Promise!Init, LifeOf, Needs, Idx

\* A component comes up: those before it in the order are up, its providers among them.
LEMMA StartOkPromise == RInv /\ ServesInTurn /\ StartOk => [Promise!Next]_Promise!lifeVars
<1> SUFFICES ASSUME RInv, ServesInTurn, StartOk PROVE Promise!Next
    OBVIOUS
<1>0. PICK i : i = order[started + 1]
    OBVIOUS
<1>1. /\ phase = "starting" /\ phase' \in {"starting", "stopping"} /\ started < Len(order)
      /\ stage' = [stage EXCEPT ![i] = "up"] /\ UNCHANGED sortVars
    BY <1>0 DEF StartOk, Shutdown
<1>2. /\ sort = "sorted" /\ reg' = reg /\ SortInv /\ started \in 0 .. Len(order)
      /\ stage \in [Idx -> Stage]
    BY <1>1 DEF RInv, SortedFirst, TypeOK, sortVars
<1>3. /\ started \in Nat /\ started + 1 \in 1 .. Len(order) /\ (started + 1) - 1 = started
      /\ \A p \in 1 .. started : p \in 1 .. Len(order)
    BY <1>1, <1>2, Positions
<1>4. i \in Idx /\ stage[i] = "added"
    BY <1>0, <1>1, <1>2, <1>3, Positions DEF RInv, ForwardStages, Forward
<1>5. \A p \in 1 .. started : stage[order[p]] = "up"
    <2> SUFFICES ASSUME NEW p \in 1 .. started PROVE stage[order[p]] = "up"
        OBVIOUS
    <2>1. p \in 1 .. Len(order) /\ p <= started /\ p > pos
        BY <1>1, <1>3 DEF ServesInTurn
    <2> QED BY <1>1, <2>1 DEF RInv, ForwardStages, ServesInTurn, Forward
<1>6. ASSUME NEW j \in Idx PROVE LifeOf(j) \in {"down", "up"}
    <2>1. PICK p \in 1 .. Len(order) : order[p] = j
        BY <1>2, Positions
    <2>2. CASE p <= started
        <3>1. p \in 1 .. started
            BY <1>3, <2>2
        <3> QED BY <1>5, <2>1, <3>1 DEF LifeOf
    <2>3. CASE ~(p <= started)
        BY <1>1, <2>1, <2>3 DEF RInv, ForwardStages, Forward, LifeOf
    <2> QED BY <2>2, <2>3
<1>7. ASSUME ~reg[i].deferred, NEW j \in Needs(i) PROVE LifeOf(j) = "up"
    <2>1. j \in Deps(i)
        BY <1>7 DEF Deps
    <2>2. \A d \in Deps(order[started + 1]) : \E q \in 1 .. ((started + 1) - 1) : order[q] = d
        BY <1>2, <1>3, Positions
    <2>3. PICK p \in 1 .. started : order[p] = j
        BY <1>0, <1>3, <2>1, <2>2
    <2> QED BY <1>5, <2>3 DEF LifeOf
<1>8. Promise!Change(i, "up")
    <2>1. LifeOf(i)' = "up" /\ \A j \in Idx : j # i => LifeOf(j)' = LifeOf(j)
        BY <1>1, <1>2, <1>4 DEF LifeOf
    <2>2. phase \notin Ended /\ phase' \notin Ended
        BY <1>1 DEF Ended
    <2> QED BY <1>2, <1>4, <2>1, <2>2, LifeChanges
<1>9. LifeOf(i) = "down"
    BY <1>4 DEF LifeOf
<1>10. Needs(i) \subseteq Idx
    BY DEF Needs
<1>11. Promise!ComeUp(i)
    BY <1>4, <1>6, <1>7, <1>8, <1>9, <1>10 DEF Promise!ComeUp, Promise!StartupReads
<1> QED BY <1>4, <1>11 DEF Promise!Next

\* A Deferred component serves when all are up.
LEMMA ActivateOkPromise == RInv /\ ServesInTurn /\ ActivateOk => [Promise!Next]_Promise!lifeVars
<1> SUFFICES ASSUME RInv, ServesInTurn, ActivateOk PROVE Promise!Next
    OBVIOUS
<1>0. PICK i : i = order[pos + 1]
    OBVIOUS
<1>1. /\ phase = "activating" /\ phase' = phase /\ pos < Len(order) /\ reg[i].deferred
      /\ stage' = [stage EXCEPT ![i] = "active"] /\ UNCHANGED sortVars
    BY <1>0 DEF ActivateOk, Activating, Stay
<1>2. /\ sort = "sorted" /\ reg' = reg /\ SortInv /\ started = Len(order) /\ pos \in 0 .. Len(order)
      /\ stage \in [Idx -> Stage]
    BY <1>1 DEF RInv, SortedFirst, ForwardStages, Forward, TypeOK, sortVars
<1>3. pos + 1 \in 1 .. Len(order) /\ pos + 1 > pos
    BY <1>1, <1>2, Positions
<1>4. i \in Idx
    BY <1>0, <1>2, <1>3, Positions
<1>5. ASSUME NEW j \in Idx PROVE stage[j] \in {"up", "active"}
    <2>1. PICK p \in 1 .. Len(order) : order[p] = j
        BY <1>2, Positions
    <2>2. p <= started
        BY <1>2, Positions
    <2> QED BY <1>1, <2>1, <2>2 DEF RInv, ForwardStages, Forward
<1>6. stage[i] = "up"
    BY <1>0, <1>1, <1>3, <1>4, <1>5 DEF ServesInTurn
<1>7. Promise!Change(i, "serving")
    <2>1. LifeOf(i)' = "serving" /\ \A j \in Idx : j # i => LifeOf(j)' = LifeOf(j)
        BY <1>1, <1>2, <1>4 DEF LifeOf
    <2>2. phase \notin Ended /\ phase' \notin Ended
        BY <1>1 DEF Ended
    <2> QED BY <1>2, <1>4, <2>1, <2>2, LifeChanges
<1>8. LifeOf(i) = "up" /\ \A j \in Idx : LifeOf(j) \in {"up", "serving"}
    BY <1>5, <1>6 DEF LifeOf
<1>9. Promise!Serve(i)
    BY <1>1, <1>4, <1>7, <1>8 DEF Promise!Serve
<1> QED BY <1>4, <1>9 DEF Promise!Next

\* A component's closing begins when no other is being closed and nobody uses it any more.
LEMMA CloseNextPromise == RInv /\ RInv' /\ CloseNext => [Promise!Next]_Promise!lifeVars
<1> SUFFICES ASSUME RInv, RInv', CloseNext PROVE Promise!Next
    OBVIOUS
<1>1. PICK i : /\ i = order[NextToClose] /\ current' = i
               /\ stage' = [stage EXCEPT ![i] = IF handle[i] THEN "draining" ELSE "stopping"]
    BY DEF CloseNext
<1>2. /\ phase = "stopping" /\ phase' = phase /\ current = 0 /\ UNCHANGED sortVars
      /\ left' = left \ {NextToClose}
    BY DEF CloseNext
<1>3. /\ sort = "sorted" /\ reg' = reg /\ Idx' = Idx /\ SortInv /\ stage \in [Idx -> Stage]
      /\ \A j : Needs(j)' = Needs(j)
    BY <1>2, SortVarsKept DEF RInv, SortedFirst, TypeOK
<1>4. /\ NextToClose \in left /\ NextToClose \in 1 .. Len(order)
      /\ i \in Idx
    <2>1. NextToClose \in left /\ left \subseteq 1 .. Len(order)
        BY <1>2, NextToCloseProperties DEF CloseNext, RInv, TypeOK
    <2> QED BY <1>1, <1>3, <2>1, Positions
<1>5. 0 \notin Idx
    BY DEF Idx
<1>6. stage[i] \in {"up", "active"}
    BY <1>1, <1>2, <1>4 DEF RInv, TypeOK, ClosingStages, ShuttingDown
<1>7. ASSUME NEW j \in Idx PROVE LifeOf(j) # "closing"
    <2>1. PICK p \in 1 .. Len(order) : order[p] = j
        BY <1>3, Positions
    <2>2. stage[j] \in {"up", "active", "added", "failed", "closed", "timedout"}
        BY <1>2, <1>5, <2>1 DEF RInv, ClosingStages, ShuttingDown
    <2> QED BY <2>2 DEF LifeOf
<1>8. /\ stage'[i] \in {"draining", "stopping"}
      /\ \A j \in Idx : j # i => stage'[j] = stage[j]
    BY <1>1, <1>3, <1>4
<1>9. ASSUME ~reg[i].deferred, NEW j \in Idx, i \in Needs(j) PROVE LifeOf(j) \in {"down", "closed"}
    <2>1. ~Live(j)'
        BY <1>3, <1>4, <1>8, <1>9 DEF RInv, ProvidersOutliveUsers, Gone
    <2>2. j # i /\ stage[j] \in {"added", "failed", "closed", "timedout"}
        BY <1>3, <1>8, <2>1 DEF Live, Stage
    <2> QED BY <2>2 DEF LifeOf
<1>10. Promise!Change(i, "closing")
    <2>1. LifeOf(i)' = "closing" /\ \A j \in Idx : j # i => LifeOf(j)' = LifeOf(j)
        BY <1>8 DEF LifeOf
    <2>2. phase \notin Ended /\ phase' \notin Ended
        BY <1>2 DEF Ended
    <2> QED BY <1>3, <1>4, <2>1, <2>2, LifeChanges
<1>11. LifeOf(i) \in {"up", "serving"}
    BY <1>6 DEF LifeOf
<1>12. Promise!BeginClose(i)
    BY <1>4, <1>7, <1>9, <1>10, <1>11 DEF Promise!BeginClose, Promise!Users
<1> QED BY <1>4, <1>12 DEF Promise!Next

\* The end of a closing, and of the application.
LEMMA ClosingPromise ==
    RInv /\ (TaskDrained \/ StopReturns \/ CloseTimesOut \/ ShutdownDone) => [Promise!Next]_Promise!lifeVars
<1> SUFFICES ASSUME RInv, TaskDrained \/ StopReturns \/ CloseTimesOut \/ ShutdownDone
             PROVE  [Promise!Next]_Promise!lifeVars
    OBVIOUS
<1>1. phase = "stopping" /\ UNCHANGED sortVars
    BY DEF TaskDrained, StopReturns, CloseTimesOut, ShutdownDone
<1>2. /\ sort = "sorted" /\ reg' = reg /\ SortInv /\ stage \in [Idx -> Stage]
      /\ current \in Idx \cup {0} /\ 0 \notin Idx
    BY <1>1 DEF RInv, SortedFirst, TypeOK, sortVars, Idx
<1>3. CASE current # 0 /\ (StopReturns \/ CloseTimesOut)
    <2>0. PICK i : i = current
        OBVIOUS
    <2>1. PICK p \in 1 .. Len(order) : order[p] = i
        BY <1>2, <1>3, <2>0, Positions
    <2>2. i \in Idx /\ stage[i] \in {"draining", "stopping"}
        BY <1>1, <1>2, <1>3, <2>0, <2>1 DEF RInv, ClosingStages, ShuttingDown
    <2>3. /\ phase' = phase /\ stage'[i] \in {"closed", "timedout"}
          /\ \A j \in Idx : j # i => stage'[j] = stage[j]
        BY <1>2, <1>3, <2>0, <2>2 DEF StopReturns, CloseTimesOut
    <2>4. Promise!Change(i, "closed")
        <3>1. LifeOf(i)' = "closed" /\ \A j \in Idx : j # i => LifeOf(j)' = LifeOf(j)
            BY <2>3 DEF LifeOf
        <3>2. phase \notin Ended /\ phase' \notin Ended
            BY <1>1, <2>3 DEF Ended
        <3> QED BY <1>2, <2>2, <3>1, <3>2, LifeChanges
    <2>5. LifeOf(i) = "closing"
        BY <2>2 DEF LifeOf
    <2>6. Promise!EndClose(i)
        BY <2>4, <2>5, <2>2 DEF Promise!EndClose
    <2> QED BY <2>2, <2>6 DEF Promise!Next
<1>4. CASE TaskDrained
    <2>1. /\ phase' = phase /\ current # 0 /\ stage[current] = "draining"
          /\ stage' = [stage EXCEPT ![current] = "stopping"]
        BY <1>4 DEF TaskDrained
    <2>2. \A j \in Idx : LifeOf(j)' = LifeOf(j)
        BY <1>2, <2>1 DEF LifeOf
    <2> QED BY <1>2, <2>1, <2>2, LifeStays
<1>5. CASE ShutdownDone
    <2>1. phase' = "returned" /\ stage' = stage /\ left = {} /\ current = 0
        BY <1>5 DEF ShutdownDone
    <2>2. ASSUME NEW j \in Idx PROVE LifeOf(j) \in {"down", "closed"}
        <3>1. PICK p \in 1 .. Len(order) : order[p] = j
            BY <1>2, Positions
        <3>2. stage[j] \in {"added", "failed", "closed", "timedout"}
            BY <1>1, <1>2, <2>1, <3>1 DEF RInv, ClosingStages, ShuttingDown
        <3> QED BY <3>2 DEF LifeOf
    <2>3. phase \notin Ended /\ phase' \in Ended
        BY <1>1, <2>1 DEF Ended
    <2> QED BY <1>2, <2>1, <2>2, <2>3, LifeEnds DEF Promise!Next
<1> QED BY <1>3, <1>4, <1>5 DEF StopReturns, CloseTimesOut

\* A step that moves run() on and no component.
LEMMA QuietPromise ==
    ASSUME UNCHANGED <<reg, stage>>, phase' = phase \/ (phase \notin Ended /\ phase' \notin Ended)
    PROVE  UNCHANGED Promise!lifeVars
<1>1. \A j \in Idx : LifeOf(j)' = LifeOf(j)
    BY DEF LifeOf
<1> QED BY <1>1, LifeStays

\* Every step of run() is one that Lifecycle allows, or none to it.
LEMMA NextPromise == RInv /\ RInv' /\ ServesInTurn /\ [Next]_vars => [Promise!Next]_Promise!lifeVars
<1> SUFFICES ASSUME RInv, RInv', ServesInTurn, [Next]_vars PROVE [Promise!Next]_Promise!lifeVars
    OBVIOUS
<1>1. CASE Sort
    BY <1>1, QuietPromise
    DEF Sort, SortStep, RejectDuplicate, RejectMissing, BuildGraph, PlaceNext, FinishSort, RejectCycle
<1>2. CASE SortFails
    <2>1. phase = "sorting" /\ phase' = "returned" /\ UNCHANGED <<reg, stage>>
        BY <1>2 DEF SortFails, sortVars
    <2>2. \A j \in Idx : LifeOf(j) \in {"down", "closed"}
        BY <2>1 DEF RInv, SortedFirst, LifeOf
    <2> QED BY <2>1, <2>2, LifeEnds DEF Ended, Promise!Next
<1>3. CASE \/ Sorted \/ AllStarted \/ HookOk \/ HookErr \/ SkipImmediate \/ ActivateErr \/ AllActive
           \/ ReceiveSignal \/ NoticeTaskExit \/ DelayElapses
    <2>1. UNCHANGED <<reg, stage>> /\ phase \notin Ended /\ phase' \notin Ended
        BY <1>3 DEF Sorted, AllStarted, HookOk, HookErr, SkipImmediate, ActivateErr, AllActive, Activating, Stay,
                    ReceiveSignal, NoticeTaskExit, DelayElapses, Shutdown, sortVars, Ended
    <2> QED BY <2>1, QuietPromise
<1>4. CASE StartErr
    <2> DEFINE i == order[started + 1]
    <2>1. /\ phase = "starting" /\ phase' = "stopping" /\ reg' = reg /\ started < Len(order)
          /\ stage' \in {[stage EXCEPT ![i] = "failed"]}
        BY <1>4 DEF StartErr, Shutdown, sortVars
    <2>2. started + 1 \in 1 .. Len(order) /\ ~(started + 1 <= started)
        BY <2>1, Positions DEF RInv, TypeOK, SortedFirst
    <2>3. stage \in [Idx -> Stage] /\ stage[i] = "added"
        BY <2>1, <2>2 DEF RInv, TypeOK, ForwardStages, Forward
    <2>4. \A j \in Idx : LifeOf(j)' = LifeOf(j)
        BY <2>1, <2>3 DEF LifeOf
    <2> QED BY <2>1, <2>4, LifeStays DEF Ended
<1>5. CASE ForceExit
    <2>1. phase \in {"delay", "stopping"} /\ phase' = "killed" /\ UNCHANGED <<reg, stage>>
        BY <1>5 DEF ForceExit, sortVars
    <2> QED BY <2>1, LifeEnds DEF Ended, Promise!Next
<1>6. CASE (\E i \in Idx : TaskEnds(i)) \/ (\E s \in Signal : SignalArrives(s)) \/ UNCHANGED vars
    <2>1. UNCHANGED <<reg, stage, phase>>
        BY <1>6 DEF TaskEnds, SignalArrives, vars, sortVars
    <2> QED BY <2>1, QuietPromise
<1> QED
    BY <1>1, <1>2, <1>3, <1>4, <1>5, <1>6, StartOkPromise, ActivateOkPromise, CloseNextPromise, ClosingPromise
    DEF Next, Starting, Activation, Running, Closing

\* run() keeps the promise of Lifecycle for every registration, whichever call fails, whatever
\* the tasks do and however often anybody sends a signal: what a component needs comes up
\* before it and is closed after it, nothing comes up once closing has begun, and run()
\* returns when nothing is up.
THEOREM ImplementsLifecycleCorrect == Spec => ImplementsLifecycle
<1>1. Init => Promise!Init
    BY InitPromise
<1>2. Spec => []ServesInTurn
    BY InitServesInTurn, NextServesInTurn, RegistryInvariant, PTL DEF Spec
<1>3. RInv /\ RInv' /\ ServesInTurn /\ [Next]_vars => [Promise!Next]_Promise!lifeVars
    BY NextPromise
<1> QED BY <1>1, <1>2, <1>3, RegistryInvariant, PTL DEF Spec, ImplementsLifecycle, Promise!Spec
=============================================================================

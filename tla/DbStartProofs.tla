--------------------------- MODULE DbStartProofs ---------------------------
(***************************************************************************)
(* Proofs about DbTables and DbStart, for any number of applications, of   *)
(* statements and of tables, and for every schema that may be found.       *)
(***************************************************************************)
EXTENDS DbStart, FiniteSetTheorems, TLAPS

\* How many tables, and how many parts in all, a schema has.
Width(k) == IF k = "row" THEN 1 ELSE Tables
Size(k) == IF k = "row" THEN 1 ELSE Statements

Steps == Active \cup {"idle", "ready", "refused", "failed"}
TablesTypeOK ==
  /\ backend \in {"pg", "sqlite", "mysql"}
  /\ db \in [Kinds -> AllSchemas]
  /\ ddl \in [Kinds -> Starters \cup {None}]
  /\ at \in [Starters -> [step : Steps, asked : Nat, seen : SUBSET (1..Statements), made : Nat]]

\* What is found, or made, has the parts of its kind; only PostgreSQL has details.
SchemasFit == \A k \in Kinds : db[k].parts \subseteq Parts(k) /\ (~ HasDetails(k) => db[k].fits)

\* The DDL is only run, and the lock is only kept, inside the locked section.
LockedSection ==
  \A s \in Starters :
    /\ at[s].step = "build" => Locked(s)
    /\ Locked(s) => at[s].step \in {"columns", "objects", "details", "build"}

\* A builder has made all that is there and is not through; before it begins it made nothing.
BuildersOwn ==
  \A s \in Starters :
    /\ at[s].step = "build" => db[Kind(s)].parts = 1..at[s].made /\ at[s].made < Size(Kind(s))
    /\ at[s].step \in {"columns", "objects", "wait"} => at[s].made = 0

\* What was seen is still there; inside the locked section nothing else is.
SeenIsThere ==
  \A s \in Starters :
    /\ at[s].seen \subseteq TablesOf(Kind(s)) \cap db[Kind(s)].parts
    /\ at[s].step = "columns" => at[s].asked < Width(Kind(s)) /\ (backend # "sqlite" => at[s].asked = 0)
    /\ at[s].step = "columns" /\ Locked(s) => at[s].seen = 1..at[s].asked \cap db[Kind(s)].parts
    /\ at[s].step = "objects" /\ Locked(s) => at[s].seen = TablesOf(Kind(s)) \cap db[Kind(s)].parts

\* Details are read of a schema that has all its parts, and only where there are some.
DetailsOfWhole ==
  \A s \in Starters :
    at[s].step = "details" => HasDetails(Kind(s)) /\ db[Kind(s)].parts = Parts(Kind(s)) /\ db[Kind(s)].sound

\* The inductive invariant.  That tables which are used stay whole rests on BuildersOwn: a
\* builder is never through with what it has made, so it does not touch a schema that is whole.
DInv ==
  /\ TablesTypeOK /\ SchemasFit /\ LockedSection /\ BuildersOwn /\ SeenIsThere
  /\ DetailsOfWhole /\ ReadyIsWhole

\* How many tables and statements a kind has.
LEMMA Counts ==
  ASSUME NEW k \in Kinds
  PROVE  /\ Cardinality(TablesOf(k)) = Width(k) /\ TablesOf(k) = 1..Width(k) /\ Width(k) \in Nat \ {0}
         /\ Cardinality(Parts(k)) = Size(k) /\ Parts(k) = 1..Size(k) /\ Size(k) \in Nat \ {0}
         /\ Width(k) <= Size(k) /\ Size(k) <= Statements
<1>1. /\ TablesOf(k) = 1..Width(k) /\ Width(k) \in Nat \ {0}
      /\ Parts(k) = 1..Size(k) /\ Size(k) \in Nat \ {0}
      /\ Width(k) <= Size(k) /\ Size(k) <= Statements
  <2>1. Tables \in Nat \ {0} /\ Statements \in Nat /\ Tables <= Statements
    BY DdlAssumption
  <2>2. CASE k = "row"
    BY <2>1, <2>2 DEF TablesOf, Parts, Width, Size
  <2>3. CASE k # "row"
    BY <2>1, <2>3 DEF TablesOf, Parts, Width, Size
  <2> QED BY <2>2, <2>3
<1>2. \A n \in Nat : Cardinality(1..n) = n
  <2>1. SUFFICES ASSUME NEW n \in Nat PROVE Cardinality(1..n) = n
    OBVIOUS
  <2>2. Cardinality(1..n) = IF 1 > n THEN 0 ELSE n - 1 + 1
    BY FS_Interval
  <2> QED BY <2>2
<1> QED BY <1>1, <1>2

\* At first nobody has asked for the tables, whatever schema there is.
LEMMA InitDInv == InitTables => DInv
<1> SUFFICES ASSUME InitTables PROVE DInv
  OBVIOUS
<1>1. \A s \in Starters : Kind(s) \in Kinds /\ s # None
  BY DEF Starters, Kind, None
<1>2. \A k \in Kinds : db[k] \in Schemas(k) /\ db[k] \in AllSchemas
  BY DdlAssumption DEF InitTables, Schemas, Kinds
<1>3. TablesTypeOK
  BY <1>2 DEF InitTables, TablesTypeOK, Idle, Steps, Schemas, Kinds
<1>4. SchemasFit
  BY <1>2 DEF SchemasFit, Schemas
<1>5. LockedSection /\ BuildersOwn /\ SeenIsThere /\ DetailsOfWhole /\ ReadyIsWhole
  BY <1>1 DEF InitTables, Idle, LockedSection, Locked, BuildersOwn, SeenIsThere, DetailsOfWhole, ReadyIsWhole
<1> QED BY <1>3, <1>4, <1>5 DEF DInv

\* A step of a starter that leaves the schemas as they are: what it has to show is that its
\* own place is consistent with them, and that it releases the lock, or keeps it as it was.
LEMMA ReadingDInv ==
  ASSUME DInv, NEW s \in Starters, UNCHANGED <<backend, db>>,
         NEW a \in [step : Steps, asked : Nat, seen : SUBSET (1..Statements), made : Nat],
         at' = [at EXCEPT ![s] = a],
         \/ ddl' = ddl
         \/ ddl' = [ddl EXCEPT ![Kind(s)] = IF @ = s THEN None ELSE @]
         \/ ddl[Kind(s)] = None /\ ddl' = [ddl EXCEPT ![Kind(s)] = s],
         a.step = "build" => Locked(s)' /\ db[Kind(s)].parts = 1..a.made /\ a.made < Size(Kind(s)),
         Locked(s)' => a.step \in {"columns", "objects", "details", "build"},
         a.step \in {"columns", "objects", "wait"} => a.made = 0,
         a.seen \subseteq TablesOf(Kind(s)) \cap db[Kind(s)].parts,
         a.step = "columns" => a.asked < Width(Kind(s)) /\ (backend # "sqlite" => a.asked = 0),
         a.step = "columns" /\ Locked(s)' => a.seen = 1..a.asked \cap db[Kind(s)].parts,
         a.step = "objects" /\ Locked(s)' => a.seen = TablesOf(Kind(s)) \cap db[Kind(s)].parts,
         a.step = "details" => HasDetails(Kind(s)) /\ db[Kind(s)].parts = Parts(Kind(s)) /\ db[Kind(s)].sound,
         a.step = "ready" => Whole(Kind(s))
  PROVE  DInv'
<1>1. \A t \in Starters : Kind(t) \in Kinds /\ t # None
  BY DEF Starters, Kind, None
<1>2. TablesTypeOK'
  BY <1>1 DEF DInv, TablesTypeOK
<1>3. /\ at'[s] = a
      /\ \A t \in Starters : t # s => at'[t] = at[t] /\ (Locked(t)' <=> Locked(t))
  BY <1>1 DEF DInv, TablesTypeOK, Locked
<1>4. SchemasFit'
  BY DEF DInv, SchemasFit, HasDetails
<1>5. LockedSection'
  BY <1>3 DEF DInv, LockedSection
<1>6. BuildersOwn'
  BY <1>3 DEF DInv, BuildersOwn
<1>7. SeenIsThere'
  BY <1>3 DEF DInv, SeenIsThere
<1>8. DetailsOfWhole'
  BY <1>3 DEF DInv, DetailsOfWhole, HasDetails
<1>9. ReadyIsWhole'
  BY <1>3 DEF DInv, ReadyIsWhole, Whole
<1> QED BY <1>2, <1>4, <1>5, <1>6, <1>7, <1>8, <1>9 DEF DInv

\* A step of a builder: what it makes are the parts that follow, for a schema that was not whole.
LEMMA CreatingDInv ==
  ASSUME DInv, NEW s \in Starters, at[s].step = "build", UNCHANGED backend,
         db' = [db EXCEPT ![Kind(s)] = Created(s)],
         \/ ~ Through(s) /\ at' = [at EXCEPT ![s].made = @ + 1] /\ UNCHANGED ddl
         \/ Through(s) /\ Finish(s, "ready")
         \/ Finish(s, "failed")
  PROVE  DInv'
<1> DEFINE k == Kind(s)
           n == IF backend = "mysql" THEN at[s].made + 1 ELSE Size(k)
<1>1. \A t \in Starters : Kind(t) \in Kinds /\ t # None
  BY DEF Starters, Kind, None
<1>2. /\ at[s].made \in Nat /\ at[s].made < Size(k) /\ db[k].parts = 1..at[s].made
      /\ Size(k) \in Nat \ {0} /\ Parts(k) = 1..Size(k) /\ Size(k) <= Statements
      /\ Locked(s) /\ k \in Kinds
      /\ Through(s) <=> n = Size(k)
  BY <1>1, Counts DEF DInv, TablesTypeOK, BuildersOwn, LockedSection, Through
<1>3. /\ Created(s) = [parts |-> 1..n, sound |-> TRUE, fits |-> TRUE]
      /\ n \in Nat /\ n <= Size(k) /\ at[s].made < n
      /\ db[k].parts \subseteq 1..n /\ 1..n \subseteq Parts(k) /\ db[k].parts # Parts(k)
  <2>1. n \in Nat /\ n <= Size(k) /\ at[s].made < n
    BY <1>2
  <2>2. 1..at[s].made \cup {at[s].made + 1} = 1..at[s].made + 1
    BY <1>2
  <2>3. Created(s) = [parts |-> 1..n, sound |-> TRUE, fits |-> TRUE]
    BY <1>2, <2>2 DEF Created
  <2>4. 1..n \subseteq 1..Size(k) /\ 1..at[s].made \subseteq 1..n /\ Size(k) \in 1..Size(k) /\ Size(k) \notin 1..at[s].made
    BY <1>2, <2>1
  <2> QED BY <1>2, <2>1, <2>3, <2>4
<1>4. /\ db'[k] = [parts |-> 1..n, sound |-> TRUE, fits |-> TRUE]
      /\ \A j \in Kinds : j # k => db'[j] = db[j]
      /\ \A j \in Kinds : db[j].parts \subseteq db'[j].parts
  BY <1>2, <1>3 DEF DInv, TablesTypeOK
<1>5. /\ at'[s].step \in {"build", "ready", "failed"} /\ at'[s].seen = at[s].seen
      /\ at'[s].step = "build" => at'[s].made = n /\ n < Size(k) /\ Locked(s)'
      /\ at'[s].step = "ready" => n = Size(k)
      /\ at'[s].step \in {"ready", "failed"} => ~ Locked(s)'
      /\ \A t \in Starters : t # s => at'[t] = at[t] /\ (Locked(t)' <=> Locked(t))
      /\ \A t \in Starters : t # s /\ Kind(t) = k => ~ Locked(t)
  <2>1. \A t \in Starters : t # s /\ Kind(t) = k => ~ Locked(t)
    BY <1>2 DEF Locked
  <2>2. CASE ~ Through(s) /\ at' = [at EXCEPT ![s].made = @ + 1] /\ UNCHANGED ddl
    BY <1>1, <1>2, <2>1, <2>2 DEF DInv, TablesTypeOK, Locked, Through
  <2>3. CASE \/ Through(s) /\ Finish(s, "ready")
             \/ Finish(s, "failed")
    BY <1>1, <1>2, <2>1, <2>3 DEF DInv, TablesTypeOK, Locked, Finish, Goes, Unlock
  <2> QED BY <2>2, <2>3
<1>6. TablesTypeOK'
  <2>1. db' \in [Kinds -> AllSchemas]
    <3>1. 1..n \subseteq 1..Statements
      BY <1>2, <1>3, DdlAssumption
    <3> QED BY <1>2, <1>3, <3>1 DEF DInv, TablesTypeOK, AllSchemas
  <2>2. ddl' \in [Kinds -> Starters \cup {None}]
    BY <1>2 DEF DInv, TablesTypeOK, Finish, Unlock
  <2>3. at' \in [Starters -> [step : Steps, asked : Nat, seen : SUBSET (1..Statements), made : Nat]]
    <3>1. CASE at' = [at EXCEPT ![s].made = @ + 1]
      BY <3>1 DEF DInv, TablesTypeOK
    <3>2. CASE Finish(s, "ready") \/ Finish(s, "failed")
      BY SMTT(30), <3>2 DEF DInv, TablesTypeOK, Finish, Goes, Steps
    <3> QED BY <3>1, <3>2
  <2> QED BY <2>1, <2>2, <2>3 DEF DInv, TablesTypeOK
<1>7. SchemasFit'
  BY <1>3, <1>4 DEF DInv, SchemasFit, HasDetails
<1>8. LockedSection'
  BY <1>5 DEF DInv, LockedSection
<1>9. BuildersOwn'
  BY <1>1, <1>4, <1>5 DEF DInv, BuildersOwn, LockedSection
<1>10. SeenIsThere'
  <2>1. \A t \in Starters : at[t].seen \subseteq TablesOf(Kind(t)) \cap db'[Kind(t)].parts
    BY <1>1, <1>4 DEF DInv, SeenIsThere
  <2> QED BY <1>1, <1>4, <1>5, <2>1 DEF DInv, SeenIsThere
<1>11. DetailsOfWhole'
  BY <1>1, <1>3, <1>4, <1>5 DEF DInv, DetailsOfWhole, HasDetails
<1>12. ReadyIsWhole'
  <2>1. at'[s].step = "ready" => Whole(k)'
    BY <1>2, <1>4, <1>5 DEF Whole
  <2>2. \A t \in Starters : t # s /\ at[t].step = "ready" => Kind(t) # k /\ Whole(Kind(t))'
    BY <1>1, <1>3, <1>4 DEF DInv, ReadyIsWhole, Whole
  <2> QED BY <1>5, <2>1, <2>2 DEF ReadyIsWhole
<1> QED BY <1>6, <1>7, <1>8, <1>9, <1>10, <1>11, <1>12 DEF DInv

\* Every step on the tables keeps the invariant.
LEMMA NextDInv == DInv /\ [NextTables]_tvars => DInv'
<1> SUFFICES ASSUME DInv, [NextTables]_tvars PROVE DInv'
  OBVIOUS
<1> DEFINE Places == [step : Steps, asked : Nat, seen : SUBSET (1..Statements), made : Nat]
<1>1. \A s \in Starters : Kind(s) \in Kinds /\ s # None /\ at[s] \in Places
  <2>1. \A s \in Starters : Kind(s) \in Kinds /\ s # None
    BY DEF Starters, Kind, None
  <2>2. \A s \in Starters : at[s] \in Places
    BY DEF DInv, TablesTypeOK
  <2> QED BY <2>1, <2>2
<1>2. CASE UNCHANGED tvars
  BY <1>2 DEF tvars, DInv, TablesTypeOK, SchemasFit, LockedSection, Locked, BuildersOwn, SeenIsThere,
              DetailsOfWhole, ReadyIsWhole, Whole, HasDetails
<1>3. ASSUME NEW s \in Starters, Begin(s) PROVE DInv'
  <2> DEFINE a == [Idle EXCEPT !.step = "columns"]
  <2>1. a \in Places /\ a.step = "columns" /\ a.asked = 0 /\ a.seen = {} /\ a.made = 0
    BY DEF Idle, Steps, Active
  <2>2. ~ Locked(s)' /\ UNCHANGED <<backend, db, ddl>> /\ at' = [at EXCEPT ![s] = a]
    BY <1>3 DEF Begin, Locked, DInv, LockedSection
  <2>3. a.asked < Width(Kind(s))
    BY <1>1, <2>1, Counts
  <2>4. a.seen \subseteq TablesOf(Kind(s)) \cap db[Kind(s)].parts
    BY <2>1
  <2> HIDE DEF a
  <2> QED BY <2>1, <2>2, <2>3, <2>4, ReadingDInv
<1>4. ASSUME NEW s \in Starters, Lock(s) PROVE DInv'
  <2> DEFINE a == [Idle EXCEPT !.step = "columns"]
  <2>1. a \in Places /\ a.step = "columns" /\ a.asked = 0 /\ a.seen = {} /\ a.made = 0
    BY DEF Idle, Steps, Active
  <2>2. /\ UNCHANGED <<backend, db>> /\ at' = [at EXCEPT ![s] = a]
        /\ ddl[Kind(s)] = None /\ ddl' = [ddl EXCEPT ![Kind(s)] = s]
    BY <1>4 DEF Lock, ReadsAgain
  <2>3. a.asked < Width(Kind(s))
    BY <1>1, <2>1, Counts
  <2>4. a.seen \subseteq TablesOf(Kind(s)) \cap db[Kind(s)].parts /\ a.seen = 1..a.asked \cap db[Kind(s)].parts
    BY <2>1
  <2> HIDE DEF a
  <2> QED BY <2>1, <2>2, <2>3, <2>4, ReadingDInv
<1>5. ASSUME NEW s \in Starters, ReadColumns(s) PROVE DInv'
  <2> DEFINE k == Kind(s)
             asked == at[s].asked + Cardinality(Asks(s))
             a == [at[s] EXCEPT !.asked = asked, !.seen = @ \cup (Asks(s) \cap db[k].parts),
                                !.step = IF asked >= Cardinality(TablesOf(k)) THEN "objects" ELSE "columns"]
  <2>1. /\ at[s].step = "columns" /\ UNCHANGED <<backend, db, ddl>>
        /\ k \in Kinds /\ Width(k) \in Nat \ {0} /\ Cardinality(TablesOf(k)) = Width(k) /\ TablesOf(k) = 1..Width(k)
        /\ db[k].parts \subseteq 1..Statements
        /\ at[s].asked \in Nat /\ at[s].asked < Width(k) /\ (backend # "sqlite" => at[s].asked = 0)
        /\ at[s].seen \subseteq TablesOf(k) \cap db[k].parts
        /\ Locked(s) => at[s].seen = 1..at[s].asked \cap db[k].parts
    BY <1>1, <1>5, Counts DEF ReadColumns, DInv, SeenIsThere, TablesTypeOK, AllSchemas
  <2>2. /\ asked \in Nat /\ asked <= Width(k) /\ (backend # "sqlite" => asked = Width(k))
        /\ Asks(s) \subseteq 1..Width(k)
        /\ 1..asked = 1..at[s].asked \cup Asks(s)
    <3>1. CASE backend = "sqlite"
      <4>1. Asks(s) = {at[s].asked + 1} /\ Cardinality(Asks(s)) = 1
        BY <3>1, FS_Singleton DEF Asks
      <4>2. asked = at[s].asked + 1
        BY <4>1
      <4>3. 1..at[s].asked + 1 = 1..at[s].asked \cup {at[s].asked + 1}
        BY <2>1
      <4>4. 1..asked = 1..at[s].asked \cup Asks(s)
        BY <4>1, <4>2, <4>3
      <4>5. Asks(s) \subseteq 1..Width(k)
        BY <2>1, <4>1
      <4> HIDE DEF asked
      <4> QED BY <2>1, <3>1, <4>2, <4>4, <4>5
    <3>2. CASE backend # "sqlite"
      BY <2>1, <3>2 DEF Asks
    <3> QED BY <3>1, <3>2
  <2>3. at' = [at EXCEPT ![s] = a]
    BY <1>5 DEF ReadColumns, DInv, TablesTypeOK
  <2>4. /\ a \in Places /\ a.asked = asked /\ a.seen = at[s].seen \cup (Asks(s) \cap db[k].parts) /\ a.made = at[s].made
        /\ a.step = IF asked >= Width(k) THEN "objects" ELSE "columns"
    BY <1>1, <2>1, <2>2 DEF Steps, Active
  <2>5. a.made = 0
    BY <2>1, <2>4 DEF DInv, BuildersOwn
  <2>6. /\ a.seen \subseteq TablesOf(k) \cap db[k].parts
        /\ Locked(s) => a.seen = 1..asked \cap db[k].parts
        /\ a.step = "objects" => 1..asked = TablesOf(k)
        /\ a.step = "columns" => asked < Width(k)
    BY <2>1, <2>2, <2>4
  <2>7. Locked(s)' <=> Locked(s)
    BY <2>1 DEF Locked
  <2>8. a.step \in {"objects", "columns"} /\ (a.step = "columns" => backend = "sqlite")
    BY <2>1, <2>2, <2>4
  <2> HIDE DEF a, asked
  <2> QED BY <2>1, <2>2, <2>3, <2>4, <2>5, <2>6, <2>7, <2>8, ReadingDInv
<1>6. ASSUME NEW s \in Starters, ReadObjects(s) PROVE DInv'
  <2> DEFINE k == Kind(s)
             objects == Objects(k) \cap db[k].parts
             state == State(k, at[s].seen, objects)
             Placed(step) == at' = [at EXCEPT ![s] = [at[s] EXCEPT !.step = step]]
  <2>1. /\ at[s].step = "objects" /\ UNCHANGED <<backend, db>> /\ Judge(s, state)
        /\ k \in Kinds /\ db[k].parts \subseteq Parts(k) /\ TablesOf(k) \subseteq Parts(k)
        /\ at[s].made = 0 /\ Size(k) \in Nat \ {0}
        /\ at[s].seen \subseteq TablesOf(k) \cap db[k].parts
        /\ Locked(s) => at[s].seen = TablesOf(k) \cap db[k].parts
    BY <1>1, <1>6, Counts DEF ReadObjects, DInv, SeenIsThere, SchemasFit, BuildersOwn
  <2>2. state = "ready" => db[k].parts = Parts(k) /\ db[k].sound
    BY <2>1 DEF State, Objects
  <2>3. state = "absent" /\ Locked(s) => db[k].parts = {}
    BY <2>1 DEF State, Objects
  <2>4. \A step \in Steps : Goes(s, step) => Placed(step) /\ [at[s] EXCEPT !.step = step] \in Places
    BY <1>1 DEF Goes, DInv, TablesTypeOK
  <2>5. CASE state = "ready" /\ HasDetails(k) /\ Goes(s, "details") /\ UNCHANGED ddl
    <3> DEFINE a == [at[s] EXCEPT !.step = "details"]
    <3>1. a \in Places /\ at' = [at EXCEPT ![s] = a] /\ a.step = "details" /\ a.seen = at[s].seen
      BY <1>1, <2>4, <2>5 DEF Steps, Active
    <3> HIDE DEF a
    <3> QED BY <2>1, <2>2, <2>5, <3>1, ReadingDInv
  <2>6. CASE state = "ready" /\ ~ HasDetails(k) /\ Finish(s, "ready")
    <3> DEFINE a == [at[s] EXCEPT !.step = "ready"]
    <3>1. a \in Places /\ at' = [at EXCEPT ![s] = a] /\ a.step = "ready" /\ a.seen = at[s].seen
      BY <1>1, <2>4, <2>6 DEF Steps, Active, Finish
    <3>2. ddl' = [ddl EXCEPT ![k] = IF @ = s THEN None ELSE @] /\ ~ Locked(s)'
      BY <1>1, <2>6 DEF Finish, Unlock, Locked, DInv, TablesTypeOK
    <3>3. Whole(k)
      BY <1>1, <2>2, <2>6 DEF Whole, DInv, SchemasFit
    <3> HIDE DEF a
    <3> QED BY <2>1, <3>1, <3>2, <3>3, ReadingDInv
  <2>7. CASE Finish(s, "refused")
    <3> DEFINE a == [at[s] EXCEPT !.step = "refused"]
    <3>1. a \in Places /\ at' = [at EXCEPT ![s] = a] /\ a.step = "refused" /\ a.seen = at[s].seen
      BY <1>1, <2>4, <2>7 DEF Steps, Active, Finish
    <3>2. ddl' = [ddl EXCEPT ![k] = IF @ = s THEN None ELSE @] /\ ~ Locked(s)'
      BY <1>1, <2>7 DEF Finish, Unlock, Locked, DInv, TablesTypeOK
    <3> HIDE DEF a
    <3> QED BY <2>1, <3>1, <3>2, ReadingDInv
  <2>8. CASE ~ Locked(s) /\ Goes(s, "wait") /\ UNCHANGED ddl
    <3> DEFINE a == [at[s] EXCEPT !.step = "wait"]
    <3>1. a \in Places /\ at' = [at EXCEPT ![s] = a] /\ a.step = "wait" /\ a.seen = at[s].seen /\ a.made = 0
      BY <1>1, <2>1, <2>4, <2>8 DEF Steps, Active
    <3>2. ~ Locked(s)'
      BY <2>8 DEF Locked
    <3> HIDE DEF a
    <3> QED BY <2>1, <2>8, <3>1, <3>2, ReadingDInv
  <2>9. CASE state = "absent" /\ Locked(s) /\ Goes(s, "build") /\ UNCHANGED ddl
    <3> DEFINE a == [at[s] EXCEPT !.step = "build"]
    <3>1. a \in Places /\ at' = [at EXCEPT ![s] = a] /\ a.step = "build" /\ a.seen = at[s].seen /\ a.made = 0
      BY <1>1, <2>1, <2>4, <2>9 DEF Steps, Active
    <3>2. Locked(s)' /\ db[k].parts = 1..a.made /\ a.made < Size(k)
      <4>1. Locked(s)'
        BY <2>9 DEF Locked
      <4>2. 0 < Size(k) /\ 1..0 = {}
        BY <2>1
      <4> HIDE DEF a
      <4> QED BY <2>3, <2>9, <3>1, <4>1, <4>2
    <3> HIDE DEF a
    <3> QED BY <2>1, <2>9, <3>1, <3>2, ReadingDInv
  <2> QED BY <2>1, <2>5, <2>6, <2>7, <2>8, <2>9 DEF Judge, Believes
<1>7. ASSUME NEW s \in Starters, NEW step \in {"ready", "refused", "failed"}, Finish(s, step), UNCHANGED <<backend, db>>,
             step = "ready" => Whole(Kind(s))
      PROVE  DInv'
  <2> DEFINE a == [at[s] EXCEPT !.step = step]
  <2>1. a \in Places /\ at' = [at EXCEPT ![s] = a] /\ a.step = step /\ a.seen = at[s].seen
    BY <1>1, <1>7 DEF Steps, Active, Finish, Goes, DInv, TablesTypeOK
  <2>2. ddl' = [ddl EXCEPT ![Kind(s)] = IF @ = s THEN None ELSE @] /\ ~ Locked(s)'
    BY <1>1, <1>7 DEF Finish, Unlock, Locked, DInv, TablesTypeOK
  <2>3. a.seen \subseteq TablesOf(Kind(s)) \cap db[Kind(s)].parts
    BY <2>1 DEF DInv, SeenIsThere
  <2> HIDE DEF a
  <2> QED BY <1>7, <2>1, <2>2, <2>3, ReadingDInv
<1>8. ASSUME NEW s \in Starters, ReadDetails(s) PROVE DInv'
  <2>1. db[Kind(s)].fits => Whole(Kind(s))
    BY <1>8 DEF ReadDetails, DInv, DetailsOfWhole, Whole
  <2> QED BY <1>7, <1>8, <2>1 DEF ReadDetails
<1>9. ASSUME NEW s \in Starters, Build(s) PROVE DInv'
  BY <1>9, CreatingDInv DEF Build
<1>10. ASSUME NEW s \in Starters, Fail(s) PROVE DInv'
  <2>1. CASE UNCHANGED db
    BY <1>7, <1>10, <2>1 DEF Fail
  <2>2. CASE at[s].step = "build" /\ db' = [db EXCEPT ![Kind(s)] = Created(s)]
    BY <1>10, <2>2, CreatingDInv DEF Fail
  <2> QED BY <1>10, <2>1, <2>2 DEF Fail, Undone
<1> QED
  BY <1>2, <1>3, <1>4, <1>5, <1>6, <1>8, <1>9, <1>10 DEF NextTables, Ensure, Queries

\* What applications do to the tables are the starters' steps and nothing else.
LEMMA TablesImplemented == Spec => SpecTables
<1>1. Init => InitTables
  BY DEF Init
<1>2. [Next]_vars => [NextTables]_tvars
  <2> SUFFICES ASSUME [Next]_vars PROVE [NextTables]_tvars
    OBVIOUS
  <2>1. CASE UNCHANGED vars
    BY <2>1 DEF vars
  <2>2. \A i \in Instances : Row(i) \in Starters /\ Live(i) \in Starters
    BY DEF Row, Live, Starters, Kinds
  <2>3. ASSUME NEW i \in Instances, Starting(i) \/ Closing(i) \/ Bind(i) \/ FirstKey(i) PROVE [NextTables]_tvars
    BY <2>2, <2>3 DEF Starting, MakeLive, Connect, MakeLock, NoLock, PrepareBegins, PrepareDone, PrepareFails, Closing, CloseLive,
                      CloseLock, ClosePool, LateWorkerEnds, Bind, FirstKey, NextTables
  <2>4. ASSUME NEW i \in Instances, TakeGuard(i) \/ LetGo(i) \/ Stop(i) PROVE UNCHANGED tvars
    BY <2>4 DEF TakeGuard, LetGo, Stop
  <2>5. ASSUME NEW s \in Starters, Checks(s) PROVE NextTables
    BY <2>5 DEF Checks, NextTables
  <2> QED BY <2>1, <2>3, <2>4, <2>5 DEF Next
<1> QED BY <1>1, <1>2, PTL DEF Spec, SpecTables

\* The invariant of the tables holds in every reachable state.
LEMMA TablesInvariant == SpecTables => []DInv
BY InitDInv, NextDInv, PTL DEF SpecTables

\* Nobody uses half-built or foreign tables, however many applications start at once, whatever
\* they find and wherever their queries fail.
THEOREM ReadyIsWholeCorrect == Spec => []ReadyIsWhole
<1>1. DInv => ReadyIsWhole
  BY DEF DInv
<1> QED BY TablesImplemented, TablesInvariant, <1>1, PTL

\* A schema changes only by the starter that holds the lock and found nothing, and one that
\* cannot have read half of another's work is refused only for a schema that is broken.
THEOREM SchemasRespectedCorrect == Spec => SchemasRespected
<1> DEFINE Changed(k) == \E s \in Starters : Kind(s) = k /\ at[s].step = "build" /\ Locked(s) /\ db[k].parts = 1..at[s].made
           Refused(s) == at[s].step # "refused" /\ at'[s].step = "refused" /\ (Locked(s) \/ backend = "mysql" \/ Kind(s) = "row")
<1>1. ASSUME DInv, NextTables, NEW k \in Kinds, db'[k] # db[k] PROVE Changed(k)
  <2>1. PICK s \in Starters : Build(s) \/ (Fail(s) /\ at[s].step = "build" /\ db' = [db EXCEPT ![Kind(s)] = Created(s)])
    BY <1>1 DEF NextTables, Begin, Ensure, Queries, ReadColumns, ReadObjects, ReadDetails, Lock, Fail, Undone
  <2>2. at[s].step = "build" /\ db' = [db EXCEPT ![Kind(s)] = Created(s)]
    BY <2>1 DEF Build
  <2>3. Kind(s) = k
    BY <1>1, <2>2 DEF DInv, TablesTypeOK
  <2> QED BY <1>1, <2>2, <2>3 DEF DInv, LockedSection, BuildersOwn
<1>2. ASSUME DInv, NextTables, NEW s \in Starters, Refused(s) PROVE Broken(Kind(s))
  <2> DEFINE k == Kind(s)
  <2>1. /\ k \in Kinds /\ TablesOf(k) \subseteq Parts(k) /\ Parts(k) # {}
        /\ k = "row" => TablesOf(k) = Parts(k)
    <3>1. k \in Kinds
      BY DEF Starters, Kind
    <3>2. TablesOf(k) = 1..Width(k) /\ Width(k) <= Size(k) /\ Parts(k) = 1..Size(k) /\ Width(k) \in Nat \ {0} /\ Size(k) \in Nat \ {0}
      BY <3>1, Counts
    <3>3. 1..Width(k) \subseteq 1..Size(k) /\ 1 \in 1..Size(k)
      BY <3>2
    <3>4. k = "row" => TablesOf(k) = Parts(k)
      BY DEF TablesOf, Parts
    <3> QED BY <3>1, <3>2, <3>3, <3>4
  <2>2. ReadObjects(s) \/ ReadDetails(s)
    <3>1. ASSUME NEW t \in Starters, t # s, Begin(t) \/ Ensure(t) \/ Fail(t) PROVE at'[s] = at[s]
      <4>1. CASE Begin(t)
        BY <3>1, <4>1, <1>2 DEF Begin, DInv, TablesTypeOK
      <4>2. CASE ReadColumns(t)
        BY <3>1, <4>2, <1>2 DEF ReadColumns, DInv, TablesTypeOK
      <4>3. CASE ReadObjects(t)
        BY <3>1, <4>3, <1>2 DEF ReadObjects, Judge, Finish, Goes, DInv, TablesTypeOK
      <4>4. CASE ReadDetails(t)
        BY <3>1, <4>4, <1>2 DEF ReadDetails, Finish, Goes, DInv, TablesTypeOK
      <4>5. CASE Build(t)
        BY <3>1, <4>5, <1>2 DEF Build, Finish, Goes, DInv, TablesTypeOK
      <4>6. CASE Lock(t)
        BY <3>1, <4>6, <1>2 DEF Lock, ReadsAgain, DInv, TablesTypeOK
      <4>7. CASE Fail(t)
        BY <3>1, <4>7, <1>2 DEF Fail, Finish, Goes, DInv, TablesTypeOK
      <4> QED BY <3>1, <4>1, <4>2, <4>3, <4>4, <4>5, <4>6, <4>7 DEF Ensure, Queries
    <3>2. Begin(s) \/ Ensure(s) \/ Fail(s)
      BY <1>2, <3>1 DEF NextTables
    <3>3. ~ Begin(s) /\ ~ ReadColumns(s) /\ ~ Lock(s) /\ ~ Build(s) /\ ~ Fail(s)
      BY <1>2 DEF Begin, ReadColumns, Lock, ReadsAgain, Build, Fail, Finish, Goes, Idle, DInv, TablesTypeOK
    <3> QED BY <3>2, <3>3 DEF Ensure, Queries
  <2>3. CASE ReadDetails(s)
    BY <1>2, <2>1, <2>3 DEF ReadDetails, Finish, Goes, DInv, TablesTypeOK, DetailsOfWhole, Broken, Whole
  <2>4. CASE ReadObjects(s)
    <3> DEFINE objects == Objects(k) \cap db[k].parts
               state == State(k, at[s].seen, objects)
    <3>1. state = "broken" /\ Believes(s)
      BY <1>2, <2>4 DEF ReadObjects, Judge, Finish, Goes, DInv, TablesTypeOK
    <3>2. /\ db[k].parts \subseteq Parts(k) /\ at[s].step = "objects"
          /\ at[s].seen \subseteq TablesOf(k) \cap db[k].parts
          /\ Locked(s) => at[s].seen = TablesOf(k) \cap db[k].parts
      BY <1>2, <2>1, <2>4 DEF ReadObjects, DInv, SchemasFit, SeenIsThere
    <3>3. at[s].seen # {} \/ objects # {}
      BY <3>1 DEF State
    <3>4. ~ (at[s].seen = TablesOf(k) /\ db[k].sound /\ objects = Objects(k))
      BY <3>1, <3>3 DEF State
    <3>5. CASE Locked(s)
      BY <2>1, <3>2, <3>3, <3>4, <3>5 DEF Broken, Whole, Objects
    <3>6. CASE k = "row"
      <4>1. Objects(k) = {} /\ TablesOf(k) = {1}
        BY <3>6 DEF Objects, Parts, TablesOf
      <4> QED BY <2>1, <3>2, <3>3, <3>4, <3>6, <4>1 DEF Broken, Whole
    <3> QED BY <1>2, <3>1, <3>5, <3>6 DEF Believes
  <2> QED BY <2>2, <2>3, <2>4
<1>3. DInv /\ [NextTables]_tvars =>
        [\A k \in Kinds : db'[k] # db[k] =>
           \E s \in Starters : /\ Kind(s) = k /\ at[s].step = "build" /\ Locked(s)
                               /\ db[k].parts = 1..at[s].made]_tvars
  BY <1>1
<1>4. DInv /\ [NextTables]_tvars =>
        [\A s \in Starters :
           /\ at[s].step # "refused" /\ at'[s].step = "refused"
           /\ Locked(s) \/ backend = "mysql" \/ Kind(s) = "row"
           => Broken(Kind(s))]_tvars
  BY <1>2
<1>5. SpecTables => LeftUntouched
  BY TablesInvariant, <1>3, PTL DEF SpecTables, LeftUntouched
<1>6. SpecTables => RefusedIsBroken
  BY TablesInvariant, <1>4, PTL DEF SpecTables, RefusedIsBroken
<1> QED BY TablesImplemented, <1>5, <1>6, PTL DEF SchemasRespected
-----------------------------------------------------------------------------
(* The pools.                                                              *)

Phases ==
  {"new", "pool", "lock", "prepare", "serving", "closeLive", "closeLock", "closePool", "failed", "stopped"}
Pools == {"live", "pool", "lock"}
StartTypeOK ==
  /\ cfg \in [Instances -> AllConfigs]
  /\ phase \in [Instances -> Phases]
  /\ after \in [Instances -> {"failed", "stopped"}]
  /\ built \in [Instances -> SUBSET Pools]
  /\ open \in [Instances -> SUBSET Pools]
  /\ guards \in [Instances -> {0, 1}]
  /\ late \in [Instances -> BOOLEAN]

\* A pool that is open will be found by the step that closes it.
OpenIsClosed(i) ==
  /\ "pool" \in open[i] => "pool" \in built[i] /\ phase[i] \notin {"new", "pool", "failed", "stopped"}
  /\ "lock" \in open[i] => /\ cfg[i].own
                           /\ phase[i] = "prepare" \/ "lock" \in built[i]
                           /\ phase[i] \in {"prepare", "serving", "closeLive", "closeLock"}
  /\ "live" \in open[i] /\ phase[i] \in {"closeLock", "closePool", "failed", "stopped"} => late[i]

\* Locks are for those who built them, on a pool that is open since before.
LockIsServed(i) ==
  /\ cfg[i].lock /\ ~ cfg[i].own => cfg[i].pool
  /\ "lock" \in built[i] => phase[i] \notin {"new", "pool", "lock", "prepare"}
  /\ guards[i] = 1 => "lock" \in built[i]
  /\ phase[i] = "lock" /\ cfg[i].pool => "pool" \in open[i]
  /\ phase[i] = "prepare" \/ ("lock" \in built[i] /\ phase[i] \in {"serving", "closeLive"})
       => LockPool(i) \in open[i]

\* Who holds a connection holds it of a pool that is open.
HoldersServed(i) == guards[i] = 1 \/ Busy(Row(i)) => LockPool(i) \in open[i]

\* The inductive invariant of one application: closing asks what was built, so all that is
\* open has to be found there, and nobody may hold a connection of what is not built.
PoolsFit(i) == OpenIsClosed(i) /\ LockIsServed(i) /\ HoldersServed(i)
PInv == StartTypeOK /\ \A i \in Instances : PoolsFit(i)

\* What a step that is not about application i leaves as it is.
Same(i) ==
  /\ phase'[i] = phase[i] /\ after'[i] = after[i] /\ built'[i] = built[i] /\ open'[i] = open[i]
  /\ guards'[i] = guards[i] /\ late'[i] = late[i]

\* An application whose pools are as they were fits as before, if nobody new is busy.
LEMMA SameFits ==
  ASSUME NEW i \in Instances, PoolsFit(i), cfg' = cfg, Same(i), Busy(Row(i))' => Busy(Row(i))
  PROVE  PoolsFit(i)'
BY DEF PoolsFit, OpenIsClosed, LockIsServed, HoldersServed, Same, LockPool

\* A step that application i takes by itself, without a look at the tables.
Alone(i) ==
  /\ UNCHANGED <<tvars, cfg>>
  /\ StartTypeOK'
  /\ \A j \in Instances : j # i => Same(j)

\* So a step of one application by itself only has to fit that application.
LEMMA AloneFits ==
  ASSUME PInv, NEW i \in Instances, Alone(i), OpenIsClosed(i)', LockIsServed(i)',
         guards'[i] = 1 \/ Busy(Row(i)) => LockPool(i) \in open'[i]
  PROVE  PInv'
<1>1. cfg' = cfg /\ (\A j \in Instances : Busy(Row(j))' <=> Busy(Row(j))) /\ LockPool(i)' = LockPool(i)
  BY DEF Alone, tvars, Busy, LockPool
<1>2. ASSUME NEW j \in Instances PROVE PoolsFit(j)'
  <2>1. CASE j = i
    BY <1>1, <2>1 DEF PoolsFit, HoldersServed
  <2>2. CASE j # i
    BY <1>1, <2>2, SameFits DEF Alone, PInv
  <2> QED BY <2>1, <2>2
<1> QED BY <1>2 DEF PInv, Alone

\* At first no pool is open.
LEMMA InitPInv == Init => PInv
<1> SUFFICES ASSUME Init PROVE PInv
  OBVIOUS
<1>1. StartTypeOK
  BY ConfigAssumption DEF Init, StartTypeOK, Phases
<1>2. ASSUME NEW i \in Instances PROVE PoolsFit(i)
  <2>1. Row(i) \in Starters
    BY DEF Row, Starters, Kinds
  <2>2. ~ Busy(Row(i))
    BY <2>1 DEF Init, InitTables, Busy, Active, Idle
  <2>3. cfg[i].lock /\ ~ cfg[i].own => cfg[i].pool
    BY DEF Init, Accepted
  <2> QED BY <2>2, <2>3 DEF Init, PoolsFit, OpenIsClosed, LockIsServed, HoldersServed
<1> QED BY <1>1, <1>2 DEF PInv

\* A starter that is not at work gets to work only by a step of its own, Begin.
LEMMA OthersKeepBusy ==
  ASSUME DInv, NEW s \in Starters, NEW t \in Starters, (Begin(s) /\ t # s) \/ Ensure(s) \/ Fail(s)
  PROVE  Busy(t)' => Busy(t)
<1>1. CASE t # s
  BY <1>1 DEF Begin, Ensure, Queries, ReadColumns, ReadObjects, Judge, ReadDetails, Build, Lock, ReadsAgain, Fail,
              Finish, Goes, Busy, DInv, TablesTypeOK
<1>2. CASE t = s
  <2>1. Busy(s)
    BY <1>2 DEF Ensure, Queries, ReadColumns, ReadObjects, ReadDetails, Build, Lock, Fail, Busy, Active
  <2> QED BY <1>2, <2>1
<1> QED BY <1>1, <1>2

\* A look at the tables: who begins one has a pool to do it with.
LEMMA AsksFits ==
  ASSUME DInv, PInv, NEW i \in Instances, NEW s \in {Live(i), Row(i)}, Begin(s), UNCHANGED avars,
         s = Row(i) => LockPool(i) \in open[i]
  PROVE  PInv'
<1>1. /\ \A j \in Instances : Row(j) \in Starters /\ (Row(j) = s => j = i /\ s = Row(i))
      /\ s \in Starters
  BY DEF Row, Live, Starters, Kinds
<1>2. StartTypeOK' /\ cfg' = cfg
  BY DEF PInv, StartTypeOK, avars
<1>3. ASSUME NEW j \in Instances PROVE PoolsFit(j)'
  <2>1. Same(j) /\ PoolsFit(j)
    BY DEF Same, avars, PInv
  <2>2. CASE Row(j) # s
    <3>1. Busy(Row(j))' => Busy(Row(j))
      BY <1>1, <2>2, OthersKeepBusy
    <3> QED BY <1>2, <2>1, <3>1, SameFits
  <2>3. CASE Row(j) = s
    <3>1. LockPool(j) \in open[j]
      BY <1>1, <2>3
    <3> QED BY <2>1, <3>1 DEF avars, PoolsFit, OpenIsClosed, LockIsServed, HoldersServed, LockPool
  <2> QED BY <2>2, <2>3
<1> QED BY <1>2, <1>3 DEF PInv

\* The start.
LEMMA StartingFits ==
  ASSUME DInv, PInv, NEW i \in Instances, Starting(i)
  PROVE  PInv'
<1> USE DEF PInv, StartTypeOK
<1>f. PoolsFit(i)
  OBVIOUS
<1>1. CASE MakeLive(i)
  <2>1. Alone(i)
    BY <1>1 DEF MakeLive, Turns, Has, Opens, GivesUp, Alone, Same, Phases, Pools
  <2>2. /\ phase[i] = "new" /\ phase'[i] \in {"pool", "closeLive"} /\ guards'[i] = guards[i]
        /\ built'[i] \ {"live"} = built[i] \ {"live"} /\ open'[i] \ {"live"} = open[i] \ {"live"}
        /\ cfg' = cfg
    BY <1>1 DEF MakeLive, Turns, Has, Opens, GivesUp
  <2> QED BY <1>f, <2>1, <2>2, AloneFits DEF PoolsFit, OpenIsClosed, LockIsServed, HoldersServed, LockPool
<1>2. CASE Connect(i)
  <2>1. Alone(i)
    BY <1>2 DEF Connect, Turns, Has, Opens, GivesUp, Alone, Same, Phases, Pools
  <2>2. /\ phase[i] = "pool" /\ guards'[i] = guards[i] /\ cfg' = cfg
        /\ \/ /\ phase'[i] = "lock"
              /\ IF cfg[i].pool THEN built'[i] = built[i] \cup {"pool"} /\ open'[i] = open[i] \cup {"pool"}
                                ELSE built'[i] = built[i] /\ open'[i] = open[i]
           \/ phase'[i] = "closeLive" /\ built'[i] = built[i] /\ open'[i] = open[i]
    BY <1>2 DEF Connect, Turns, Has, Opens, GivesUp
  <2> QED BY <1>f, <2>1, <2>2, AloneFits DEF PoolsFit, OpenIsClosed, LockIsServed, HoldersServed, LockPool
<1>3. CASE MakeLock(i)
  <2>1. Alone(i)
    BY <1>3 DEF MakeLock, Turns, Has, Opens, GivesUp, Alone, Same, Phases, Pools
  <2>2. /\ phase[i] = "lock" /\ cfg[i].lock /\ guards'[i] = guards[i] /\ cfg' = cfg
        /\ \/ /\ \/ phase'[i] = "prepare" /\ built'[i] = built[i]
                 \/ phase'[i] = "serving" /\ built'[i] = built[i] \cup {"lock"}
              /\ IF cfg[i].own THEN open'[i] = open[i] \cup {"lock"} ELSE open'[i] = open[i]
           \/ phase'[i] = "closeLive" /\ built'[i] = built[i] /\ open'[i] = open[i]
    BY <1>3 DEF MakeLock, Turns, Has, Opens, GivesUp
  <2> QED BY <1>f, <2>1, <2>2, AloneFits DEF PoolsFit, OpenIsClosed, LockIsServed, HoldersServed, LockPool
<1>4. CASE NoLock(i)
  <2>1. Alone(i)
    BY <1>4 DEF NoLock, Turns, Alone, Same, Phases
  <2>2. /\ phase[i] = "lock" /\ phase'[i] = "serving"
        /\ UNCHANGED <<cfg, built, open, guards, late>>
    BY <1>4 DEF NoLock, Turns
  <2> QED BY <1>f, <2>1, <2>2, AloneFits DEF PoolsFit, OpenIsClosed, LockIsServed, HoldersServed, LockPool
<1>5. CASE PrepareBegins(i)
  <2>1. phase[i] = "prepare" /\ Begin(Row(i)) /\ UNCHANGED avars
    BY <1>5 DEF PrepareBegins
  <2> QED BY <1>f, <2>1, AsksFits
          DEF PoolsFit, LockIsServed
<1>6. CASE PrepareDone(i)
  <2>1. Alone(i)
    BY <1>6 DEF PrepareDone, Turns, Has, Alone, Same, Phases, Pools
  <2>2. /\ phase[i] = "prepare" /\ phase'[i] = "serving" /\ built'[i] = built[i] \cup {"lock"}
        /\ UNCHANGED <<cfg, open, guards, late>>
    BY <1>6 DEF PrepareDone, Turns, Has
  <2> QED BY <1>f, <2>1, <2>2, AloneFits DEF PoolsFit, OpenIsClosed, LockIsServed, HoldersServed, LockPool
<1>7. CASE PrepareFails(i)
  <2>1. Alone(i)
    BY <1>7 DEF PrepareFails, ClosesOwn, Turns, GivesUp, Alone, Same, Phases, Pools
  <2>2. /\ phase[i] = "prepare" /\ phase'[i] = "closeLive"
        /\ open'[i] = IF cfg[i].own THEN open[i] \ {"lock"} ELSE open[i]
        /\ UNCHANGED <<cfg, built, guards, late>>
        /\ ~ Busy(Row(i))
    BY <1>7 DEF PrepareFails, ClosesOwn, Turns, GivesUp, Busy, Active
  <2> QED BY <1>f, <2>1, <2>2, AloneFits DEF PoolsFit, OpenIsClosed, LockIsServed, HoldersServed, LockPool
<1> QED BY <1>1, <1>2, <1>3, <1>4, <1>5, <1>6, <1>7 DEF Starting

\* The end.  What is removed from the open pools is a pool nobody holds a connection of.
LEMMA ClosingFits ==
  ASSUME DInv, PInv, NEW i \in Instances, Closing(i)
  PROVE  PInv'
<1> USE DEF PInv, StartTypeOK
<1>f. PoolsFit(i)
  OBVIOUS
<1>1. CASE CloseLive(i)
  <2>1. Alone(i)
    BY <1>1 DEF CloseLive, Turns, Alone, Same, Phases, Busy
  <2>2. /\ phase[i] = "closeLive" /\ phase'[i] = "closeLock"
        /\ open'[i] \ {"live"} = open[i] \ {"live"}
        /\ "live" \in open'[i] => late'[i]
        /\ UNCHANGED <<cfg, built, guards>>
    BY <1>1 DEF CloseLive, Turns
  <2> QED BY <1>f, <2>1, <2>2, AloneFits DEF PoolsFit, OpenIsClosed, LockIsServed, HoldersServed, LockPool
<1>2. CASE CloseLock(i)
  <2>1. Alone(i)
    BY <1>2 DEF CloseLock, Turns, Alone, Same, Phases
  <2>2. /\ phase[i] = "closeLock" /\ phase'[i] = "closePool"
        /\ IF "lock" \in built[i] /\ cfg[i].own
           THEN /\ LockPool(i) = "lock" => guards[i] = 0 /\ ~ Busy(Row(i))
                /\ open'[i] = open[i] \ {"lock"}
           ELSE open'[i] = open[i]
        /\ UNCHANGED <<cfg, built, guards, late>>
    BY <1>2 DEF CloseLock, Turns, Returned
  <2> QED BY <1>f, <2>1, <2>2, AloneFits DEF PoolsFit, OpenIsClosed, LockIsServed, HoldersServed, LockPool
<1>3. CASE ClosePool(i)
  <2>1. Alone(i)
    BY <1>3 DEF ClosePool, Turns, Alone, Same, Phases
  <2>2. /\ phase[i] = "closePool" /\ phase'[i] \in {"failed", "stopped"}
        /\ IF "pool" \in built[i]
           THEN /\ LockPool(i) = "pool" => guards[i] = 0 /\ ~ Busy(Row(i))
                /\ open'[i] = open[i] \ {"pool"}
           ELSE open'[i] = open[i]
        /\ UNCHANGED <<cfg, built, guards, late>>
    BY <1>3 DEF ClosePool, Turns, Returned
  <2> QED BY <1>f, <2>1, <2>2, AloneFits DEF PoolsFit, OpenIsClosed, LockIsServed, HoldersServed, LockPool
<1>4. CASE LateWorkerEnds(i)
  <2>1. Alone(i)
    BY <1>4 DEF LateWorkerEnds, Alone, Same
  <2>2. /\ open'[i] = open[i] \ {"live"}
        /\ UNCHANGED <<cfg, phase, built, guards, late>>
    BY <1>4 DEF LateWorkerEnds
  <2> QED BY <1>f, <2>1, <2>2, AloneFits DEF PoolsFit, OpenIsClosed, LockIsServed, HoldersServed, LockPool
<1> QED BY <1>1, <1>2, <1>3, <1>4 DEF Closing

\* Locks that are held, and the stop.
LEMMA ServingFits ==
  ASSUME DInv, PInv, NEW i \in Instances, TakeGuard(i) \/ LetGo(i) \/ Stop(i)
  PROVE  PInv'
<1> USE DEF PInv, StartTypeOK
<1>f. PoolsFit(i)
  OBVIOUS
<1>1. Alone(i)
  BY DEF TakeGuard, LetGo, Stop, Turns, Alone, Same, Phases
<1>2. CASE TakeGuard(i)
  <2>1. /\ phase[i] \in {"serving", "closeLive"} /\ "lock" \in built[i]
        /\ UNCHANGED <<cfg, phase, built, open, late>>
    BY <1>2 DEF TakeGuard
  <2> QED BY <1>f, <1>1, <2>1, AloneFits DEF PoolsFit, OpenIsClosed, LockIsServed, HoldersServed, LockPool
<1>3. CASE LetGo(i)
  <2>1. guards'[i] = 0 /\ UNCHANGED <<cfg, phase, built, open, late>>
    BY <1>3 DEF LetGo
  <2> QED BY <1>f, <1>1, <2>1, AloneFits DEF PoolsFit, OpenIsClosed, LockIsServed, HoldersServed, LockPool
<1>4. CASE Stop(i)
  <2>1. phase[i] = "serving" /\ phase'[i] = "closeLive" /\ UNCHANGED <<cfg, built, open, guards, late>>
    BY <1>4 DEF Stop, Turns
  <2> QED BY <1>f, <1>1, <2>1, AloneFits DEF PoolsFit, OpenIsClosed, LockIsServed, HoldersServed, LockPool
<1> QED BY <1>2, <1>3, <1>4

\* Every step keeps the pools fit.
LEMMA NextPInv == DInv /\ PInv /\ [Next]_vars => PInv'
<1> SUFFICES ASSUME DInv, PInv, [Next]_vars PROVE PInv'
  OBVIOUS
<1>1. CASE UNCHANGED vars
  BY <1>1 DEF vars, tvars, avars, PInv, StartTypeOK, PoolsFit, OpenIsClosed, LockIsServed, HoldersServed, LockPool, Busy
<1>2. ASSUME NEW i \in Instances, Bind(i) PROVE PInv'
  <2>1. Begin(Live(i)) /\ UNCHANGED avars /\ Live(i) # Row(i)
    BY <1>2 DEF Bind, Live, Row
  <2> QED BY <2>1, AsksFits
<1>3. ASSUME NEW i \in Instances, FirstKey(i) PROVE PInv'
  <2>1. Begin(Row(i)) /\ UNCHANGED avars
    BY <1>3 DEF FirstKey
  <2>2. LockPool(i) \in open[i]
    BY <1>3 DEF FirstKey, PInv, PoolsFit, LockIsServed
  <2> QED BY <2>1, <2>2, AsksFits
<1>4. ASSUME NEW s \in Starters, Checks(s) PROVE PInv'
  <2>1. StartTypeOK' /\ cfg' = cfg
    BY <1>4 DEF Checks, PInv, StartTypeOK, avars
  <2>2. ASSUME NEW i \in Instances PROVE PoolsFit(i)'
    <3>1. Row(i) \in Starters /\ Same(i) /\ PoolsFit(i)
      BY <1>4 DEF Checks, Row, Starters, Kinds, Same, avars, PInv
    <3>2. Busy(Row(i))' => Busy(Row(i))
      BY <1>4, <3>1, OthersKeepBusy DEF Checks
    <3> QED BY <2>1, <3>1, <3>2, SameFits
  <2> QED BY <2>1, <2>2 DEF PInv
<1> QED BY <1>1, <1>2, <1>3, <1>4, StartingFits, ClosingFits, ServingFits DEF Next

\* The pools of every application, however many share the database, fit its use of them.
LEMMA PoolsInvariant == Spec => []PInv
BY InitPInv, NextPInv, TablesImplemented, TablesInvariant, PTL DEF Spec

\* A component that ended has closed all pools it made, but for the one a late first bind
\* still has, and until then who holds a lock or reads the lock table has the pool it came
\* from: for any number of applications and every configuration.
THEOREM PoolsFollowUseCorrect == Spec => []PoolsFollowUse
<1>1. PInv => PoolsFollowUse
  <2> SUFFICES ASSUME PInv, NEW i \in Instances
               PROVE  /\ Ended(i) => open[i] \subseteq (IF late[i] THEN {"live"} ELSE {})
                      /\ HoldersServed(i)
    BY DEF PoolsFollowUse, HoldersServed
  <2>1. PoolsFit(i) /\ open[i] \subseteq Pools
    BY DEF PInv, StartTypeOK
  <2> QED BY <2>1 DEF PoolsFit, OpenIsClosed, Ended, Pools
<1> QED BY <1>1, PoolsInvariant, PTL
=============================================================================

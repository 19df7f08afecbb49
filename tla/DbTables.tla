------------------------------ MODULE DbTables ------------------------------
(***************************************************************************)
(* How the tables the framework owns come to be: the three tables of the   *)
(* live configuration with their triggers and functions (schema.rs and the *)
(* `ensure' of each database), and the lock table of PostgreSQL.  Several  *)
(* starters, in processes of their own, look at one database, create what  *)
(* is missing under a lock of the server, and use what is there or refuse  *)
(* it.                                                                     *)
(*                                                                         *)
(* Abstractions.  The DDL is a number of statements, the first of which    *)
(* create tables; `sound' says that the columns found are the ones         *)
(* expected, `fits' that the function notifies the right channel           *)
(* (PostgreSQL) or that the lock table is UNLOGGED.                        *)
(***************************************************************************)
EXTENDS Integers, FiniteSets

CONSTANTS
  Instances,   \* processes of applications that share the database
  Statements,  \* statements of the DDL of a live configuration
  Tables,      \* of them, the ones that create tables, which come first
  Found        \* what starters may come upon: some or all of AllSchemas
AllSchemas == [parts : SUBSET (1..Statements), sound : BOOLEAN, fits : BOOLEAN]
ASSUME DdlAssumption ==
  /\ Tables \in Nat \ {0} /\ Statements \in Nat /\ Tables <= Statements
  /\ Found \subseteq AllSchemas

Kinds == {"live", "row"}
Starters == Instances \X Kinds
None == <<>>

VARIABLES
  backend,  \* "pg", "sqlite" or "mysql"
  db,       \* per kind: the parts that are there, sound, fits
  ddl,      \* per kind: the starter that holds the DDL lock, or None
  at        \* per starter: step, tables asked for and seen, statements of its own

tvars == <<backend, db, ddl, at>>

Kind(s) == s[2]
Parts(k) == IF k = "row" THEN 1..1 ELSE 1..Statements
TablesOf(k) == IF k = "row" THEN 1..1 ELSE 1..Tables
Objects(k) == Parts(k) \ TablesOf(k)
HasDetails(k) == backend = "pg"

Active == {"columns", "objects", "details", "wait", "build"}
Busy(s) == at[s].step \in Active
Locked(s) == ddl[Kind(s)] = s
-----------------------------------------------------------------------------
Exists(k) == k = "live" \/ backend = "pg"
\* Nothing, all of it, a part, or something else.
Schemas(k) ==
  {d \in Found :
     /\ d.parts \subseteq Parts(k)
     /\ d.parts = {} => d.sound /\ d.fits
     /\ ~ HasDetails(k) => d.fits
     /\ ~ Exists(k) => d.parts = {}}
Idle == [step |-> "idle", asked |-> 0, seen |-> {}, made |-> 0]
InitTables ==
  /\ backend \in {"pg", "sqlite", "mysql"}
  /\ \E live \in Schemas("live"), row \in Schemas("row") :
        db = [k \in Kinds |-> IF k = "live" THEN live ELSE row]
  /\ ddl = [k \in Kinds |-> None]
  /\ at = [s \in Starters |-> Idle]

\* The check: nothing is there, all of it is and as expected, or else.
Whole(k) == db[k].parts = Parts(k) /\ db[k].sound /\ db[k].fits
Broken(k) == db[k].parts # {} /\ ~ Whole(k)
NoTriggersNeeded(k, seen, objects) ==
  IF seen = {} /\ objects = {} THEN "absent"
  ELSE IF seen = TablesOf(k) /\ db[k].sound THEN "ready" ELSE "broken"
State(k, seen, objects) ==
  IF seen = {} /\ objects = {} THEN "absent"
  ELSE IF seen = TablesOf(k) /\ db[k].sound /\ objects = Objects(k) THEN "ready" ELSE "broken"

Goes(s, step) == at' = [at EXCEPT ![s].step = step]
\* A starter is through: its transaction ends, or it gives the lock back.
KeepsLock(s) == ddl' = ddl
Unlock(s) == ddl' = [ddl EXCEPT ![Kind(s)] = IF @ = s THEN None ELSE @]
Finish(s, outcome) == Goes(s, outcome) /\ Unlock(s)

\* The first bind, the first string key, or the start that prepares them; one
\* that was refused or failed is tried again by the next one.
Begin(s) ==
  /\ at[s].step \in {"idle", "refused", "failed"} /\ Exists(Kind(s))
  /\ at' = [at EXCEPT ![s] = [Idle EXCEPT !.step = "columns"]]
  /\ UNCHANGED <<backend, db, ddl>>

\* One query for all tables; SQLite asks for one table after the other.
Asks(s) ==
  IF backend = "sqlite" THEN {at[s].asked + 1} ELSE TablesOf(Kind(s))
ReadColumns(s) ==
  /\ at[s].step = "columns"
  /\ LET asked == at[s].asked + Cardinality(Asks(s)) IN
     at' = [at EXCEPT ![s].asked = asked,
                      ![s].seen = @ \cup (Asks(s) \cap db[Kind(s)].parts),
                      ![s].step = IF asked >= Cardinality(TablesOf(Kind(s))) THEN "objects" ELSE "columns"]
  /\ UNCHANGED <<backend, db, ddl>>

\* A further query for triggers and functions (none for the lock table); the
\* check judges both.  Before it has the lock MySQL only believes that
\* everything is there: its DDL cannot be rolled back and is seen half done.
Believes(s) == Locked(s) \/ backend # "mysql"
Judge(s, state) ==
  \/ state = "ready" /\ HasDetails(Kind(s)) /\ Goes(s, "details") /\ UNCHANGED ddl
  \/ state = "ready" /\ ~ HasDetails(Kind(s)) /\ Finish(s, "ready")
  \/ state = "broken" /\ Believes(s) /\ Finish(s, "refused")
  \/ state = "broken" /\ ~ Believes(s) /\ Goes(s, "wait") /\ UNCHANGED ddl
  \/ state = "absent" /\ ~ Locked(s) /\ Goes(s, "wait") /\ UNCHANGED ddl
  \/ state = "absent" /\ Locked(s) /\ Goes(s, "build") /\ UNCHANGED ddl
ReadObjects(s) ==
  /\ at[s].step = "objects"
  /\ Judge(s, State(Kind(s), at[s].seen, Objects(Kind(s)) \cap db[Kind(s)].parts))
  /\ UNCHANGED <<backend, db>>
ReadDetails(s) ==
  /\ at[s].step = "details"
  /\ Finish(s, IF db[Kind(s)].fits THEN "ready" ELSE "refused")
  /\ UNCHANGED <<backend, db>>

\* The advisory lock, BEGIN IMMEDIATE or GET_LOCK; then all is read again.
ReadsOnce(s) == Goes(s, "build")
ReadsAgain(s) == at' = [at EXCEPT ![s] = [Idle EXCEPT !.step = "columns"]]
Lock(s) ==
  /\ at[s].step = "wait" /\ ddl[Kind(s)] = None
  /\ ddl' = [ddl EXCEPT ![Kind(s)] = s]
  /\ ReadsAgain(s) /\ UNCHANGED <<backend, db>>

\* The DDL: in the transaction that holds the lock, or statement by statement.
Created(s) ==
  [parts |-> IF backend = "mysql" THEN db[Kind(s)].parts \cup {at[s].made + 1} ELSE Parts(Kind(s)),
   sound |-> TRUE, fits |-> TRUE]
Through(s) == backend # "mysql" \/ at[s].made + 1 = Cardinality(Parts(Kind(s)))
Build(s) ==
  /\ at[s].step = "build"
  /\ db' = [db EXCEPT ![Kind(s)] = Created(s)]
  /\ IF Through(s) THEN Finish(s, "ready")
     ELSE at' = [at EXCEPT ![s].made = @ + 1] /\ UNCHANGED ddl
  /\ UNCHANGED backend

\* A query fails, or the connection is lost, or SQLite is busy for too long: a
\* transaction is rolled back, unless its end was done and only the answer lost.
Undone(s) == UNCHANGED db \/ (at[s].step = "build" /\ db' = [db EXCEPT ![Kind(s)] = Created(s)])
Fail(s) ==
  /\ Busy(s) /\ Undone(s) /\ Finish(s, "failed") /\ UNCHANGED backend

Queries(s) == ReadColumns(s) \/ ReadObjects(s) \/ ReadDetails(s) \/ Build(s)
Ensure(s) == Queries(s) \/ Lock(s)
NextTables == \E s \in Starters : Begin(s) \/ Ensure(s) \/ Fail(s)
SpecTables == InitTables /\ [][NextTables]_tvars
-----------------------------------------------------------------------------
\* Nobody uses half-built or foreign tables: who was told that they are ready has
\* all of them, with the triggers and functions, and they fit.
ReadyIsWhole == \A s \in Starters : at[s].step = "ready" => Whole(Kind(s))

\* What the framework finds it leaves alone: a schema only ever changes by a
\* starter that found nothing, while it holds the lock, and that adds to what it
\* made itself.  So nothing is created twice and a broken schema is not touched.
LeftUntouched ==
  [][\A k \in Kinds : db'[k] # db[k] =>
       \E s \in Starters : /\ Kind(s) = k /\ at[s].step = "build" /\ Locked(s)
                           /\ db[k].parts = 1..at[s].made]_tvars

\* A starter that holds the lock, or that reads MySQL or the lock table, is
\* refused for a schema that is broken, not for one that another is creating.
RefusedIsBroken ==
  [][\A s \in Starters :
       /\ at[s].step # "refused" /\ at'[s].step = "refused"
       /\ Locked(s) \/ backend = "mysql" \/ Kind(s) = "row"
       => Broken(Kind(s))]_tvars

\* Both: what is there is neither changed nor refused without a reason.
SchemasRespected == LeftUntouched /\ RefusedIsBroken

\* What schema.rs says of every database: tables that are all there and as
\* expected are used, and starters that start at once wait for the first.
OnlyBrokenRefused ==
  [][\A s \in Starters :
       at[s].step # "refused" /\ at'[s].step = "refused" => Broken(Kind(s))]_tvars
=============================================================================

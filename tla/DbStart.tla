------------------------------- MODULE DbStart -------------------------------
(***************************************************************************)
(* The database component (component.rs) in several applications that      *)
(* start against one database: what `uses' asks for is built in order,     *)
(* what was built is closed again when a later part fails, first binds and *)
(* first string keys create the tables (DbTables), locks hold connections, *)
(* and stop closes everything in order.                                    *)
(*                                                                         *)
(* Abstractions.  A pool is open or not; of the locks that user code holds *)
(* there is one or none.  The live configuration's worker is LiveConfig.   *)
(***************************************************************************)
EXTENDS DbTables

CONSTANT Configs  \* what is configured: some or all of AllConfigs

AllConfigs == [pool : BOOLEAN, live : BOOLEAN, lock : BOOLEAN, own : BOOLEAN, lazy : BOOLEAN]
ASSUME ConfigAssumption == Configs \subseteq AllConfigs

VARIABLES
  cfg,      \* per instance: its configuration
  phase,    \* per instance: what the component is about
  after,    \* per instance: how closing ends, "failed" or "stopped"
  built,    \* per instance: DbResources, what was built
  open,     \* per instance: the pools that are not closed
  guards,   \* per instance: locks held, 0 or 1
  late      \* history, per instance: a first bind was under way when the live
            \* configuration was closed

avars == <<cfg, phase, after, built, open, guards, late>>
vars == <<tvars, avars>>

Live(i) == <<i, "live">>
Row(i) == <<i, "row">>
\* The pool that locks are taken from: one of their own, or the application's.
LockPool(i) == IF cfg[i].own THEN "lock" ELSE "pool"
UsesRow(i) == cfg[i].lock /\ backend = "pg"
-----------------------------------------------------------------------------
\* check: `uses' asks for something; SQLite has no locks; without a pool there
\* is none to share.
Accepted(c) ==
  /\ c.pool \/ c.live \/ c.lock
  /\ c.lock => backend # "sqlite"
  /\ c.own => c.lock
  /\ c.lock /\ ~ c.pool => c.own

Init ==
  /\ InitTables
  /\ cfg \in [Instances -> {c \in Configs : Accepted(c)}]
  /\ phase = [i \in Instances |-> "new"]
  /\ after = [i \in Instances |-> "stopped"]
  /\ built = [i \in Instances |-> {}]
  /\ open = [i \in Instances |-> {}]
  /\ guards = [i \in Instances |-> 0]
  /\ late = [i \in Instances |-> FALSE]

Turns(i, p) == phase' = [phase EXCEPT ![i] = p]
Has(i, r) == built' = [built EXCEPT ![i] = @ \cup {r}]
Opens(i, p) == open' = [open EXCEPT ![i] = @ \cup {p}]
\* from_config closes what was built and reports the error of the start.
GivesUp(i) == Turns(i, "closeLive") /\ after' = [after EXCEPT ![i] = "failed"]

\* startup: the live configuration is made without connecting; its small pool
\* exists from here on.  A prefix, an interval or an address may be invalid.
MakeLive(i) ==
  /\ phase[i] = "new"
  /\ \/ /\ Turns(i, "pool") /\ UNCHANGED after
        /\ IF cfg[i].live THEN Has(i, "live") /\ Opens(i, "live") ELSE UNCHANGED <<built, open>>
     \/ cfg[i].live /\ GivesUp(i) /\ UNCHANGED <<built, open>>
  /\ UNCHANGED <<tvars, cfg, guards, late>>

Connect(i) ==
  /\ phase[i] = "pool"
  /\ \/ /\ Turns(i, "lock") /\ UNCHANGED after
        /\ IF cfg[i].pool THEN Has(i, "pool") /\ Opens(i, "pool") ELSE UNCHANGED <<built, open>>
     \/ cfg[i].pool /\ GivesUp(i) /\ UNCHANGED <<built, open>>
  /\ UNCHANGED <<tvars, cfg, guards, late>>

\* PgLock::new, MySqlLock::new: a pool of its own if configured so; then the
\* lock table is prepared, unless connecting is left for later.
MakeLock(i) ==
  /\ phase[i] = "lock" /\ cfg[i].lock
  /\ \/ /\ UNCHANGED after
        /\ IF cfg[i].own THEN Opens(i, "lock") ELSE UNCHANGED open
        /\ IF UsesRow(i) /\ ~ cfg[i].lazy
           THEN Turns(i, "prepare") /\ UNCHANGED built
           ELSE Turns(i, "serving") /\ Has(i, "lock")
     \/ cfg[i].own /\ GivesUp(i) /\ UNCHANGED <<built, open>>
  /\ UNCHANGED <<tvars, cfg, guards, late>>
NoLock(i) ==
  /\ phase[i] = "lock" /\ ~ cfg[i].lock
  /\ Turns(i, "serving") /\ UNCHANGED <<tvars, cfg, after, built, open, guards, late>>
\* The lock table is checked by the start, or by the first string key.
PrepareBegins(i) ==
  /\ phase[i] = "prepare" /\ at[Row(i)].step = "idle"
  /\ Begin(Row(i)) /\ UNCHANGED avars
PrepareDone(i) ==
  /\ phase[i] = "prepare" /\ at[Row(i)].step = "ready"
  /\ Has(i, "lock") /\ Turns(i, "serving")
  /\ UNCHANGED <<tvars, cfg, after, open, guards, late>>
\* A client that was not made closes the pool it made.
LeavesPool(i) == UNCHANGED open
ClosesOwn(i) == open' = [open EXCEPT ![i] = IF cfg[i].own THEN @ \ {"lock"} ELSE @]
PrepareFails(i) ==
  /\ phase[i] = "prepare" /\ at[Row(i)].step \in {"refused", "failed"}
  /\ ClosesOwn(i) /\ GivesUp(i)
  /\ UNCHANGED <<tvars, cfg, built, guards, late>>

\* serving: the first bind and the first string key check the tables, again if
\* that was refused or failed; locks are taken and let go.
Bind(i) ==
  /\ phase[i] = "serving" /\ "live" \in built[i]
  /\ Begin(Live(i)) /\ UNCHANGED avars
FirstKey(i) ==
  /\ phase[i] = "serving" /\ "lock" \in built[i] /\ UsesRow(i)
  /\ Begin(Row(i)) /\ UNCHANGED avars
TakeGuard(i) ==
  /\ phase[i] \in {"serving", "closeLive"} /\ "lock" \in built[i] /\ guards[i] = 0
  /\ guards' = [guards EXCEPT ![i] = 1]
  /\ UNCHANGED <<tvars, cfg, phase, after, built, open, late>>
LetGo(i) ==
  /\ guards[i] = 1 /\ guards' = [guards EXCEPT ![i] = 0]
  /\ UNCHANGED <<tvars, cfg, phase, after, built, open, late>>

\* stop and close.
Stop(i) ==
  /\ phase[i] = "serving" /\ Turns(i, "closeLive")
  /\ after' = [after EXCEPT ![i] = "stopped"]
  /\ UNCHANGED <<tvars, cfg, built, open, guards, late>>
\* The worker is waited for; a first bind that is under way has the store and is
\* not (LiveConfigSource): its worker ends on its own.
CloseLive(i) ==
  /\ phase[i] = "closeLive" /\ Turns(i, "closeLock")
  /\ late' = [late EXCEPT ![i] = Busy(Live(i))]
  /\ open' = [open EXCEPT ![i] = IF Busy(Live(i)) THEN @ ELSE @ \ {"live"}]
  /\ UNCHANGED <<tvars, cfg, after, built, guards>>
LateWorkerEnds(i) ==
  /\ late[i] /\ at[Live(i)].step = "ready" /\ "live" \in open[i]
  /\ open' = [open EXCEPT ![i] = @ \ {"live"}]
  /\ UNCHANGED <<tvars, cfg, phase, after, built, guards, late>>
\* Closing a pool waits for the connections that are lent out.
Returned(i, p) == LockPool(i) = p => guards[i] = 0 /\ ~ Busy(Row(i))
CloseLock(i) ==
  /\ phase[i] = "closeLock" /\ Turns(i, "closePool")
  /\ IF "lock" \in built[i] /\ cfg[i].own
     THEN Returned(i, "lock") /\ open' = [open EXCEPT ![i] = @ \ {"lock"}]
     ELSE UNCHANGED open
  /\ UNCHANGED <<tvars, cfg, after, built, guards, late>>
ClosePool(i) ==
  /\ phase[i] = "closePool" /\ Turns(i, after[i])
  /\ IF "pool" \in built[i]
     THEN Returned(i, "pool") /\ open' = [open EXCEPT ![i] = @ \ {"pool"}]
     ELSE UNCHANGED open
  /\ UNCHANGED <<tvars, cfg, after, built, guards, late>>

Checks(s) == (Ensure(s) \/ Fail(s)) /\ UNCHANGED avars
Starting(i) ==
  \/ MakeLive(i) \/ Connect(i) \/ MakeLock(i) \/ NoLock(i)
  \/ PrepareBegins(i) \/ PrepareDone(i) \/ PrepareFails(i)
Closing(i) == CloseLive(i) \/ CloseLock(i) \/ ClosePool(i) \/ LateWorkerEnds(i)
Next ==
  \/ \E i \in Instances : Starting(i) \/ Closing(i) \/ Bind(i) \/ FirstKey(i)
  \/ \E i \in Instances : TakeGuard(i) \/ LetGo(i) \/ Stop(i)
  \/ \E s \in Starters : Checks(s)

\* The runtime polls every task and queries come back; the server queues those
\* that wait for the DDL lock; tasks that hold a lock let it go.
Fair ==
  /\ \A i \in Instances : WF_vars(Starting(i) \/ Closing(i)) /\ WF_vars(LetGo(i))
  /\ \A s \in Starters : SF_vars(Ensure(s) /\ UNCHANGED avars)
Spec == Init /\ [][Next]_vars /\ Fair
-----------------------------------------------------------------------------
Ended(i) == phase[i] \in {"failed", "stopped"}

\* A pool lives as long as it is used and no longer: a component that stopped, or
\* that could not start, has closed every pool it made (a first bind that was
\* under way still has the small one), and until then a lock that is held and a
\* check of the lock table have the pool their connection is from.
PoolsFollowUse ==
  \A i \in Instances :
    /\ Ended(i) => open[i] \subseteq (IF late[i] THEN {"live"} ELSE {})
    /\ guards[i] = 1 \/ Busy(Row(i)) => LockPool(i) \in open[i]

\* Every start comes to an end, and every stop that is begun, once the locks are let
\* go, and every bind: nobody waits for ever for a DDL lock, or for a pool.
Settled(i) == phase[i] \in {"serving", "failed", "stopped"} /\ ~ Busy(Live(i)) /\ ~ Busy(Row(i))
StartsAndStopsEnd == \A i \in Instances : []<>Settled(i)
=============================================================================

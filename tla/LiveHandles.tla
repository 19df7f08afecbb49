----------------------------- MODULE LiveHandles -----------------------------
(***************************************************************************)
(* The handles of a live configuration (live_config/handle.rs): the worker *)
(* publishes versions into a tokio watch channel, every LiveConfig, view   *)
(* or generated handle remembers the version it observed last, waits for a *)
(* change of the whole or of one field, or runs a task that calls back.    *)
(*                                                                         *)
(* Abstractions.  A configuration is a record of two fields; a view of any *)
(* depth is the set of fields that its projections leave visible; reading  *)
(* through LiveRef, Snapshot and Mapped is that projection of a version.   *)
(***************************************************************************)
EXTENDS Integers, Sequences, FiniteSets, SequencesExt

CONSTANTS
  Users,        \* handles that user code holds
  Tasks,        \* tasks started by on_change and on_change_by
  Values,       \* configurations: functions from Fields
  Fields,
  MaxVersions   \* bound: versions published

ASSUME HandlesAssumption == Users \cap Tasks = {}

Handles == Users \cup Tasks

VARIABLES
  newest,    \* the version in the channel: its number and value
  closed,    \* the sender was dropped
  known,     \* per handle: version and value observed last, fields in view, fields watched
  mode,      \* per handle: "none", "idle", "any" or "by" (waiting for a change of
             \* any kind, or of its fields), "compare", "call", "ended"
  base,      \* history: what the handle observed when it was made or last returned
  told       \* history: per task, the version its callback was given last, and
             \* before that the one observed when it was spawned

handlesVars == <<newest, closed, known, mode, base, told>>

Newest == newest.ver
Current == newest.seen
Project(value, fields) == [f \in fields |-> value[f]]
Same(x, y, fields) == Project(x, fields) = Project(y, fields)
Nothing == [ver |-> 0, seen |-> CHOOSE v \in Values : TRUE]
Seen(h) == [ver |-> known[h].ver, seen |-> known[h].seen]
-----------------------------------------------------------------------------
HandlesInit ==
  /\ newest \in [ver : {1}, seen : Values] /\ closed = FALSE
  /\ known = [h \in Handles |->
       [ver |-> 0, seen |-> Nothing.seen, view |-> Fields, watch |-> Fields]]
  /\ mode = [h \in Handles |-> "none"]
  /\ base = [h \in Handles |-> Nothing]
  /\ told = [g \in Tasks |-> Nothing.seen]

\* The worker sends a version; the last sender goes when the worker ends.
NewVersion(v) ==
  /\ ~ closed /\ Newest < MaxVersions
  /\ newest' = [ver |-> Newest + 1, seen |-> v]
  /\ UNCHANGED <<closed, known, mode, base, told>>
DropSender == ~ closed /\ closed' = TRUE /\ UNCHANGED <<newest, known, mode, base, told>>

\* borrow_and_update: the newest version is taken and marked as seen.
Observed(h) == [known[h] EXCEPT !.ver = Newest, !.seen = Current]
Observe(h) == known' = [known EXCEPT ![h] = Observed(h)]
\* The call returns: what it observed is the base of the next one.
Return(h) ==
  /\ Observe(h)
  /\ base' = [base EXCEPT ![h] = newest]
Goes(h, m) == mode' = [mode EXCEPT ![h] = m]

\* LiveConfig::new, by bind and bind_all.
Bind(h) ==
  /\ mode[h] = "none" /\ h \in Users
  /\ Return(h) /\ Goes(h, "idle") /\ UNCHANGED <<newest, closed, told>>

\* clone, view and fields: a handle of its own that goes on from what the
\* handle it is taken from has observed, with some of its fields in view.  Here
\* it takes that handle's place; SpawnTask keeps both.
Taken(h, fields) == [known[h] EXCEPT !.view = fields, !.watch = fields]
View(h, fields) ==
  /\ h \in Users /\ mode[h] = "idle" /\ fields \subseteq known[h].view
  /\ known' = [known EXCEPT ![h] = Taken(h, fields)]
  /\ UNCHANGED <<newest, closed, mode, base, told>>

\* on_change and on_change_by spawn a task that works on a clone.
Kind(fields) == IF fields = Fields THEN "any" ELSE "by"
Loop(fields) == IF Kind(fields) = "any" THEN "any" ELSE "compare"
SpawnTask(h, g, fields) ==
  /\ mode[h] = "idle" /\ mode[g] = "none" /\ g \in Tasks /\ fields \subseteq known[h].view
  /\ known' = [known EXCEPT ![g] = Taken(h, fields)]
  /\ base' = [base EXCEPT ![g] = base[h]]
  /\ told' = [told EXCEPT ![g] = known[h].seen]
  /\ Goes(g, Loop(fields)) /\ UNCHANGED <<newest, closed>>

\* get and read do not observe: the handle stays where it was.
GetObserves(h) == known' = [known EXCEPT ![h].ver = Newest]
Get(h) == UNCHANGED known
Read(h) ==
  /\ mode[h] = "idle"
  /\ Get(h) /\ UNCHANGED <<newest, closed, mode, base, told>>

\* changed and changed_by are called; changed_by compares before it waits.
Changed(h) ==
  /\ h \in Users /\ mode[h] = "idle" /\ Goes(h, "any")
  /\ known' = [known EXCEPT ![h].watch = known[h].view]
  /\ UNCHANGED <<newest, closed, base, told>>
ChangedBy(h, fields) ==
  /\ h \in Users /\ mode[h] = "idle" /\ fields \subseteq known[h].view
  /\ known' = [known EXCEPT ![h].watch = fields]
  /\ Goes(h, "compare") /\ UNCHANGED <<newest, closed, base, told>>

\* What a handle does when it has a change: a task calls back, a user returns.
Hit(h) == IF h \in Tasks THEN "call" ELSE "idle"

\* One round of changed_when: the newest version against the one observed.
Compare(h) ==
  /\ mode[h] = "compare"
  /\ IF Same(known[h].seen, Current, known[h].watch)
     THEN Observe(h) /\ Goes(h, "by") /\ UNCHANGED base
     ELSE Return(h) /\ Goes(h, Hit(h))
  /\ UNCHANGED <<newest, closed, told>>

\* Receiver::changed returns: there is a version it has not seen, or, only
\* when there is none, the sender is gone (LiveConfigClosed).
Wakes(h) == known[h].ver < Newest
Wake(h) ==
  /\ Wakes(h)
  /\ \/ mode[h] = "any" /\ Return(h) /\ Goes(h, Hit(h))
     \/ mode[h] = "by" /\ Goes(h, "compare") /\ UNCHANGED <<known, base>>
  /\ UNCHANGED <<newest, closed, told>>
ClosedKeepsOn(h) ==
  /\ mode[h] \in {"any", "by"} /\ ~ Wakes(h) /\ closed
  /\ base' = [base EXCEPT ![h] = Seen(h)]
  /\ Goes(h, IF h \in Tasks THEN Loop(known[h].view) ELSE "idle")
  /\ UNCHANGED <<newest, closed, known, told>>
Closed(h) ==
  /\ mode[h] \in {"any", "by"} /\ ~ Wakes(h) /\ closed
  /\ base' = [base EXCEPT ![h] = Seen(h)]
  /\ Goes(h, IF h \in Tasks THEN "ended" ELSE "idle")
  /\ UNCHANGED <<newest, closed, known, told>>

\* The callback is given the version that was observed, not a newer one; a
\* panic in it is caught and changes nothing.  Then the loop goes on.
CalledWithNewest(g) == Current
CalledWith(g) == known[g].seen
CallBack(g) ==
  /\ g \in Tasks /\ mode[g] = "call"
  /\ told' = [told EXCEPT ![g] = CalledWith(g)]
  /\ Goes(g, Loop(known[g].view)) /\ UNCHANGED <<newest, closed, known, base>>

\* A future dropped while it waits: what was compared stays observed.
Cancel(h) ==
  /\ h \in Users /\ mode[h] \in {"any", "by"}
  /\ base' = [base EXCEPT ![h] = Seen(h)]
  /\ Goes(h, "idle") /\ UNCHANGED <<newest, closed, known, told>>
\* The guard is dropped: the task is aborted where it waits.
Abort(g) ==
  /\ g \in Tasks /\ mode[g] \in {"any", "by"}
  /\ Goes(g, "ended") /\ UNCHANGED <<newest, closed, known, base, told>>

Step(h) == Compare(h) \/ Wake(h) \/ Closed(h) \/ CallBack(h)
HandlesNext ==
  \/ DropSender
  \/ \E v \in Values : NewVersion(v)
  \/ \E h \in Handles : Step(h) \/ Bind(h) \/ Read(h) \/ Cancel(h) \/ Abort(h)
  \/ \E h \in Handles : Changed(h)
  \/ \E h \in Users, g \in Handles, fields \in (SUBSET Fields) \ {{}} :
        ChangedBy(h, fields) \/ View(h, fields) \/ SpawnTask(h, g, fields)

\* The runtime polls every woken task; user code calls and cancels as it likes.
HandlesSpec == HandlesInit /\ [][HandlesNext]_handlesVars /\ \A h \in Handles : WF_handlesVars(Step(h))
-----------------------------------------------------------------------------
\* What a handle has to compare: its fields in the version given.
Shows(h, value) == Project(value, known[h].watch)

\* Nobody sleeps through a change: a handle that waits and has no version
\* left to look at sees in its fields what it observed when it last returned,
\* and one that waits for any change has seen the newest version.
NoChangeMissed ==
  \A h \in Handles : mode[h] \in {"any", "by"} /\ ~ Wakes(h) =>
    /\ Shows(h, Current) = Shows(h, base[h].seen)
    /\ mode[h] = "any" => base[h].ver = Newest

\* A callback for some fields is only called with a change of them: never with
\* what it was given last, or what was observed when it was registered,
\* whatever versions are skipped or come in between.
CallbacksChange ==
  [][\A g \in Tasks : mode[g] = "call" /\ mode'[g] # "call" /\ Kind(known[g].view) = "by" =>
       Shows(g, told'[g]) # Shows(g, told[g])]_handlesVars

\* When a task has nothing left to look at, its callback was last given what
\* the newest version shows, or was never due.
CallbacksCatchUp ==
  \A g \in Tasks : mode[g] \in {"any", "by"} /\ ~ Wakes(g) => Shows(g, told[g]) = Shows(g, Current)

\* Together: whoever waits has nothing left to be told.
NothingMissed == NoChangeMissed /\ CallbacksCatchUp

\* After the source is closed, and not before, every wait returns and every task
\* ends, once it has called back with the changes that are left.
WaitsEnd ==
  /\ \A h \in Users : (closed /\ mode[h] # "none") ~> mode[h] = "idle"
  /\ \A g \in Tasks : (closed /\ mode[g] # "none") ~> mode[g] = "ended"
=============================================================================

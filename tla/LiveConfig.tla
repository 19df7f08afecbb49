----------------------------- MODULE LiveConfig -----------------------------
(***************************************************************************)
(* The live config of one database pool: the worker task                   *)
(* (live_config/worker.rs), the connection it owns (live_config/sqlx) and  *)
(* the triggers of the config table (sql/postgres/live_config.sql).        *)
(*                                                                         *)
(* The worker runs its queries one after the other; the database changes   *)
(* between any two of them.  A query reads one snapshot.  Values are known *)
(* by the revision they belong to, a struct by the revisions it was merged *)
(* from.  Faults (a connection that dies, a query that fails) happen at    *)
(* any time, at most MaxFaults times.                                      *)
(***************************************************************************)
EXTENDS Integers, FiniteSets

CONSTANTS
    Namespace,      \* the namespaces of the config table
    Binding,        \* the structs the program binds
    Uses,           \* Uses[b]: the namespaces struct b is made of
    Undecodable,    \* <<b, n, r>>: serde cannot make struct b of revision r of n
    NoBinding,
    MaxRevision,    \* bound: MaxRevision[n] changes of namespace n
    MaxFaults       \* bound: failures

ASSUME LiveConfigAssumption ==
    /\ Uses \in [Binding -> (SUBSET Namespace) \ {{}}]
    /\ Undecodable \subseteq Binding \X Namespace \X (Nat \ {0})
    /\ NoBinding \notin Binding
    /\ MaxRevision \in [Namespace -> Nat] /\ MaxFaults \in Nat

VARIABLES
    revision,       \* the revision table
    push,           \* has_push: PostgreSQL; the other databases are only polled
    link,           \* the connection: alive, dead but not noticed, dropped
    inbox,          \* notifications sent on it and not received
    pc,             \* what the worker is doing
    job,            \* the struct it is binding, or NoBinding
    todo,           \* the namespaces it still has to load
    states,         \* Worker::states
    bind,           \* how far the last bind of every struct got
    view,           \* the revisions the struct behind the watch channel was made of;
                    \* before it is bound, those committed when it was last asked for
    shutdown,       \* the CancellationToken
    faults          \* counter for the bound

linkVars == <<push, link, inbox>>
workVars == <<pc, job, todo>>
vars == <<revision, linkVars, workVars, states, bind, view, shutdown, faults>>

\* The revision of a namespace that is not in states.
Absent == -1

\* The bindings the worker keeps: pushed last of all in a bind that succeeds.
Bound == {b \in Binding : bind[b] = "ok"}

Init ==
    /\ revision = [n \in Namespace |-> 0]
    /\ push \in BOOLEAN
    /\ link = "up"
    /\ inbox = {}
    /\ pc = "loop"
    /\ job = NoBinding
    /\ todo = {}
    /\ states = [n \in Namespace |-> [revision |-> Absent, effective |-> FALSE]]
    /\ bind = [b \in Binding |-> "idle"]
    /\ view = [b \in Binding |-> [n \in Uses[b] |-> 0]]
    /\ shutdown = FALSE
    /\ faults = 0
-----------------------------------------------------------------------------
(* The database.                                                           *)

\* A transaction that changes rows of the namespaces S commits: the triggers
\* have counted their revisions up (once per row; here by one, since only their
\* order matters) and the notifications go out.
Write(S) ==
    /\ \A n \in S : revision[n] < MaxRevision[n]
    /\ revision' = [n \in Namespace |-> IF n \in S THEN revision[n] + 1 ELSE revision[n]]
    /\ inbox' = IF push /\ link = "up" THEN inbox \cup {<<n, revision'[n]>> : n \in S} ELSE inbox
    /\ UNCHANGED <<push, link>>

\* The transaction of somebody else.  (After the worker ended it reaches nobody.)
Commit ==
    /\ pc # "closed"
    /\ \E S \in (SUBSET Namespace) \ {{}} : Write(S)
    /\ UNCHANGED <<workVars, states, bind, view, shutdown, faults>>

\* The connection dies and nobody notices; nothing more is sent on it.
LinkDies ==
    /\ push
    /\ link = "up"
    /\ faults < MaxFaults
    /\ link' = "cut"
    /\ faults' = faults + 1
    /\ UNCHANGED <<revision, push, inbox, workVars, states, bind, view, shutdown>>
-----------------------------------------------------------------------------
(* The callers: bind and bind_all send a command, close cancels the token. *)

Ask(b) ==
    /\ bind[b] \in {"idle", "failed"}
    /\ bind' = [bind EXCEPT ![b] = IF pc = "closed" THEN "closed" ELSE "asked"]
    /\ view' = [view EXCEPT ![b] = [n \in Uses[b] |-> revision[n]]]
    /\ UNCHANGED <<revision, linkVars, workVars, states, shutdown, faults>>

Close ==
    /\ ~shutdown
    /\ shutdown' = TRUE
    /\ UNCHANGED <<revision, linkVars, workVars, states, bind, view, faults>>
-----------------------------------------------------------------------------
(* Queries.  They are possible on a live connection.  One that fails drops *)
(* a broken listener and leaves one that only refused a statement.         *)

\* Mutant: a broken listener is kept.
QueryFailsOnly ==
    /\ \/ link = "up" /\ faults < MaxFaults /\ faults' = faults + 1
       \/ link # "up" /\ UNCHANGED faults
    /\ UNCHANGED linkVars

QueryFails ==
    /\ \/ /\ link = "up"
          /\ faults < MaxFaults
          /\ faults' = faults + 1
          /\ link' \in IF push THEN {"up", "dropped"} ELSE {"up"}
       \/ link # "up" /\ link' = "dropped" /\ UNCHANGED faults
    /\ inbox' = IF link' = "dropped" THEN {} ELSE inbox
    /\ UNCHANGED push

\* b can be decoded from the namespaces as st holds them.
Decodes(b, st) == \A n \in Uses[b] : <<b, n, st[n].revision>> \notin Undecodable

Merged(b, st) == [n \in Uses[b] |-> st[n].revision]

\* Mutant: a decode error forgets that n was in effect before.
UpdateForgets(n) ==
    /\ revision[n] > states[n].revision
    /\ LET users == {b \in Bound : n \in Uses[b]}
           st == [states EXCEPT ![n].revision = revision[n]]
       IN  /\ states' = [st EXCEPT ![n].effective = @ /\ \A b \in users : Decodes(b, st)]
           /\ view' = [b \in Binding |-> IF states[n].effective /\ b \in users /\ Decodes(b, st)
                                           THEN Merged(b, st) ELSE view[b]]

\* update(n, loaded) with what the load just read: a newer revision is kept,
\* and every binding that uses n is merged again and published if it decodes.
\* Nothing is in effect for n before the first bind of it succeeded.
Update(n) ==
    IF revision[n] <= states[n].revision
      THEN UNCHANGED <<states, view>>
      ELSE /\ states' = [states EXCEPT ![n].revision = revision[n]]
           /\ view' = [b \in Binding |->
                 IF states[n].effective /\ b \in Bound /\ n \in Uses[b] /\ Decodes(b, states')
                   THEN Merged(b, states') ELSE view[b]]
-----------------------------------------------------------------------------
(* The worker's loop: a biased select! takes the token first, then         *)
(* commands, then the timers and signals, which may be ready in any order. *)
(* The polls of one turn are one step here: a token that is cancelled      *)
(* between them (see LiveConfigSource) changes nothing but whose step it is.*)

Idle == pc = "loop" /\ link # "dropped" /\ ~shutdown
NoCommand == \A b \in Binding : bind[b] # "asked"

\* Mutant: commands that are still in the channel are forgotten.
ExitSilently ==
    /\ pc = "loop"
    /\ shutdown
    /\ pc' = "closed"
    /\ link' = "dropped"
    /\ inbox' = {}
    /\ UNCHANGED <<revision, push, job, todo, states, bind, view, shutdown, faults>>

\* The loop ends, or shutdown() wins while the listener is rebuilt; commands
\* still in the channel are dropped with it, which their callers notice.
Exit ==
    /\ pc = "loop"
    /\ shutdown
    /\ pc' = "closed"
    /\ link' = "dropped"
    /\ inbox' = {}
    /\ bind' = [b \in Binding |-> IF bind[b] = "asked" THEN "closed" ELSE bind[b]]
    /\ UNCHANGED <<revision, push, job, todo, states, view, shutdown, faults>>

\* rebuild_listener: LISTEN on a new connection, then compare all revisions.
\* An attempt that fails changes nothing and is repeated RETRY_INTERVAL later.
Rebuild ==
    /\ pc = "loop"
    /\ link = "dropped"
    /\ link' = "up"
    /\ pc' = "revisions"
    /\ UNCHANGED <<revision, push, inbox, job, todo, states, bind, view, shutdown, faults>>

TakeBind(b) ==
    /\ Idle
    /\ bind[b] = "asked"
    /\ job' = b
    /\ pc' = "seed"
    /\ UNCHANGED <<revision, linkVars, todo, states, bind, view, shutdown, faults>>

Poll ==
    /\ Idle
    /\ NoCommand
    /\ pc' = "revisions"
    /\ UNCHANGED <<revision, linkVars, job, todo, states, bind, view, shutdown, faults>>

\* trim_history touches a table nobody here reads; it matters when it fails.
TrimFails ==
    /\ Idle
    /\ NoCommand
    /\ QueryFails
    /\ UNCHANGED <<revision, workVars, states, bind, view, shutdown>>

\* A notification, in any order: only one about a known namespace and a newer
\* revision makes the worker load.
ReceiveChanged(n, r) ==
    /\ Idle
    /\ NoCommand
    /\ inbox' = inbox \ {<<n, r>>}
    /\ IF states[n].revision \in 0 .. r - 1
         THEN pc' = "load" /\ todo' = {n}
         ELSE UNCHANGED <<pc, todo>>
    /\ UNCHANGED <<revision, push, link, job, states, bind, view, shutdown, faults>>

\* sqlx found the connection dead, made a new one and says so.
ReceiveReconnected ==
    /\ Idle
    /\ NoCommand
    /\ link = "cut"
    /\ link' = "up"
    /\ inbox' = {}
    /\ pc' = "revisions"
    /\ UNCHANGED <<revision, push, job, todo, states, bind, view, shutdown, faults>>

\* The same, but a timer or a command won the select! meanwhile and the future
\* that would have said so was dropped: nobody is told.
ReconnectUnnoticed ==
    /\ Idle
    /\ link = "cut"
    /\ link' = "up"
    /\ inbox' = {}
    /\ UNCHANGED <<revision, push, workVars, states, bind, view, shutdown, faults>>

\* sqlx reports any other error.
ReceiveFails ==
    /\ Idle
    /\ NoCommand
    /\ link = "cut"
    /\ link' = "dropped"
    /\ inbox' = {}
    /\ UNCHANGED <<revision, push, workVars, states, bind, view, shutdown, faults>>
-----------------------------------------------------------------------------
(* Binding and loading.                                                    *)

\* Mutant: namespaces that are known already are not read again.
SeedSkipsKnown ==
    /\ pc = "seed"
    /\ link = "up"
    /\ \E S \in SUBSET Uses[job] : Write(S)
    /\ todo' = {n \in Uses[job] : states[n].revision = Absent}
    /\ pc' = IF todo' = {} THEN "apply" ELSE "load"
    /\ UNCHANGED <<job, states, bind, view, shutdown, faults>>

\* One statement inserts the keys that are missing, in some of the namespaces.
SeedOk ==
    /\ pc = "seed"
    /\ link = "up"
    /\ \E S \in SUBSET Uses[job] : Write(S)
    /\ todo' = Uses[job]
    /\ pc' = "load"
    /\ UNCHANGED <<job, states, bind, view, shutdown, faults>>

BindFails ==
    /\ bind' = [bind EXCEPT ![job] = "failed"]
    /\ job' = NoBinding
    /\ todo' = {}
    /\ pc' = "loop"

SeedFails ==
    /\ pc = "seed"
    /\ QueryFails
    /\ BindFails
    /\ UNCHANGED <<revision, states, view, shutdown>>

\* What comes after the load of n: the next one, or the end of the job.
Loaded(n) ==
    /\ todo' = todo \ {n}
    /\ pc' = IF todo' # {} THEN "load" ELSE IF job = NoBinding THEN "loop" ELSE "apply"

LoadOk(n) ==
    /\ pc = "load"
    /\ link = "up"
    /\ Update(n)
    /\ Loaded(n)
    /\ UNCHANGED <<revision, linkVars, job, bind, shutdown, faults>>

\* It ends a bind, while sync_all goes on to the next namespace.
LoadFails(n) ==
    /\ pc = "load"
    /\ QueryFails
    /\ IF job = NoBinding THEN Loaded(n) /\ UNCHANGED <<job, bind>> ELSE BindFails
    /\ UNCHANGED <<revision, states, view, shutdown>>

\* The struct is made for the first time; only then the binding is remembered.
Publish ==
    /\ pc = "apply"
    /\ Decodes(job, states)
    /\ view' = [view EXCEPT ![job] = Merged(job, states)]
    /\ states' = [n \in Namespace |->
                     [states[n] EXCEPT !.effective = @ \/ n \in Uses[job]]]
    /\ bind' = [bind EXCEPT ![job] = "ok"]
    /\ job' = NoBinding
    /\ pc' = "loop"
    /\ UNCHANGED <<revision, linkVars, todo, shutdown, faults>>

DecodeFails ==
    /\ pc = "apply"
    /\ ~Decodes(job, states)
    /\ BindFails
    /\ UNCHANGED <<revision, linkVars, states, view, shutdown, faults>>

\* What sync_all reloads: the known namespaces with a greater revision.
Newer == {n \in Namespace : states[n].revision # Absent /\ revision[n] > states[n].revision}

RevisionsOk ==
    /\ pc = "revisions"
    /\ link = "up"
    /\ todo' = Newer
    /\ pc' = IF Newer = {} THEN "loop" ELSE "load"
    /\ UNCHANGED <<revision, linkVars, job, states, bind, view, shutdown, faults>>

RevisionsFail ==
    /\ pc = "revisions"
    /\ QueryFails
    /\ pc' = "loop"
    /\ UNCHANGED <<revision, job, todo, states, bind, view, shutdown>>
-----------------------------------------------------------------------------
Environment == Commit \/ LinkDies \/ Close \/ \E b \in Binding : Ask(b)

Receive ==
    \/ \E m \in inbox : ReceiveChanged(m[1], m[2])
    \/ ReceiveReconnected
    \/ ReconnectUnnoticed
    \/ ReceiveFails

Busy ==
    \/ SeedOk
    \/ SeedFails
    \/ \E n \in todo : LoadOk(n) \/ LoadFails(n)
    \/ Publish
    \/ DecodeFails
    \/ RevisionsOk
    \/ RevisionsFail

Next ==
    \/ Environment
    \/ Exit
    \/ Rebuild
    \/ \E b \in Binding : TakeBind(b)
    \/ Poll
    \/ TrimFails
    \/ Receive
    \/ Busy

Spec == Init /\ [][Next]_vars

\* Queries return, the poll timer ticks, the token is watched in every wait, and
\* the channel is a queue that the select! looks at first.  Nothing obliges a
\* notification to arrive or a listener to be rebuilt.
FairSpec ==
    /\ Spec
    /\ WF_vars(Busy)
    /\ WF_vars(Exit)
    /\ WF_vars(Poll)
    /\ \A b \in Binding : SF_vars(TakeBind(b))
-----------------------------------------------------------------------------
(* Properties.                                                             *)

\* The types of the state.  Every struct is made of revisions that were
\* loaded: Absent never gets into a view.
TypeOK ==
    /\ revision \in [Namespace -> Nat]
    /\ push \in BOOLEAN
    /\ link \in {"up", "cut", "dropped"}
    /\ inbox \subseteq Namespace \X Nat
    /\ pc \in {"loop", "seed", "load", "apply", "revisions", "closed"}
    /\ job \in Binding \cup {NoBinding}
    /\ todo \subseteq Namespace
    /\ states \in [Namespace -> [revision : {Absent} \cup Nat, effective : BOOLEAN]]
    /\ bind \in [Binding -> {"idle", "asked", "ok", "failed", "closed"}]
    /\ DOMAIN view = Binding
    /\ \A b \in Binding : view[b] \in [Uses[b] -> Nat]
    /\ shutdown \in BOOLEAN
    /\ faults \in 0 .. MaxFaults

\* Every struct handed out follows what the worker knows: unless it does not
\* decode, it was merged from exactly the revisions in states, whichever bind,
\* notification or poll brought them and whatever failed before.
BoundFollowsState ==
    \A b \in Bound : Decodes(b, states) => view[b] = Merged(b, states)

\* Readers see what LiveRegister promises: committed states that decode, not
\* older than the bind and never going back.
Register == INSTANCE LiveRegister WITH bound <- Bound
ReadersSeeRegister == Register!Spec

\* The database lets the listener be rebuilt, unless the worker has ended.
DatabaseAnswers == []<>(link # "dropped" \/ pc = "closed")

UpToDate(b) ==
    \/ \E n \in Uses[b] : <<b, n, revision[n]>> \in Undecodable
    \/ view[b] = [n \in Uses[b] |-> revision[n]]

\* Once changes, failures and binds stop, every struct handed out shows the latest
\* committed state, if that decodes, although notifications may be lost.
Converges ==
    DatabaseAnswers /\ <>[](NoCommand /\ job = NoBinding)
        => <>[](pc = "closed" \/ \A b \in Bound : UpToDate(b))

\* Every bind is answered, also one whose command the closing worker drops.
BindsAnswered ==
    DatabaseAnswers => \A b \in Binding : bind[b] = "asked" ~> bind[b] # "asked"

\* close() has an end, also while the database cannot be reached.
WorkerExits == shutdown ~> pc = "closed"

\* Nobody waits for ever: neither a bind nor close().
BindsAndCloseEnd == BindsAnswered /\ WorkerExits
=============================================================================

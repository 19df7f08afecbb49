-------------------------- MODULE LiveConfigSource --------------------------
(***************************************************************************)
(* Who holds the database connection of a live config source, and when     *)
(* (live_config/source.rs): the first bind takes the Store out of its slot,*)
(* opens it and hands it to a worker task; close() cancels the token, waits*)
(* for the worker if it finds one, and closes the Store if it finds it.    *)
(*                                                                         *)
(* What the worker does with a bind is the subject of LiveConfig; here it  *)
(* is answered one way or the other.  Callers are tasks on several threads.*)
(***************************************************************************)
EXTENDS FiniteSets

CONSTANT Caller     \* calls of bind or bind_all

ASSUME CallerAssumption == Caller \cap {"none", "waiting", "looked", "ended"} = {}

VARIABLES
    cancelled,      \* Inner::shutdown
    store,          \* where the Store is
    cell,           \* Inner::commands is set
    handle,         \* Inner::handle is Some
    worker,         \* the worker task: none, waiting, looked (at the token: not
                    \* cancelled), ended, or the bind it is at
    place,          \* where every call is
    late,           \* history: the calls made after close() had begun
    closer          \* where close() is

sourceVars == <<cancelled, store, cell, handle, worker, place, late, closer>>

\* How a call may end: dropped is a future that its caller gave up.
Ended == {"ok", "failed", "closed", "dropped"}

SourceInit ==
    /\ cancelled = FALSE
    /\ store = "slot"
    /\ cell = FALSE
    /\ handle = FALSE
    /\ worker = "none"
    /\ place = [c \in Caller |-> "idle"]
    /\ late = {}
    /\ closer = "idle"
-----------------------------------------------------------------------------
(* bind: get_or_try_init of the command channel, then send and wait.       *)

Goto(c, where) == place' = [place EXCEPT ![c] = where]

Call(c) ==
    /\ place[c] = "idle"
    /\ Goto(c, "init")
    /\ late' = IF cancelled THEN late \cup {c} ELSE late
    /\ UNCHANGED <<cancelled, store, cell, handle, worker, closer>>

CellIsSet(c) ==
    /\ place[c] = "init"
    /\ cell
    /\ Goto(c, "send")
    /\ UNCHANGED <<cancelled, store, cell, handle, worker, late, closer>>

\* Mutant: the initialisations are not serialised.
NoPermit == ~cell

\* The OnceCell runs one initialisation at a time.
Permit == ~cell /\ \A c \in Caller : place[c] \notin {"opening", "spawned"}

InitClosed(c) ==
    /\ place[c] = "init"
    /\ Permit
    /\ cancelled \/ store # "slot"
    /\ Goto(c, "closed")
    /\ UNCHANGED <<cancelled, store, cell, handle, worker, late, closer>>

TakeStore(c) ==
    /\ place[c] = "init"
    /\ Permit
    /\ ~cancelled
    /\ store = "slot"
    /\ store' = "opening"
    /\ Goto(c, "opening")
    /\ UNCHANGED <<cancelled, cell, handle, worker, late, closer>>

\* The database cannot be reached or its tables do not fit: put back for the next bind.
OpenFails(c) ==
    /\ place[c] = "opening"
    /\ store' = "slot"
    /\ Goto(c, "failed")
    /\ UNCHANGED <<cancelled, cell, handle, worker, late, closer>>

Spawn(c) ==
    /\ place[c] = "opening"
    /\ store' = "worker"
    /\ worker' = "waiting"
    /\ Goto(c, "spawned")
    /\ UNCHANGED <<cancelled, cell, handle, late, closer>>

\* The task runs already when its handle is put away.
KeepHandle(c) ==
    /\ place[c] = "spawned"
    /\ handle' = TRUE
    /\ cell' = TRUE
    /\ Goto(c, "send")
    /\ UNCHANGED <<cancelled, store, worker, late, closer>>

Send(c) ==
    /\ place[c] = "send"
    /\ Goto(c, IF worker = "ended" THEN "closed" ELSE "sent")
    /\ UNCHANGED <<cancelled, store, cell, handle, worker, late, closer>>

\* The caller drops the future at one of its awaits; what it owned goes with it.
\* (A command that was sent is still carried out, for nobody.)
Drop(c) ==
    /\ place[c] \in {"init", "opening", "send", "sent"}
    /\ store' = IF place[c] = "opening" THEN "lost" ELSE store
    /\ Goto(c, "dropped")
    /\ UNCHANGED <<cancelled, cell, handle, worker, late, closer>>
-----------------------------------------------------------------------------
(* The worker task.  Its biased select! polls the token first and then, as *)
(* a step of its own, the channel: other threads may be between the two.   *)

\* Mutant: the select! is not biased, and what is in the channel is taken first.
CommandsFirst ==
    /\ worker = "waiting"
    /\ ~cancelled \/ \E c \in Caller : place[c] = "sent"
    /\ worker' = "looked"
    /\ UNCHANGED <<cancelled, store, cell, handle, place, late, closer>>

FindsNotCancelled ==
    /\ worker = "waiting"
    /\ ~cancelled
    /\ worker' = "looked"
    /\ UNCHANGED <<cancelled, store, cell, handle, place, late, closer>>

TakesBind(c) ==
    /\ worker = "looked"
    /\ place[c] = "sent"
    /\ worker' = c
    /\ UNCHANGED <<cancelled, store, cell, handle, place, late, closer>>

\* It waits for one of them, or carries out what a timer or the listener reports.
FindsNoBind ==
    /\ worker = "looked"
    /\ \A c \in Caller : place[c] # "sent"
    /\ worker' = "waiting"
    /\ UNCHANGED <<cancelled, store, cell, handle, place, late, closer>>

AnswersBind(c) ==
    /\ worker = c
    /\ worker' = "waiting"
    /\ \E result \in {"ok", "failed"} :
          place' = IF place[c] = "sent" THEN [place EXCEPT ![c] = result] ELSE place
    /\ UNCHANGED <<cancelled, store, cell, handle, late, closer>>

\* Mutant: the commands it did not take are never answered.
WorkerEndsSilently ==
    /\ worker = "waiting"
    /\ cancelled
    /\ worker' = "ended"
    /\ store' = "closed"
    /\ UNCHANGED <<cancelled, cell, handle, place, late, closer>>

\* It closes its pool; the commands it did not take are dropped, and answered so.
WorkerEnds ==
    /\ worker = "waiting"
    /\ cancelled
    /\ worker' = "ended"
    /\ store' = "closed"
    /\ place' = [c \in Caller |-> IF place[c] = "sent" THEN "closed" ELSE place[c]]
    /\ UNCHANGED <<cancelled, cell, handle, late, closer>>
-----------------------------------------------------------------------------
(* close(), called once when the component stops.                          *)

CloseBegins ==
    /\ closer = "idle"
    /\ cancelled' = TRUE
    /\ closer' = "handle"
    /\ UNCHANGED <<store, cell, handle, worker, place, late>>

CloseTakesHandle ==
    /\ closer = "handle"
    /\ closer' = IF handle THEN "join" ELSE "store"
    /\ handle' = FALSE
    /\ UNCHANGED <<cancelled, store, cell, worker, place, late>>

CloseJoins ==
    /\ closer = "join"
    /\ worker = "ended"
    /\ closer' = "store"
    /\ UNCHANGED <<cancelled, store, cell, handle, worker, place, late>>

\* Mutant: the pool is closed whoever is using it.
CloseAnyStore ==
    /\ closer = "store"
    /\ store' = "closed"
    /\ closer' = "returned"
    /\ UNCHANGED <<cancelled, cell, handle, worker, place, late>>

CloseTakesStore ==
    /\ closer = "store"
    /\ store' = IF store = "slot" THEN "closed" ELSE store
    /\ closer' = "returned"
    /\ UNCHANGED <<cancelled, cell, handle, worker, place, late>>
-----------------------------------------------------------------------------
Registers(c) ==
    \/ CellIsSet(c)
    \/ InitClosed(c)
    \/ TakeStore(c)
    \/ OpenFails(c)
    \/ Spawn(c)
    \/ KeepHandle(c)
    \/ Send(c)

Worker ==
    \/ FindsNotCancelled
    \/ \E c \in Caller : TakesBind(c) \/ AnswersBind(c)
    \/ FindsNoBind
    \/ WorkerEnds

Closing == CloseTakesHandle \/ CloseJoins \/ CloseTakesStore

SourceNext ==
    \/ \E c \in Caller : Call(c) \/ Registers(c) \/ Drop(c)
    \/ Worker
    \/ CloseBegins
    \/ Closing

\* Tasks are polled and database calls return; nobody has to call, drop or close.
SourceSpec ==
    /\ SourceInit /\ [][SourceNext]_sourceVars
    /\ \A c \in Caller : WF_sourceVars(Registers(c))
    /\ WF_sourceVars(Worker)
    /\ WF_sourceVars(Closing)
-----------------------------------------------------------------------------
(* Properties.                                                             *)

\* The types of the state, part of OneOwner.
SourceTypeOK ==
    /\ cancelled \in BOOLEAN
    /\ store \in {"slot", "opening", "worker", "closed", "lost"}
    /\ cell \in BOOLEAN
    /\ handle \in BOOLEAN
    /\ worker \in {"none", "waiting", "looked", "ended"} \cup Caller
    /\ place \in [Caller -> {"idle", "init", "opening", "spawned", "send", "sent"} \cup Ended]
    /\ late \subseteq Caller
    /\ closer \in {"idle", "handle", "join", "store", "returned"}

\* The pool of one connection has one user: the call that opens it, or the worker
\* from the moment it runs until it has closed it.
OneOwner ==
    /\ SourceTypeOK
    /\ Cardinality({c \in Caller : place[c] = "opening"}) = IF store = "opening" THEN 1 ELSE 0
    /\ store = "worker" <=> worker \notin {"none", "ended"}

\* Binds called once close() has begun report LiveConfigClosed, whatever the first bind
\* and the worker are doing at that time, but for one at most: that which the worker
\* takes in the turn that found the token not cancelled.
LateBindsFail ==
    \A c, d \in late :
        place[c] \in {"ok", "failed"} /\ place[d] \in {"ok", "failed"} => c = d

\* LiveConfigClosed is only reported when close() has begun, or when a caller
\* dropped the first bind while it was connecting: the Store went with it.
ClosedWhenClosing == (\E c \in Caller : place[c] = "closed") => cancelled \/ store = "lost"

\* A source is closed for its callers from the moment close() begins, but for the turn
\* the worker is in, and not before.
ClosedMeansClosed == LateBindsFail /\ ClosedWhenClosing

\* Every bind ends and close() returns, and a worker runs at most until then or
\* until the bind that is just starting it lets it see the token.
CallsEnd ==
    /\ \A c \in Caller : place[c] = "init" ~> place[c] \in Ended
    /\ cancelled ~> closer = "returned" /\ [](worker \in {"none", "ended"})
=============================================================================

------------------------------- MODULE DbLock -------------------------------
(***************************************************************************)
(* The locks of a database (hygiea-db/src/lock/sqlx/): a transaction-level *)
(* advisory lock or an uncommitted row in PostgreSQL, GET_LOCK in MySQL.   *)
(* Either way the lock belongs to a session of the server, and the client  *)
(* keeps the connection to it out of the pool for as long as it holds or   *)
(* waits.  A connection goes back to the pool only after a statement that  *)
(* certainly cleaned it up; in all other cases it is closed.               *)
(*                                                                         *)
(* A future can be dropped at every await.  Sessions die, statements fail, *)
(* and the server finds out late that a client is gone.                    *)
(***************************************************************************)
EXTENDS FiniteSets, Integers

CONSTANTS
    Caller,         \* who calls, one lock at a time each
    Key,
    Session,        \* sessions of the server
    NoSession, NoKey,
    MaxConnections  \* of the pool

ASSUME DbLockAssumption ==
    /\ NoSession \notin Session
    /\ NoKey \notin Key
    /\ Caller \cap {"idle", "gone"} = {}
    /\ MaxConnections \in Nat \ {0}

VARIABLES
    backend,        \* the database: pg or mysql
    alive,          \* the session exists on the server
    owner,          \* owner[s]: the key that session s has locked
    want,           \* want[s]: the key it waits for
    dirty,          \* a transaction is open, or the wait_timeout is raised
    client,         \* who has the connection: idle in the pool, a caller, gone
    pc,             \* where every call is
    key,            \* what it locks
    conn,           \* its connection
    pool            \* open, closing or closed

serverVars == <<alive, owner, want, dirty>>
vars == <<backend, serverVars, client, pc, key, conn, pool>>

Init ==
    /\ backend \in {"pg", "mysql"}
    /\ alive = [s \in Session |-> FALSE]
    /\ owner = [s \in Session |-> NoKey]
    /\ want = [s \in Session |-> NoKey]
    /\ dirty = [s \in Session |-> FALSE]
    /\ client = [s \in Session |-> "gone"]
    /\ pc = [c \in Caller |-> "idle"]
    /\ key \in [Caller -> Key]
    /\ conn = [c \in Caller |-> NoSession]
    /\ pool = "open"

Goto(c, where) == pc' = [pc EXCEPT ![c] = where]
-----------------------------------------------------------------------------
(* The server.                                                             *)

Free(k) == \A s \in Session : owner[s] # k

\* The session ends, and with it its transaction and its locks.
End(s) ==
    /\ alive' = [alive EXCEPT ![s] = FALSE]
    /\ owner' = [owner EXCEPT ![s] = NoKey]
    /\ want' = [want EXCEPT ![s] = NoKey]
    /\ dirty' = [dirty EXCEPT ![s] = FALSE]

\* No order among those who wait.
Grant(s) ==
    /\ want[s] # NoKey
    /\ Free(want[s])
    /\ owner' = [owner EXCEPT ![s] = want[s]]
    /\ want' = [want EXCEPT ![s] = NoKey]
    /\ UNCHANGED <<backend, alive, dirty, client, pc, key, conn, pool>>

\* A PostgreSQL session that waits for a lock does not look at its client.
NoticeGone(s) ==
    /\ alive[s]
    /\ client[s] = "gone"
    /\ backend = "mysql" \/ want[s] = NoKey
    /\ End(s)
    /\ UNCHANGED <<backend, client, pc, key, conn, pool>>

\* Terminated, restarted, failed over, cut off.
SessionDies(s) ==
    /\ alive[s]
    /\ End(s)
    /\ UNCHANGED <<backend, client, pc, key, conn, pool>>
-----------------------------------------------------------------------------
(* The pool.                                                               *)

Open == {s \in Session : client[s] # "gone"}

\* c gives its connection back: closed if it is dead or the pool closes.
GiveBack(c) ==
    /\ client' = [client EXCEPT ![conn[c]] =
                     IF alive[conn[c]] /\ pool = "open" THEN "idle" ELSE "gone"]
    /\ conn' = [conn EXCEPT ![c] = NoSession]

\* c closes its connection: LockTx or Held is dropped before it is clean.
Discard(c) ==
    /\ client' = [client EXCEPT ![conn[c]] = "gone"]
    /\ conn' = [conn EXCEPT ![c] = NoSession]

Call(c, k) ==
    /\ pc[c] = "idle"
    /\ Goto(c, "acquire")
    /\ key' = [key EXCEPT ![c] = k]
    /\ UNCHANGED <<backend, serverVars, client, conn, pool>>

\* The first statement: BEGIN in PostgreSQL, GET_LOCK itself in MySQL.
First == IF backend = "pg" THEN "begin" ELSE "request"

TakeIdle(c, s) ==
    /\ pc[c] = "acquire"
    /\ pool = "open"
    /\ client[s] = "idle"
    /\ alive[s]
    /\ client' = [client EXCEPT ![s] = c]
    /\ conn' = [conn EXCEPT ![c] = s]
    /\ Goto(c, First)
    /\ UNCHANGED <<backend, serverVars, key, pool>>

\* The check before acquire finds a dead connection in the pool.
DropDead(s) ==
    /\ client[s] = "idle"
    /\ ~alive[s]
    /\ client' = [client EXCEPT ![s] = "gone"]
    /\ UNCHANGED <<backend, serverVars, pc, key, conn, pool>>

New == {s \in Session : ~alive[s] /\ client[s] = "gone"}

Connect(c) ==
    /\ pc[c] = "acquire"
    /\ pool = "open"
    /\ Cardinality(Open) < MaxConnections
    /\ New # {}
    /\ LET s == CHOOSE t \in New : TRUE
       IN  /\ alive' = [alive EXCEPT ![s] = TRUE]
           /\ client' = [client EXCEPT ![s] = c]
           /\ conn' = [conn EXCEPT ![c] = s]
    /\ Goto(c, First)
    /\ UNCHANGED <<backend, owner, want, dirty, key, pool>>

\* acquire_timeout, no database, or the pool is closed.
AcquireFails(c) ==
    /\ pc[c] = "acquire"
    /\ Goto(c, "idle")
    /\ UNCHANGED <<backend, serverVars, client, key, conn, pool>>

Close ==
    /\ pool = "open"
    /\ pool' = "closing"
    /\ client' = [s \in Session |-> IF client[s] = "idle" THEN "gone" ELSE client[s]]
    /\ UNCHANGED <<backend, serverVars, pc, key, conn>>

\* It waits for the connections that are out.
CloseReturns ==
    /\ pool = "closing"
    /\ Open = {}
    /\ pool' = "closed"
    /\ UNCHANGED <<backend, serverVars, client, pc, key, conn>>
-----------------------------------------------------------------------------
(* Taking the lock.                                                        *)

Begin(c) ==
    /\ pc[c] = "begin"
    /\ alive[conn[c]]
    /\ dirty' = [dirty EXCEPT ![conn[c]] = TRUE]
    /\ Goto(c, "request")
    /\ UNCHANGED <<backend, alive, owner, want, client, key, conn, pool>>

\* The server gets the statement.  A session gets what it has once more.
Request(c) ==
    /\ pc[c] = "request"
    /\ alive[conn[c]]
    /\ dirty' = [dirty EXCEPT ![conn[c]] = TRUE]
    /\ want' = [want EXCEPT ![conn[c]] = IF owner[conn[c]] = key[c] THEN NoKey ELSE key[c]]
    /\ Goto(c, "waiting")
    /\ UNCHANGED <<backend, alive, owner, client, key, conn, pool>>

\* In MySQL the outcome of GET_LOCK is a variable of the session, read by one more query.
Acquired(c) ==
    /\ pc[c] = "waiting"
    /\ owner[conn[c]] = key[c]
    /\ Goto(c, IF backend = "pg" THEN "holding" ELSE "reading")
    /\ UNCHANGED <<backend, serverVars, client, key, conn, pool>>

ReadAcquired(c) ==
    /\ pc[c] = "reading"
    /\ alive[conn[c]]
    /\ Goto(c, "holding")
    /\ UNCHANGED <<backend, serverVars, client, key, conn, pool>>

\* Mutant: the error that says so is taken for success.
RefusedHolds(c) ==
    /\ pc[c] = "waiting"
    /\ want[conn[c]] # NoKey
    /\ ~Free(want[conn[c]])
    /\ want' = [want EXCEPT ![conn[c]] = NoKey]
    /\ Goto(c, "holding")
    /\ UNCHANGED <<backend, alive, owner, dirty, client, key, conn, pool>>

\* It was only tried, or the time is over.  (Reading that in MySQL is left out: a failure
\* there has the same outcome as one while restoring, but for the result of the call.)
Refused(c) ==
    /\ pc[c] = "waiting"
    /\ want[conn[c]] # NoKey
    /\ ~Free(want[conn[c]])
    /\ want' = [want EXCEPT ![conn[c]] = NoKey]
    /\ Goto(c, "restoring")
    /\ UNCHANGED <<backend, alive, owner, dirty, client, key, conn, pool>>

\* ROLLBACK, or wait_timeout back to its default.
Restore(c) ==
    /\ pc[c] = "restoring"
    /\ alive[conn[c]]
    /\ dirty' = [dirty EXCEPT ![conn[c]] = FALSE]
    /\ GiveBack(c)
    /\ Goto(c, "idle")
    /\ UNCHANGED <<backend, alive, owner, want, key, pool>>

\* release() is called or the guard dropped.
LetGo(c) ==
    /\ pc[c] = "holding"
    /\ Goto(c, "releasing")
    /\ UNCHANGED <<backend, serverVars, client, key, conn, pool>>

\* ROLLBACK, or RELEASE_LOCK and wait_timeout back to its default.
Release(c) ==
    /\ pc[c] = "releasing"
    /\ alive[conn[c]]
    /\ owner' = [owner EXCEPT ![conn[c]] = NoKey]
    /\ dirty' = [dirty EXCEPT ![conn[c]] = FALSE]
    /\ GiveBack(c)
    /\ Goto(c, "idle")
    /\ UNCHANGED <<backend, alive, want, key, pool>>

UsesConnection == {"begin", "request", "waiting", "reading", "restoring", "releasing"}

\* A statement fails, with the session or without.  (Whether the server carried it out
\* makes no difference, since it then sees the connection closed.)
Fail(c) ==
    /\ pc[c] \in UsesConnection
    /\ Discard(c)
    /\ Goto(c, "idle")
    /\ UNCHANGED <<backend, serverVars, key, pool>>

\* Mutant: the pool takes back what a dropped future had.
CancelGivesBack(c) ==
    /\ pc[c] \in UsesConnection \cup {"acquire"}
    /\ IF pc[c] = "acquire" THEN UNCHANGED <<client, conn>> ELSE GiveBack(c)
    /\ Goto(c, "idle")
    /\ UNCHANGED <<backend, serverVars, key, pool>>

\* Mutant: the place in the pool is kept until a statement ends that nobody reads.
CancelKeepsPlace(c) ==
    /\ pc[c] \in UsesConnection \cup {"acquire"}
    /\ conn' = [conn EXCEPT ![c] = NoSession]
    /\ Goto(c, "idle")
    /\ UNCHANGED <<backend, serverVars, client, key, pool>>

\* The future is dropped at an await: of the call, or of release().
Cancel(c) ==
    /\ pc[c] \in UsesConnection \cup {"acquire"}
    /\ IF pc[c] = "acquire" THEN UNCHANGED <<client, conn>> ELSE Discard(c)
    /\ Goto(c, "idle")
    /\ UNCHANGED <<backend, serverVars, key, pool>>
-----------------------------------------------------------------------------
Server(s) == NoticeGone(s) \/ Grant(s)

\* What happens to a call that nobody drops.
Step(c) ==
    \/ \E s \in Session : TakeIdle(c, s)
    \/ Connect(c)
    \/ AcquireFails(c)
    \/ Begin(c)
    \/ Request(c)
    \/ Acquired(c)
    \/ ReadAcquired(c)
    \/ Refused(c)
    \/ Restore(c)
    \/ Release(c)
    \/ Fail(c)

Next ==
    \/ \E s \in Session : Server(s) \/ SessionDies(s) \/ DropDead(s)
    \/ \E c \in Caller : \/ \E k \in Key : Call(c, k)
                         \/ Step(c)
                         \/ LetGo(c)
                         \/ Cancel(c)
    \/ Close
    \/ CloseReturns

Spec == Init /\ [][Next]_vars

\* Calls are polled and every statement has an outcome in the end, lock waits and
\* acquire by their timeouts; the server sees closed connections.
FairSpec ==
    /\ Spec
    /\ \A c \in Caller : WF_vars(Step(c))
    /\ \A s \in Session : WF_vars(Server(s))
    /\ WF_vars(CloseReturns)
-----------------------------------------------------------------------------
(* Properties.                                                             *)

\* The types of the state, part of CleanPool.
TypeOK ==
    /\ backend \in {"pg", "mysql"}
    /\ alive \in [Session -> BOOLEAN]
    /\ owner \in [Session -> Key \cup {NoKey}]
    /\ want \in [Session -> Key \cup {NoKey}]
    /\ dirty \in [Session -> BOOLEAN]
    /\ client \in [Session -> Caller \cup {"idle", "gone"}]
    /\ pc \in [Caller -> UsesConnection \cup {"idle", "acquire", "holding"}]
    /\ key \in [Caller -> Key]
    /\ conn \in [Caller -> Session \cup {NoSession}]
    /\ pool \in {"open", "closing", "closed"}

\* Nobody gets a connection from the pool that has a lock, a statement, a transaction
\* or a raised timeout on it, whichever await a call before was dropped or failed at.
CleanPool ==
    /\ TypeOK
    /\ \A s \in Session : client[s] = "idle" =>
          owner[s] = NoKey /\ want[s] = NoKey /\ ~dirty[s]

\* A guard means the lock, as long as its connection lives: what DistributedLock says.
holdersOf == [k \in Key |-> {c \in Caller : pc[c] = "holding" /\ key[c] = k}]
lostHolders == {c \in Caller : pc[c] = "holding" /\ ~alive[conn[c]]}
Abstract == INSTANCE DistributedLock WITH holders <- holdersOf, lost <- lostHolders
ImplementsLock == Abstract!Spec

HoldersLetGo == \A c \in Caller : []<>(pc[c] # "holding")

\* No lock outlives its guard for ever: also those that the server still gave to calls
\* that were dropped meanwhile.
LocksEnd == HoldersLetGo => \A s \in Session : owner[s] # NoKey ~> owner[s] = NoKey

\* close() returns once the guards are given up, whatever calls are under way.
CloseEnds == HoldersLetGo => (pool = "closing" ~> pool = "closed")

\* What guards hold ends with them: the locks on the server and the connections.
LocksAndPoolEnd == LocksEnd /\ CloseEnds
=============================================================================

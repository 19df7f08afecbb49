--------------------------- MODULE DatabaseProofs ---------------------------
(***************************************************************************)
(* Proofs about the locks of hygiea-db.  DbLock, for any number of         *)
(* callers, keys, sessions and connections: the pool is given clean        *)
(* connections only, and guards mean what DistributedLock says.            *)
(***************************************************************************)
EXTENDS DbLock, TLAPS

\* A connection that is out has one owner, and a call owns one from acquire to its end.
OneUser ==
    /\ \A c \in Caller : conn[c] # NoSession <=> pc[c] \notin {"idle", "acquire"}
    /\ \A c \in Caller, s \in Session : conn[c] = s <=> client[s] = c

\* The server keeps nothing for a session that has ended.
DeadAreClean ==
    \A s \in Session : ~alive[s] => owner[s] = NoKey /\ want[s] = NoKey /\ ~dirty[s]

\* A lock has one session.
LocksExclude == \A s, t \in Session : owner[s] # NoKey /\ owner[s] = owner[t] => s = t

\* What the session of a call has, by where the call is, if the session is still alive.
Has(c, k) == owner[conn[c]] = k
Wants(c, k) == want[conn[c]] = k
SessionOf(c) ==
    /\ pc[c] = "begin" => Has(c, NoKey) /\ Wants(c, NoKey) /\ ~dirty[conn[c]]
    /\ pc[c] \in {"request", "restoring"} => Has(c, NoKey) /\ Wants(c, NoKey)
    /\ pc[c] = "waiting" =>
          (Has(c, key[c]) /\ Wants(c, NoKey)) \/ (Has(c, NoKey) /\ Wants(c, key[c]))
    /\ pc[c] \in {"reading", "holding", "releasing"} => Has(c, key[c]) /\ Wants(c, NoKey)
SessionsFollowCalls == \A c \in Caller : conn[c] # NoSession /\ alive[conn[c]] => SessionOf(c)

\* The inductive invariant.
LInv ==
    /\ TypeOK /\ CleanPool /\ OneUser /\ DeadAreClean /\ LocksExclude /\ SessionsFollowCalls

\* At first nobody has called and no session is there.
LEMMA InitLInv == Init => LInv
BY DbLockAssumption
   DEF Init, LInv, TypeOK, CleanPool, OneUser, DeadAreClean, LocksExclude, SessionsFollowCalls
-----------------------------------------------------------------------------
(* The server's steps.                                                     *)

\* The end of a session keeps the invariant: what it had is gone with it.
LEMMA EndLInv ==
    ASSUME LInv, NEW s \in Session, End(s), UNCHANGED <<backend, client, pc, key, conn, pool>>
    PROVE  LInv'
<1> USE DbLockAssumption DEF LInv
<1>1. TypeOK' /\ CleanPool' /\ OneUser' /\ DeadAreClean' /\ LocksExclude'
    BY DEF End, TypeOK, CleanPool, OneUser, DeadAreClean, LocksExclude
<1>2. SessionsFollowCalls'
    <2> SUFFICES ASSUME NEW c \in Caller, conn[c] # NoSession, alive'[conn[c]]
                 PROVE  SessionOf(c)'
        BY DEF SessionsFollowCalls
    <2>1. conn[c] \in Session /\ conn[c] # s /\ alive[conn[c]]
        BY DEF End, TypeOK
    <2>2. SessionOf(c)
        BY <2>1 DEF SessionsFollowCalls
    <2> QED BY <2>1, <2>2 DEF End, TypeOK, SessionOf, Has, Wants
<1> QED BY <1>1, <1>2

\* So does giving a lock to a session that waits: nobody else has it.
LEMMA GrantLInv ==
    ASSUME LInv, NEW s \in Session, Grant(s)
    PROVE  LInv'
<1> USE DbLockAssumption DEF LInv
<1>1. TypeOK' /\ CleanPool' /\ OneUser' /\ DeadAreClean'
    BY DEF Grant, TypeOK, CleanPool, OneUser, DeadAreClean
<1>2. LocksExclude'
    BY DEF Grant, Free, TypeOK, LocksExclude
<1>3. SessionsFollowCalls'
    <2> SUFFICES ASSUME NEW c \in Caller, conn[c] # NoSession, alive[conn[c]]
                 PROVE  SessionOf(c)'
        BY DEF SessionsFollowCalls, Grant
    <2>1. conn[c] \in Session /\ SessionOf(c)
        BY DEF TypeOK, SessionsFollowCalls
    <2>2. CASE conn[c] = s
        <3>1. pc[c] = "waiting" /\ want[s] = key[c]
            BY <2>1, <2>2 DEF Grant, OneUser, TypeOK, SessionOf, Has, Wants, UsesConnection
        <3> QED BY <2>1, <2>2, <3>1 DEF Grant, TypeOK, SessionOf, Has, Wants
    <2>3. CASE conn[c] # s
        BY <2>1, <2>3 DEF Grant, TypeOK, SessionOf, Has, Wants
    <2> QED BY <2>2, <2>3
<1> QED BY <1>1, <1>2, <1>3
-----------------------------------------------------------------------------
(* The pool's steps.                                                       *)

\* A connection that leaves the pool, or is made, is clean and gets one owner.
LEMMA TakeLInv ==
    ASSUME LInv, NEW c \in Caller, pc[c] = "acquire", NEW s \in Session,
           client[s] \in {"idle", "gone"}, alive'[s],
           owner[s] = NoKey, want[s] = NoKey, ~dirty[s],
           alive' = [alive EXCEPT ![s] = TRUE],
           client' = [client EXCEPT ![s] = c],
           conn' = [conn EXCEPT ![c] = s],
           Goto(c, First),
           UNCHANGED <<backend, owner, want, dirty, key, pool>>
    PROVE  LInv'
<1> USE DbLockAssumption DEF LInv
<1>1. First \in {"begin", "request"}
    BY DEF First
<1>2. TypeOK'
    BY <1>1 DEF Goto, TypeOK, UsesConnection
<1>3. CleanPool'
    BY <1>2 DEF TypeOK, CleanPool
<1>4. OneUser'
    <2>1. conn[c] = NoSession /\ \A d \in Caller : conn[d] # s
        BY DEF OneUser, TypeOK
    <2>2. \A d \in Caller : conn'[d] # NoSession <=> pc'[d] \notin {"idle", "acquire"}
        BY <1>1 DEF Goto, OneUser, TypeOK
    <2>3. ASSUME NEW d \in Caller, NEW t \in Session
          PROVE  conn'[d] = t <=> client'[t] = d
        BY <2>1 DEF OneUser, TypeOK
    <2> QED BY <2>2, <2>3 DEF OneUser
<1>5. DeadAreClean' /\ LocksExclude'
    BY DEF TypeOK, DeadAreClean, LocksExclude
<1>6. SessionsFollowCalls'
    <2> SUFFICES ASSUME NEW d \in Caller, conn'[d] # NoSession, alive'[conn'[d]]
                 PROVE  SessionOf(d)'
        BY DEF SessionsFollowCalls
    <2>1. CASE d = c
        BY <1>1, <2>1 DEF Goto, TypeOK, SessionOf, Has, Wants
    <2>2. CASE d # c
        <3>1. conn'[d] = conn[d] /\ conn[d] \in Session /\ conn[d] # s /\ alive[conn[d]]
            BY <2>2 DEF OneUser, TypeOK
        <3>2. SessionOf(d)
            BY <3>1 DEF SessionsFollowCalls
        <3> QED BY <2>2, <3>1, <3>2 DEF Goto, TypeOK, SessionOf, Has, Wants
    <2> QED BY <2>1, <2>2
<1> QED BY <1>2, <1>3, <1>4, <1>5, <1>6

\* A call that ends gives its connection back clean, or closes it.
LEMMA EndOfCallLInv ==
    ASSUME LInv, NEW c \in Caller, conn[c] # NoSession, NEW place \in {"idle", "gone"},
           client' = [client EXCEPT ![conn[c]] = place],
           conn' = [conn EXCEPT ![c] = NoSession],
           Goto(c, "idle"),
           owner' \in {owner, [owner EXCEPT ![conn[c]] = NoKey]},
           dirty' \in {dirty, [dirty EXCEPT ![conn[c]] = FALSE]},
           place = "idle" => owner'[conn[c]] = NoKey /\ want[conn[c]] = NoKey /\ ~dirty'[conn[c]],
           UNCHANGED <<backend, alive, want, key, pool>>
    PROVE  LInv'
<1> USE DbLockAssumption DEF LInv
<1>1. conn[c] \in Session
    BY DEF TypeOK
<1>2. TypeOK'
    BY <1>1 DEF Goto, TypeOK
<1>3. CleanPool'
    BY <1>1, <1>2 DEF TypeOK, CleanPool
<1>4. OneUser'
    <2>1. \A d \in Caller : conn'[d] # NoSession <=> pc'[d] \notin {"idle", "acquire"}
        BY DEF Goto, OneUser, TypeOK
    <2>2. ASSUME NEW d \in Caller, NEW t \in Session
          PROVE  conn'[d] = t <=> client'[t] = d
        BY <1>1 DEF OneUser, TypeOK
    <2> QED BY <2>1, <2>2 DEF OneUser
<1>5. DeadAreClean' /\ LocksExclude'
    BY <1>1 DEF TypeOK, DeadAreClean, LocksExclude
<1>6. SessionsFollowCalls'
    <2> SUFFICES ASSUME NEW d \in Caller, conn'[d] # NoSession, alive[conn'[d]]
                 PROVE  SessionOf(d)'
        BY DEF SessionsFollowCalls
    <2>1. d # c /\ conn'[d] = conn[d] /\ conn[d] \in Session /\ conn[d] # conn[c]
        BY <1>1 DEF OneUser, TypeOK
    <2>2. SessionOf(d)
        BY <2>1 DEF SessionsFollowCalls
    <2> QED BY <1>1, <2>1, <2>2 DEF Goto, TypeOK, SessionOf, Has, Wants
<1> QED BY <1>2, <1>3, <1>4, <1>5, <1>6
-----------------------------------------------------------------------------
(* A call that keeps its connection.                                       *)

\* A statement changes what the session of its call has, and nothing else.
LEMMA StatementLInv ==
    ASSUME LInv, NEW c \in Caller, conn[c] # NoSession,
           alive[conn[c]] \/ UNCHANGED <<want, dirty>>,
           want' \in [Session -> Key \cup {NoKey}], dirty' \in [Session -> BOOLEAN],
           \A s \in Session \ {conn[c]} : want'[s] = want[s] /\ dirty'[s] = dirty[s],
           NEW where \in {"request", "waiting", "reading", "holding", "releasing", "restoring"},
           Goto(c, where),
           UNCHANGED <<backend, alive, owner, client, key, conn, pool>>,
           alive[conn[c]] => SessionOf(c)'
    PROVE  LInv'
<1> USE DbLockAssumption DEF LInv
<1>1. conn[c] \in Session /\ client[conn[c]] = c
    BY DEF TypeOK, OneUser
<1>2. TypeOK'
    BY <1>1 DEF Goto, TypeOK, UsesConnection
<1>3. CleanPool'
    <2>1. client[conn[c]] # "idle"
        BY <1>1
    <2> QED BY <1>1, <1>2, <2>1 DEF TypeOK, CleanPool
<1>4. OneUser'
    <2>1. pc[c] \notin {"idle", "acquire"}
        BY DEF OneUser
    <2> QED BY <2>1 DEF Goto, OneUser, TypeOK
<1>5. DeadAreClean' /\ LocksExclude'
    BY <1>1 DEF TypeOK, DeadAreClean, LocksExclude
<1>6. SessionsFollowCalls'
    <2> SUFFICES ASSUME NEW d \in Caller, conn[d] # NoSession, alive[conn[d]], d # c
                 PROVE  SessionOf(d)'
        BY DEF SessionsFollowCalls
    <2>1. conn[d] \in Session /\ conn[d] # conn[c] /\ SessionOf(d)
        BY <1>1 DEF OneUser, TypeOK, SessionsFollowCalls
    <2> QED BY <1>1, <2>1 DEF Goto, TypeOK, SessionOf, Has, Wants
<1> QED BY <1>2, <1>3, <1>4, <1>5, <1>6

\* Every step of a call keeps the invariant.
LEMMA StepLInv ==
    ASSUME LInv, NEW c \in Caller, Step(c) \/ LetGo(c) \/ Cancel(c)
    PROVE  LInv'
<1> USE DbLockAssumption
<1>1. /\ TypeOK /\ CleanPool /\ DeadAreClean
      /\ conn[c] # NoSession <=> pc[c] \notin {"idle", "acquire"}
      /\ conn[c] # NoSession => conn[c] \in Session
      /\ key[c] \in Key
    BY DEF LInv, TypeOK, OneUser
<1>2. conn[c] # NoSession /\ alive[conn[c]] => SessionOf(c)
    BY DEF LInv, SessionsFollowCalls
<1>3. CASE \E s \in Session : TakeIdle(c, s)
    <2>1. PICK s \in Session : TakeIdle(c, s)
        BY <1>3
    <2>2. alive' = [alive EXCEPT ![s] = TRUE] /\ alive'[s]
        BY <2>1, <1>1 DEF TakeIdle, serverVars, TypeOK
    <2>3. owner[s] = NoKey /\ want[s] = NoKey /\ ~dirty[s]
        BY <2>1, <1>1 DEF TakeIdle, CleanPool
    <2> QED BY <2>1, <2>2, <2>3, TakeLInv DEF TakeIdle, serverVars
<1>4. CASE Connect(c)
    <2>1. PICK s \in New : /\ alive' = [alive EXCEPT ![s] = TRUE]
                           /\ client' = [client EXCEPT ![s] = c]
                           /\ conn' = [conn EXCEPT ![c] = s]
        <3>1. (CHOOSE t \in New : TRUE) \in New
            BY <1>4 DEF Connect
        <3> QED BY <1>4, <3>1 DEF Connect
    <2>2. s \in Session /\ ~alive[s] /\ client[s] = "gone" /\ alive'[s]
        BY <1>1, <2>1 DEF New, TypeOK
    <2>3. owner[s] = NoKey /\ want[s] = NoKey /\ ~dirty[s]
        BY <2>2, <1>1 DEF DeadAreClean
    <2> QED BY <1>4, <2>1, <2>2, <2>3, TakeLInv DEF Connect
<1>5. CASE AcquireFails(c)
    <2>1. conn[c] = NoSession
        BY <1>5, <1>1 DEF AcquireFails
    <2>2. TypeOK' /\ CleanPool' /\ OneUser' /\ DeadAreClean' /\ LocksExclude'
        BY <1>5 DEF AcquireFails, Goto, serverVars, LInv, TypeOK, CleanPool, OneUser,
                    DeadAreClean, LocksExclude
    <2>3. SessionsFollowCalls'
        BY <1>5, <2>1 DEF AcquireFails, Goto, serverVars, LInv, TypeOK, SessionsFollowCalls,
                          SessionOf, Has, Wants
    <2> QED BY <2>2, <2>3 DEF LInv
<1>6. CASE Begin(c)
    <2>1. conn[c] # NoSession /\ alive[conn[c]] /\ conn[c] \in Session
        BY <1>6, <1>1 DEF Begin
    <2>2. SessionOf(c)'
        BY <1>6, <2>1, <1>1, <1>2 DEF Begin, Goto, TypeOK, SessionOf, Has, Wants
    <2>3. /\ want' \in [Session -> Key \cup {NoKey}] /\ dirty' \in [Session -> BOOLEAN]
          /\ \A s \in Session \ {conn[c]} : want'[s] = want[s] /\ dirty'[s] = dirty[s]
        BY <1>6, <1>1 DEF Begin, TypeOK
    <2> QED BY <1>6, <2>1, <2>2, <2>3, StatementLInv DEF Begin
<1>7. CASE Request(c)
    <2>1. conn[c] # NoSession /\ alive[conn[c]] /\ conn[c] \in Session
        BY <1>7, <1>1 DEF Request
    <2>2. SessionOf(c)'
        BY <1>7, <2>1, <1>1, <1>2 DEF Request, Goto, TypeOK, SessionOf, Has, Wants
    <2>3. /\ want' \in [Session -> Key \cup {NoKey}] /\ dirty' \in [Session -> BOOLEAN]
          /\ \A s \in Session \ {conn[c]} : want'[s] = want[s] /\ dirty'[s] = dirty[s]
        BY <1>7, <1>1 DEF Request, TypeOK
    <2> QED BY <1>7, <2>1, <2>2, <2>3, StatementLInv DEF Request
<1>8. CASE Acquired(c) \/ ReadAcquired(c) \/ LetGo(c)
    <2>1. /\ conn[c] # NoSession /\ UNCHANGED <<backend, serverVars, client, key, conn, pool>>
          /\ alive[conn[c]] => owner[conn[c]] = key[c]
          /\ \E where \in {"reading", "holding", "releasing"} : Goto(c, where)
        BY <1>8, <1>1, <1>2 DEF Acquired, ReadAcquired, LetGo, SessionOf, Has
    <2>2. alive[conn[c]] => SessionOf(c)'
        BY <1>8, <2>1, <1>1, <1>2
           DEF Acquired, ReadAcquired, LetGo, Goto, serverVars, TypeOK, SessionOf, Has, Wants
    <2>3. want' \in [Session -> Key \cup {NoKey}] /\ dirty' \in [Session -> BOOLEAN]
        BY <2>1, <1>1 DEF serverVars, TypeOK
    <2> QED BY <2>1, <2>2, <2>3, StatementLInv DEF serverVars
<1>9. CASE Refused(c)
    <2>1. conn[c] # NoSession /\ alive[conn[c]] /\ conn[c] \in Session
        BY <1>9, <1>1 DEF Refused, DeadAreClean
    <2>2. SessionOf(c)'
        BY <1>9, <2>1, <1>1, <1>2 DEF Refused, Goto, TypeOK, SessionOf, Has, Wants
    <2>3. /\ want' \in [Session -> Key \cup {NoKey}] /\ dirty' \in [Session -> BOOLEAN]
          /\ \A s \in Session \ {conn[c]} : want'[s] = want[s] /\ dirty'[s] = dirty[s]
        BY <1>9, <1>1 DEF Refused, TypeOK
    <2> QED BY <1>9, <2>1, <2>2, <2>3, StatementLInv DEF Refused
<1>10. CASE Restore(c) \/ Release(c)
    <2>1. conn[c] # NoSession /\ alive[conn[c]] /\ conn[c] \in Session
        BY <1>10, <1>1 DEF Restore, Release
    <2>2. owner'[conn[c]] = NoKey /\ want[conn[c]] = NoKey /\ ~dirty'[conn[c]]
        BY <1>10, <2>1, <1>1, <1>2 DEF Restore, Release, TypeOK, SessionOf, Has, Wants
    <2>3. PICK place \in {"idle", "gone"} : client' = [client EXCEPT ![conn[c]] = place]
        BY <1>10 DEF Restore, Release, GiveBack
    <2> QED BY <1>10, <2>1, <2>2, <2>3, EndOfCallLInv DEF Restore, Release, GiveBack
<1>11. CASE Fail(c) \/ (Cancel(c) /\ pc[c] # "acquire")
    <2>1. conn[c] # NoSession /\ Discard(c) /\ Goto(c, "idle")
          /\ UNCHANGED <<backend, serverVars, key, pool>>
        BY <1>11, <1>1 DEF Fail, Cancel, UsesConnection
    <2> QED BY <2>1, EndOfCallLInv DEF Discard, serverVars
<1>12. CASE Cancel(c) /\ pc[c] = "acquire"
    <2>1. conn[c] = NoSession
        BY <1>12, <1>1
    <2>2. TypeOK' /\ CleanPool' /\ OneUser' /\ DeadAreClean' /\ LocksExclude'
        BY <1>12 DEF Cancel, Goto, serverVars, LInv, TypeOK, CleanPool, OneUser,
                     DeadAreClean, LocksExclude
    <2>3. SessionsFollowCalls'
        BY <1>12, <2>1 DEF Cancel, Goto, serverVars, LInv, TypeOK, SessionsFollowCalls,
                           SessionOf, Has, Wants
    <2> QED BY <2>2, <2>3 DEF LInv
<1> QED
    BY <1>3, <1>4, <1>5, <1>6, <1>7, <1>8, <1>9, <1>10, <1>11, <1>12 DEF Step

\* Every step keeps the invariant.
LEMMA NextLInv == LInv /\ [Next]_vars => LInv'
<1> SUFFICES ASSUME LInv, [Next]_vars PROVE LInv'
    OBVIOUS
<1> USE DbLockAssumption
<1>1. CASE UNCHANGED vars
    BY <1>1 DEF vars, serverVars, LInv, TypeOK, CleanPool, OneUser, DeadAreClean, LocksExclude,
                SessionsFollowCalls, SessionOf, Has, Wants
<1>2. ASSUME NEW s \in Session, Server(s) \/ SessionDies(s)
      PROVE  LInv'
    BY <1>2, EndLInv, GrantLInv DEF Server, NoticeGone, SessionDies
<1>3. ASSUME NEW s \in Session, DropDead(s)
      PROVE  LInv'
    <2>1. \A d \in Caller : conn[d] # s
        BY <1>3 DEF DropDead, LInv, OneUser, TypeOK
    <2> QED
        BY <1>3, <2>1 DEF DropDead, serverVars, LInv, TypeOK, CleanPool, OneUser, DeadAreClean,
                          LocksExclude, SessionsFollowCalls, SessionOf, Has, Wants
<1>4. ASSUME NEW c \in Caller, NEW k \in Key, Call(c, k)
      PROVE  LInv'
    <2>1. TypeOK' /\ CleanPool' /\ OneUser' /\ DeadAreClean' /\ LocksExclude'
        BY <1>4 DEF Call, Goto, serverVars, LInv, TypeOK, CleanPool, OneUser, DeadAreClean,
                    LocksExclude
    <2>2. conn[c] = NoSession
        BY <1>4 DEF Call, LInv, OneUser
    <2>3. SessionsFollowCalls'
        BY <1>4, <2>2 DEF Call, Goto, serverVars, LInv, TypeOK, SessionsFollowCalls, SessionOf,
                          Has, Wants
    <2> QED BY <2>1, <2>3 DEF LInv
<1>5. CASE Close
    BY <1>5 DEF Close, serverVars, LInv, TypeOK, CleanPool, OneUser, DeadAreClean,
                LocksExclude, SessionsFollowCalls, SessionOf, Has, Wants
<1>6. CASE CloseReturns
    BY <1>6 DEF CloseReturns, serverVars, LInv, TypeOK, CleanPool, OneUser, DeadAreClean,
                LocksExclude, SessionsFollowCalls, SessionOf, Has, Wants
<1> QED
    BY <1>1, <1>2, <1>3, <1>4, <1>5, <1>6, StepLInv DEF Next

\* The invariant holds in every reachable state.
LEMMA Invariant == Spec => []LInv
BY InitLInv, NextLInv, PTL DEF Spec

\* No connection goes back to the pool with a lock, a statement, a transaction or a raised
\* timeout on it, wherever calls fail or are dropped and sessions die.
THEOREM CleanPoolCorrect == Spec => []CleanPool
<1>1. LInv => CleanPool
    BY DEF LInv
<1> QED BY Invariant, <1>1, PTL
-----------------------------------------------------------------------------
(* DbLock implements DistributedLock.                                      *)

\* Who has a guard, and who lost its connection, follows from these four.
Unseen ==
    \A c \in Caller :
        /\ pc[c] = "holding" <=> pc'[c] = "holding"
        /\ pc[c] = "holding" =>
              /\ key'[c] = key[c]
              /\ conn'[c] = conn[c]
              /\ alive'[conn[c]] = alive[conn[c]]

\* A step that no caller and no holder sees is a stutter of the abstract lock.
LEMMA UnseenStutters == Unseen => UNCHANGED <<holdersOf, lostHolders>>
BY DEF Unseen, holdersOf, lostHolders

\* Somebody has a guard exactly when it is one of the holders.
LEMMA HoldingIs ==
    ASSUME LInv, NEW c \in Caller
    PROVE  Abstract!Holding(c) <=> pc[c] = "holding"
BY DEF LInv, TypeOK, Abstract!Holding, holdersOf

\* A call comes to hold the lock when its session has it: those who hold it as well
\* have lost their sessions.
LEMMA AcquireMaps ==
    ASSUME LInv, NEW c \in Caller, Acquired(c) \/ ReadAcquired(c), pc'[c] = "holding"
    PROVE  Abstract!Acquire(c, key[c])
<1> USE DbLockAssumption
<1>1. /\ pc[c] # "holding" /\ pc' = [pc EXCEPT ![c] = "holding"]
      /\ UNCHANGED <<serverVars, key, conn>>
      /\ key[c] \in Key
    BY DEF Acquired, ReadAcquired, Goto, LInv, TypeOK
<1>2. conn[c] \in Session /\ alive[conn[c]] /\ owner[conn[c]] = key[c]
    <2>1. conn[c] \in Session
        BY DEF Acquired, ReadAcquired, LInv, OneUser, TypeOK
    <2>2. CASE Acquired(c)
        BY <2>1, <2>2, <1>1 DEF Acquired, LInv, DeadAreClean
    <2>3. CASE ReadAcquired(c)
        BY <2>1, <2>3 DEF ReadAcquired, LInv, TypeOK, SessionsFollowCalls, SessionOf, Has
    <2> QED BY <2>1, <2>2, <2>3
<1>3. holdersOf[key[c]] \subseteq lostHolders
    <2> SUFFICES ASSUME NEW d \in Caller, pc[d] = "holding", key[d] = key[c], alive[conn[d]]
                 PROVE  FALSE
        BY <1>1 DEF holdersOf, lostHolders
    <2>1. conn[d] \in Session /\ owner[conn[d]] = key[c]
        BY DEF LInv, OneUser, TypeOK, SessionsFollowCalls, SessionOf, Has
    <2>2. conn[d] = conn[c]
        BY <1>1, <1>2, <2>1 DEF LInv, LocksExclude
    <2> QED BY <1>1, <1>2, <2>2 DEF LInv, OneUser
<1>4. ~Abstract!Holding(c)
    BY <1>1, HoldingIs
<1>5. holdersOf' = [holdersOf EXCEPT ![key[c]] = @ \cup {c}]
    <2>1. \A d \in Caller : pc'[d] = "holding" <=> pc[d] = "holding" \/ d = c
        BY <1>1 DEF LInv, TypeOK
    <2>2. \A k \in Key : holdersOf'[k] = IF k = key[c] THEN holdersOf[k] \cup {c} ELSE holdersOf[k]
        BY <1>1, <2>1 DEF holdersOf
    <2>3. holdersOf' = [k \in Key |-> holdersOf'[k]] /\ holdersOf = [k \in Key |-> holdersOf[k]]
        BY DEF holdersOf
    <2> HIDE DEF holdersOf
    <2> QED BY <2>2, <2>3
<1>6. lostHolders' = lostHolders
    BY <1>1, <1>2 DEF lostHolders, serverVars, LInv, TypeOK
<1> QED BY <1>3, <1>4, <1>5, <1>6 DEF Abstract!Acquire

\* Letting go is the release, also of a lock that is lost.
LEMMA ReleaseMaps ==
    ASSUME LInv, NEW c \in Caller, LetGo(c)
    PROVE  Abstract!Release(c)
<1>1. /\ pc[c] = "holding" /\ pc' = [pc EXCEPT ![c] = "releasing"]
      /\ UNCHANGED <<alive, key, conn>>
    BY DEF LetGo, Goto, serverVars
<1>2. holdersOf' = [k \in Key |-> holdersOf[k] \ {c}]
    BY <1>1 DEF holdersOf, LInv, TypeOK
<1>3. lostHolders' = lostHolders \ {c}
    BY <1>1 DEF lostHolders, LInv, TypeOK
<1> QED BY <1>1, <1>2, <1>3, HoldingIs DEF Abstract!Release

\* A session that ends takes the lock from its guard, if it has one.
LEMMA LoseMaps ==
    ASSUME LInv, NEW s \in Session, End(s), UNCHANGED <<backend, client, pc, key, conn, pool>>
    PROVE  Abstract!Next \/ UNCHANGED <<holdersOf, lostHolders>>
<1>1. holdersOf' = holdersOf
    BY DEF holdersOf
<1>2. CASE \E c \in Caller : conn[c] = s /\ pc[c] = "holding"
    <2>1. PICK c \in Caller : conn[c] = s /\ pc[c] = "holding"
        BY <1>2
    <2>2. \A d \in Caller : pc[d] = "holding" => conn[d] \in Session /\ (conn[d] = s <=> d = c)
        BY <2>1, DbLockAssumption DEF LInv, OneUser, TypeOK
    <2>3. lostHolders' = lostHolders \cup {c}
        BY <2>1, <2>2 DEF End, lostHolders, LInv, TypeOK
    <2> QED BY <1>1, <2>1, <2>3, HoldingIs DEF Abstract!Lose, Abstract!Next
<1>3. CASE ~\E c \in Caller : conn[c] = s /\ pc[c] = "holding"
    <2>1. lostHolders' = lostHolders
        BY <1>3 DEF End, lostHolders, LInv, OneUser, TypeOK
    <2> QED BY <1>1, <2>1
<1> QED BY <1>2, <1>3

\* Every step is one of DistributedLock, or none.
LEMMA StepMaps ==
    LInv /\ [Next]_vars => [Abstract!Next]_<<holdersOf, lostHolders>>
<1> SUFFICES ASSUME LInv, [Next]_vars
             PROVE  Abstract!Next \/ UNCHANGED <<holdersOf, lostHolders>>
    OBVIOUS
<1> USE DbLockAssumption
<1>1. CASE UNCHANGED vars
    BY <1>1 DEF vars, serverVars, holdersOf, lostHolders
<1>2. ASSUME NEW s \in Session, NoticeGone(s) \/ SessionDies(s)
      PROVE  Abstract!Next \/ UNCHANGED <<holdersOf, lostHolders>>
    BY <1>2, LoseMaps DEF NoticeGone, SessionDies
<1>3. ASSUME NEW s \in Session, Grant(s) \/ DropDead(s)
      PROVE  UNCHANGED <<holdersOf, lostHolders>>
    BY <1>3 DEF Grant, DropDead, serverVars, holdersOf, lostHolders
<1>4. CASE Close \/ CloseReturns
    BY <1>4 DEF Close, CloseReturns, serverVars, holdersOf, lostHolders
<1>5. ASSUME NEW c \in Caller, NEW k \in Key, Call(c, k)
      PROVE  UNCHANGED <<holdersOf, lostHolders>>
    <2>1. Unseen
        BY <1>5 DEF Call, Goto, serverVars, Unseen, LInv, TypeOK
    <2> QED BY <2>1, UnseenStutters
<1>6. ASSUME NEW c \in Caller, Connect(c)
      PROVE  UNCHANGED <<holdersOf, lostHolders>>
    <2>1. PICK s \in New : /\ alive' = [alive EXCEPT ![s] = TRUE]
                           /\ conn' = [conn EXCEPT ![c] = s]
        <3>1. (CHOOSE t \in New : TRUE) \in New
            BY <1>6 DEF Connect
        <3> QED BY <1>6, <3>1 DEF Connect
    <2>2. pc[c] = "acquire" /\ key' = key /\ \E w \in {"begin", "request"} : Goto(c, w)
        BY <1>6 DEF Connect, First
    <2>3. \A d \in Caller : /\ conn[d] # s
                            /\ pc[d] = "holding" => conn[d] \in Session
        BY <2>1 DEF New, LInv, OneUser, TypeOK
    <2>4. Unseen
        BY <2>1, <2>2, <2>3 DEF Goto, Unseen, LInv, TypeOK
    <2> QED BY <2>4, UnseenStutters
<1>7. ASSUME NEW c \in Caller, (Acquired(c) \/ ReadAcquired(c)) /\ pc'[c] = "holding"
      PROVE  Abstract!Next
    <2>1. key[c] \in Key
        BY DEF LInv, TypeOK
    <2> QED BY <1>7, <2>1, AcquireMaps DEF Abstract!Next
<1>8. ASSUME NEW c \in Caller, LetGo(c)
      PROVE  Abstract!Next
    BY <1>8, ReleaseMaps DEF Abstract!Next
<1>9. ASSUME NEW c \in Caller, Acquired(c), pc'[c] # "holding"
      PROVE  UNCHANGED <<holdersOf, lostHolders>>
    <2>1. Unseen
        BY <1>9 DEF Acquired, Goto, serverVars, Unseen, LInv, TypeOK
    <2> QED BY <2>1, UnseenStutters
<1>10. ASSUME NEW c \in Caller,
              \/ \E s \in Session : TakeIdle(c, s)
              \/ AcquireFails(c) \/ Begin(c) \/ Request(c) \/ Refused(c)
       PROVE  UNCHANGED <<holdersOf, lostHolders>>
    <2>1. /\ pc[c] # "holding" /\ UNCHANGED <<alive, key>>
          /\ \A d \in Caller : d # c => conn'[d] = conn[d]
          /\ \E w \in {"idle", "begin", "request", "waiting", "restoring"} : Goto(c, w)
        BY <1>10 DEF TakeIdle, AcquireFails, Begin, Request, Refused, serverVars, First,
                     LInv, TypeOK
    <2>2. Unseen
        BY <2>1 DEF Goto, Unseen, LInv, TypeOK
    <2> QED BY <2>2, UnseenStutters
<1>11. ASSUME NEW c \in Caller, Restore(c) \/ Release(c) \/ Fail(c) \/ Cancel(c)
       PROVE  UNCHANGED <<holdersOf, lostHolders>>
    <2>1. /\ pc[c] # "holding" /\ UNCHANGED <<alive, key>> /\ Goto(c, "idle")
          /\ \A d \in Caller : d # c => conn'[d] = conn[d]
        BY <1>11 DEF Restore, Release, Fail, Cancel, GiveBack, Discard, UsesConnection,
                     serverVars, LInv, TypeOK
    <2>2. Unseen
        BY <2>1 DEF Goto, Unseen, LInv, TypeOK
    <2> QED BY <2>2, UnseenStutters
<1>12. ASSUME NEW c \in Caller, ReadAcquired(c)
       PROVE  pc'[c] = "holding"
    BY <1>12 DEF ReadAcquired, Goto, LInv, TypeOK
<1> QED
    BY <1>1, <1>2, <1>3, <1>4, <1>5, <1>6, <1>7, <1>8, <1>9, <1>10, <1>11, <1>12
       DEF Next, Server, Step

\* A guard means the lock as long as its connection lives: two callers hold the lock of a
\* key at the same time only when those who had it first have lost their sessions.
THEOREM ImplementsLockCorrect == Spec => ImplementsLock
<1>1. Init => Abstract!Init
    BY DEF Init, Abstract!Init, holdersOf, lostHolders
<1>2. LInv /\ [Next]_vars => [Abstract!Next]_Abstract!lockVars
    BY StepMaps DEF Abstract!lockVars
<1> QED
    BY <1>1, <1>2, Invariant, PTL DEF Spec, ImplementsLock, Abstract!Spec
=============================================================================

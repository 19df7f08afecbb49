-------------------------- MODULE TokioLockProofs --------------------------
(***************************************************************************)
(* Proofs about TokioLock, for any number of callers, keys and mutexes.    *)
(***************************************************************************)
EXTENDS TokioLock, TLAPS

\* A clone of a mutex is owned from entry() until the guard or the future is gone.
ArcWhileInside == \A c \in Caller : arc[c] # NoMutex <=> pc[c] \notin {"idle", "cleanup"}

\* A mutex has one owner.
OneOwner ==
    \A c, d \in Caller :
        pc[c] \in Owning /\ pc[d] \in Owning /\ arc[c] = arc[d] => c = d

\* Of two that wait at a mutex, one waits in front of the other.
QueueIsOrdered ==
    \A c, d \in Caller :
        /\ pc[c] = "waiting" /\ pc[d] = "waiting"
        /\ arc[c] = arc[d] /\ c # d
        => c \in ahead[d] \/ d \in ahead[c]

\* The inductive invariant.  OneMutex ties the key to the mutex, so that two owners of a
\* key would be two owners of a mutex; the queue is there because a mutex that is let go
\* has an owner at once, who must be the only one.
TInv == OneMutex /\ ArcWhileInside /\ OneOwner /\ QueueIsOrdered

\* At first there is no entry and nobody calls.
LEMMA InitTInv == Init => TInv
BY DEF Init, TInv, OneMutex, TypeOK, ArcWhileInside, OneOwner, QueueIsOrdered, Owning

\* Entering keeps everything: the mutex is the one of the entry, or nobody knows it yet.
LEMMA EnterTInv ==
    ASSUME TInv, NEW c \in Caller, NEW k \in Key, NEW call \in {"trying", "asking"},
           Enter(c, k, call)
    PROVE  TInv'
<1> USE TokioLockAssumption
<1> DEFINE m == IF entries[k] # NoMutex THEN entries[k] ELSE CHOOSE u \in Unused : TRUE
<1>1. /\ pc[c] = "idle"
      /\ arc[c] = NoMutex
      /\ entries' = [entries EXCEPT ![k] = m]
      /\ arc' = [arc EXCEPT ![c] = m]
      /\ key' = [key EXCEPT ![c] = k]
      /\ pc' = [pc EXCEPT ![c] = call]
      /\ UNCHANGED <<ahead, refused>>
  BY DEF Enter, Goto, TInv, ArcWhileInside
<1>2. /\ m \in Mutex
      /\ m # NoMutex
      /\ entries[k] = m \/ (entries[k] = NoMutex /\ m \in Unused)
  <2>1. CASE entries[k] # NoMutex
    BY <2>1 DEF TInv, OneMutex, TypeOK
  <2>2. CASE entries[k] = NoMutex
    <3>1. Unused # {}
      BY <2>2 DEF Enter
    <3>2. m \in Unused
      BY <2>2, <3>1
    <3> QED BY <2>2, <3>2 DEF Unused
  <2> QED BY <2>1, <2>2
<1> HIDE DEF m
<1>3. TypeOK'
  BY <1>1, <1>2 DEF TInv, OneMutex, TypeOK
<1>4. ASSUME NEW d \in Caller, arc'[d] # NoMutex PROVE entries'[key'[d]] = arc'[d]
  <2>1. CASE d = c
    BY <1>1, <2>1 DEF TInv, OneMutex, TypeOK
  <2>2. CASE d # c
    <3>1. arc[d] # NoMutex /\ entries[key[d]] = arc[d] /\ key'[d] = key[d] /\ arc'[d] = arc[d]
      BY <1>1, <1>4, <2>2 DEF TInv, OneMutex, TypeOK
    <3>2. key[d] = k => entries[k] = m
      BY <1>2, <3>1
    <3> QED BY <1>1, <3>1, <3>2 DEF TInv, OneMutex, TypeOK
  <2> QED BY <2>1, <2>2
<1>5. ASSUME NEW i \in Key, NEW j \in Key, entries'[i] # NoMutex, entries'[i] = entries'[j]
      PROVE  i = j
  BY <1>1, <1>2, <1>5 DEF TInv, OneMutex, TypeOK, Unused
<1>6. ArcWhileInside'
  BY <1>1, <1>2 DEF TInv, OneMutex, TypeOK, ArcWhileInside, Owning
<1>7. OneOwner'
  BY <1>1 DEF TInv, OneMutex, TypeOK, OneOwner, Owning
<1>8. QueueIsOrdered'
  BY <1>1 DEF TInv, OneMutex, TypeOK, QueueIsOrdered
<1> QED BY <1>3, <1>4, <1>5, <1>6, <1>7, <1>8 DEF TInv, OneMutex

\* remove_unused keeps everything: the entry it removes is no caller's mutex.
LEMMA RemoveUnusedTInv ==
    ASSUME TInv, NEW c \in Caller, RemoveUnused(key[c]), UNCHANGED <<key, arc, ahead>>,
           \/ pc[c] = "got" /\ pc' = [pc EXCEPT ![c] = "holding"]
           \/ pc[c] = "cleanup" /\ pc' = [pc EXCEPT ![c] = "idle"]
    PROVE  TInv'
<1> USE TokioLockAssumption
<1>1. TypeOK'
  BY DEF TInv, OneMutex, TypeOK, RemoveUnused, Owning
<1>2. ASSUME NEW d \in Caller, arc'[d] # NoMutex PROVE entries'[key'[d]] = arc'[d]
  <2>1. entries[key[d]] = arc[d] /\ arc[d] # NoMutex
    BY <1>2 DEF TInv, OneMutex
  <2>2. entries'[key[d]] = entries[key[d]]
    BY <2>1 DEF RemoveUnused, TInv, OneMutex, TypeOK
  <2> QED BY <2>1, <2>2
<1>3. ASSUME NEW i \in Key, NEW j \in Key, entries'[i] # NoMutex, entries'[i] = entries'[j]
      PROVE  i = j
  BY <1>3 DEF TInv, OneMutex, TypeOK, RemoveUnused
<1>4. ArcWhileInside' /\ OneOwner' /\ QueueIsOrdered'
  BY DEF TInv, OneMutex, TypeOK, ArcWhileInside, OneOwner, QueueIsOrdered, Owning
<1> QED BY <1>1, <1>2, <1>3, <1>4 DEF TInv, OneMutex

\* Leaving keeps everything: the mutex goes to at most one of those that wait for it.
LEMMA LeaveTInv ==
    ASSUME TInv, NEW c \in Caller, pc[c] \in Owning \cup {"asking", "waiting"}, Leave(c)
    PROVE  TInv'
<1> DEFINE next == IF pc[c] \in Owning THEN {d \in Waiting(arc[c]) : ahead[d] = {}} ELSE {}
<1>1. /\ pc' = [d \in Caller |-> IF d = c THEN "left" ELSE IF d \in next THEN "granted" ELSE pc[d]]
      /\ ahead' = [d \in Caller |-> IF d = c THEN {} ELSE ahead[d] \ (next \cup {c})]
      /\ UNCHANGED <<entries, key, arc, refused>>
  BY DEF Leave
<1>2. \A d \in next : /\ d \in Caller /\ pc[c] \in Owning
                      /\ pc[d] = "waiting" /\ arc[d] = arc[c] /\ ahead[d] = {}
  BY DEF Waiting
<1>3. \A d, e \in next : d = e
  BY <1>2 DEF TInv, QueueIsOrdered
<1> HIDE DEF next
<1>4. OneMutex'
  BY <1>1 DEF TInv, OneMutex, TypeOK, Owning
<1>5. ArcWhileInside'
  BY <1>1, <1>2 DEF TInv, OneMutex, TypeOK, ArcWhileInside, Owning
<1>6. OneOwner'
  <2> SUFFICES ASSUME NEW d \in Caller, NEW e \in Caller,
                      pc'[d] \in Owning, pc'[e] \in Owning, arc[d] = arc[e]
               PROVE  d = e
    BY <1>1 DEF OneOwner
  <2>1. d # c /\ e # c
    BY <1>1 DEF Owning
  <2>2. CASE d \in next \/ e \in next
    <3>1. pc[c] \in Owning /\ arc[d] = arc[c] /\ arc[e] = arc[c]
      BY <1>2, <2>2
    <3>2. d \in next /\ e \in next
      BY <1>1, <2>1, <3>1 DEF TInv, OneOwner
    <3> QED BY <1>3, <3>2
  <2>3. CASE d \notin next /\ e \notin next
    BY <1>1, <2>1, <2>3 DEF TInv, OneOwner
  <2> QED BY <2>2, <2>3
<1>7. QueueIsOrdered'
  <2> SUFFICES ASSUME NEW d \in Caller, NEW e \in Caller, d # e,
                      pc'[d] = "waiting", pc'[e] = "waiting", arc[d] = arc[e]
               PROVE  d \in ahead'[e] \/ e \in ahead'[d]
    BY <1>1 DEF QueueIsOrdered
  <2>1. d # c /\ e # c /\ d \notin next /\ e \notin next
    BY <1>1
  <2>2. pc[d] = "waiting" /\ pc[e] = "waiting"
    BY <1>1, <2>1
  <2>3. d \in ahead[e] \/ e \in ahead[d]
    BY <2>2 DEF TInv, QueueIsOrdered
  <2> QED BY <1>1, <2>1, <2>3
<1> QED BY <1>4, <1>5, <1>6, <1>7 DEF TInv

\* Every step keeps the invariant.
LEMMA NextTInv == TInv /\ [Next]_vars => TInv'
<1> SUFFICES ASSUME TInv, [Next]_vars PROVE TInv'
  OBVIOUS
<1> USE TokioLockAssumption
<1>1. CASE UNCHANGED vars
  BY <1>1 DEF vars, TInv, OneMutex, TypeOK, ArcWhileInside, OneOwner, QueueIsOrdered, Owning
<1>2. ASSUME NEW c \in Caller, NEW k \in Key, Enter(c, k, "trying") \/ Enter(c, k, "asking")
      PROVE  TInv'
  BY <1>2, EnterTInv
<1>3. ASSUME NEW c \in Caller, TryLock(c) PROVE TInv'
  <2>1. /\ OneMutex' /\ ArcWhileInside' /\ QueueIsOrdered'
    BY <1>3 DEF TryLock, Goto, TInv, OneMutex, TypeOK, ArcWhileInside, QueueIsOrdered, Owning
  <2>2. OneOwner'
    BY <1>3 DEF TryLock, Goto, Locked, TInv, OneMutex, TypeOK, OneOwner, Owning
  <2> QED BY <2>1, <2>2 DEF TInv
<1>4. ASSUME NEW c \in Caller, DropRefused(c) PROVE TInv'
  BY <1>4 DEF DropRefused, Goto, TInv, OneMutex, TypeOK, ArcWhileInside, OneOwner,
              QueueIsOrdered, Owning
<1>5. ASSUME NEW c \in Caller, Ask(c) PROVE TInv'
  <2>1. OneMutex'
    <3>1. Waiting(arc[c]) \subseteq Caller
      BY DEF Waiting
    <3> QED BY <1>5, <3>1 DEF Ask, Goto, TInv, OneMutex, TypeOK, Owning
  <2>2. ArcWhileInside'
    BY <1>5 DEF Ask, Goto, TInv, OneMutex, TypeOK, ArcWhileInside, Owning
  <2>3. OneOwner'
    BY <1>5 DEF Ask, Goto, Locked, TInv, OneMutex, TypeOK, OneOwner, Owning
  <2>4. QueueIsOrdered'
    BY <1>5 DEF Ask, Goto, Waiting, TInv, OneMutex, TypeOK, QueueIsOrdered
  <2> QED BY <2>1, <2>2, <2>3, <2>4 DEF TInv
<1>6. ASSUME NEW c \in Caller, Notice(c) \/ LetGo(c) PROVE TInv'
  BY <1>6 DEF Notice, LetGo, Goto, TInv, OneMutex, TypeOK, ArcWhileInside, OneOwner,
              QueueIsOrdered, Owning
<1>7. ASSUME NEW c \in Caller, Return(c) \/ CleanUp(c) PROVE TInv'
  BY <1>7, RemoveUnusedTInv DEF Return, CleanUp, Goto
<1>8. ASSUME NEW c \in Caller, Release(c) \/ GiveUp(c) PROVE TInv'
  BY <1>8, LeaveTInv DEF Release, GiveUp, Owning
<1>9. ASSUME NEW c \in Caller, DropArc(c) PROVE TInv'
  BY <1>9 DEF DropArc, Goto, TInv, OneMutex, TypeOK, ArcWhileInside, OneOwner,
              QueueIsOrdered, Owning
<1> QED
  BY <1>1, <1>2, <1>3, <1>4, <1>5, <1>6, <1>7, <1>8, <1>9 DEF Next, Step

\* The invariant holds in every reachable state.
LEMMA Invariant == Spec => []TInv
BY InitTInv, NextTInv, PTL DEF Spec

\* Everybody who uses a key uses the mutex in its entry: the count of clones makes
\* taking an entry out of the table safe, for any number of callers.
THEOREM OneMutexCorrect == Spec => []OneMutex
<1>1. TInv => OneMutex
  BY DEF TInv
<1> QED BY Invariant, <1>1, PTL

\* At most one caller has the lock of a key.
THEOREM ExclusionCorrect == Spec => []Exclusion
<1>1. TInv => Exclusion
  BY DEF TInv, OneMutex, ArcWhileInside, OneOwner, Exclusion, Owning
<1> QED BY Invariant, <1>1, PTL
-----------------------------------------------------------------------------
(* The entries of the table.                                               *)

\* A step that changes no entry, forgets no refused key and ends no call leaves no entry
\* behind.
LEMMA StillUsed ==
    ASSUME OnlyRefusedLeaveEntries, UNCHANGED <<entries, key>>, refused \subseteq refused',
           \A c \in Caller : pc[c] # "idle" /\ pc'[c] = "idle" => key[c] \in refused'
    PROVE  OnlyRefusedLeaveEntries'
BY DEF OnlyRefusedLeaveEntries, InUse

\* remove_unused leaves an entry only to those who still have a clone of its mutex.
LEMMA RemoveUnusedLeavesNone ==
    ASSUME TInv, OnlyRefusedLeaveEntries, NEW c \in Caller, RemoveUnused(key[c]),
           UNCHANGED <<key, arc>>,
           \/ pc[c] = "got" /\ pc' = [pc EXCEPT ![c] = "holding"]
           \/ pc[c] = "cleanup" /\ pc' = [pc EXCEPT ![c] = "idle"]
    PROVE  OnlyRefusedLeaveEntries'
<1> SUFFICES ASSUME NEW k \in Key, entries'[k] # NoMutex
             PROVE  InUse(k)' \/ k \in refused'
    BY DEF OnlyRefusedLeaveEntries
<1>1. entries[k] # NoMutex /\ (InUse(k) \/ k \in refused)
    BY DEF RemoveUnused, OnlyRefusedLeaveEntries, TInv, OneMutex, TypeOK
<1>2. \A d \in Caller : d # c => pc'[d] = pc[d]
    BY DEF TInv, OneMutex, TypeOK
<1>3. CASE k # key[c]
    <2>1. k \in refused => k \in refused'
        BY <1>3 DEF RemoveUnused
    <2> QED BY <1>1, <1>2, <1>3, <2>1 DEF InUse
\* Its own entry stays because somebody has a clone, who uses the key, and is another if
\* the call has given its own clone up.
<1>4. CASE k = key[c]
    <2>1. PICK d \in Caller : arc[d] = entries[k]
        BY <1>4 DEF RemoveUnused, TInv, OneMutex, TypeOK
    <2>2. key[d] = k /\ pc[d] \notin {"idle", "cleanup"}
        BY <1>1, <2>1 DEF TInv, OneMutex, TypeOK, ArcWhileInside
    <2>3. pc'[d] # "idle"
        BY <1>2, <2>2 DEF TInv, OneMutex, TypeOK
    <2> QED BY <2>2, <2>3 DEF InUse
<1> QED BY <1>3, <1>4

\* An entry nobody uses is one that a refused try_lock was the last to have a clone of:
\* lock(), however it ends, and the guards leave none in the table.
THEOREM OnlyRefusedLeaveEntriesCorrect == Spec => []OnlyRefusedLeaveEntries
<1>1. Init => OnlyRefusedLeaveEntries
    BY DEF Init, OnlyRefusedLeaveEntries
<1>2. TInv /\ OnlyRefusedLeaveEntries /\ [Next]_vars => OnlyRefusedLeaveEntries'
    <2> SUFFICES ASSUME TInv, OnlyRefusedLeaveEntries, [Next]_vars
                 PROVE  OnlyRefusedLeaveEntries'
        OBVIOUS
    <2>1. CASE UNCHANGED vars
        BY <2>1, StillUsed DEF vars
    <2>2. ASSUME NEW c \in Caller, NEW k \in Key, Enter(c, k, "trying") \/ Enter(c, k, "asking")
          PROVE  OnlyRefusedLeaveEntries'
        <3>1. /\ pc[c] = "idle" /\ key' = [key EXCEPT ![c] = k]
              /\ pc'[c] # "idle" /\ refused' = refused
              /\ \A d \in Caller : d # c => pc'[d] = pc[d]
              /\ \A j \in Key : j # k => entries'[j] = entries[j]
            BY <2>2 DEF Enter, Goto, TInv, OneMutex, TypeOK
        <3> QED BY <3>1 DEF OnlyRefusedLeaveEntries, InUse, TInv, OneMutex, TypeOK
    <2>3. ASSUME NEW c \in Caller,
                 TryLock(c) \/ Ask(c) \/ Notice(c) \/ LetGo(c) \/ DropArc(c)
          PROVE  OnlyRefusedLeaveEntries'
        BY <2>3, StillUsed
           DEF TryLock, Ask, Notice, LetGo, DropArc, Goto, TInv, OneMutex, TypeOK
    <2>4. ASSUME NEW c \in Caller, DropRefused(c)
          PROVE  OnlyRefusedLeaveEntries'
        BY <2>4, StillUsed DEF DropRefused, Goto, TInv, OneMutex, TypeOK
    <2>5. ASSUME NEW c \in Caller, Release(c) \/ GiveUp(c)
          PROVE  OnlyRefusedLeaveEntries'
        BY <2>5, StillUsed DEF Release, GiveUp, Leave
    <2>6. ASSUME NEW c \in Caller, Return(c) \/ CleanUp(c)
          PROVE  OnlyRefusedLeaveEntries'
        BY <2>6, RemoveUnusedLeavesNone DEF Return, CleanUp, Goto
    <2> QED
        BY <2>1, <2>2, <2>3, <2>4, <2>5, <2>6 DEF Next, Step
<1> QED BY <1>1, <1>2, Invariant, PTL DEF Spec
=============================================================================

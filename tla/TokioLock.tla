------------------------------ MODULE TokioLock ------------------------------
(***************************************************************************)
(* The lock inside one process (hygiea-core/src/lock/tokio_lock.rs): a     *)
(* table from keys to mutexes, in which a key has an entry only while      *)
(* somebody uses it, and the guard that gives the mutex back (guard.rs).   *)
(*                                                                         *)
(* Callers run on several threads.  What one of them does under the lock   *)
(* of a table shard, or inside the semaphore of a mutex, is one step; what *)
(* it does between them can be interleaved with anything.  An Arc counts   *)
(* who has a clone: here the callers whose arc is the mutex, and the table.*)
(***************************************************************************)

CONSTANTS
    Caller,         \* calls of try_lock and lock, one after the other per caller
    Key,
    Mutex,          \* the mutexes there is memory for
    NoMutex

ASSUME TokioLockAssumption == NoMutex \notin Mutex

VARIABLES
    entries,        \* TokioLock::entries: the mutex of a key, or NoMutex
    pc,             \* where every call is
    key,            \* what it locks
    arc,            \* the mutex it has a clone of, or NoMutex
    ahead,          \* the queue of the mutex: who waits in front of a waiting call
    refused         \* history: keys whose entry outlived a try_lock that found it locked

vars == <<entries, pc, key, arc, ahead, refused>>

\* The mutex was given to the call; granted: by the one before it, not noticed yet.
Owning == {"granted", "got", "holding", "releasing"}

Init ==
    /\ entries = [k \in Key |-> NoMutex]
    /\ pc = [c \in Caller |-> "idle"]
    /\ key \in [Caller -> Key]
    /\ arc = [c \in Caller |-> NoMutex]
    /\ ahead = [c \in Caller |-> {}]
    /\ refused = {}

Goto(c, where) == pc' = [pc EXCEPT ![c] = where]
Locked(m) == \E c \in Caller : arc[c] = m /\ pc[c] \in Owning
Waiting(m) == {c \in Caller : arc[c] = m /\ pc[c] = "waiting"}

Unused == {m \in Mutex : /\ \A c \in Caller : arc[c] # m
                         /\ \A k \in Key : entries[k] # m}
-----------------------------------------------------------------------------
(* The table.                                                              *)

\* entry(): the mutex of the key, or a new one, cloned under the lock of the shard.
\* Which of the unused ones it is makes no difference.
Enter(c, k, call) ==
    /\ pc[c] = "idle"
    /\ entries[k] # NoMutex \/ Unused # {}
    /\ LET m == IF entries[k] # NoMutex THEN entries[k] ELSE CHOOSE u \in Unused : TRUE
       IN  /\ entries' = [entries EXCEPT ![k] = m]
           /\ arc' = [arc EXCEPT ![c] = m]
    /\ key' = [key EXCEPT ![c] = k]
    /\ Goto(c, call)
    /\ UNCHANGED <<ahead, refused>>

\* Mutant: whoever is done with a key takes it out of the table.
RemoveAlways(k) ==
    /\ entries' = [entries EXCEPT ![k] = NoMutex]
    /\ refused' = refused \ {k}

\* remove_unused(): taken out when the table has the only clone left.
RemoveUnused(k) ==
    IF \E c \in Caller : entries[k] # NoMutex /\ arc[c] = entries[k]
      THEN UNCHANGED <<entries, refused>>
      ELSE /\ entries' = [entries EXCEPT ![k] = NoMutex]
           /\ refused' = refused \ {k}
-----------------------------------------------------------------------------
(* Taking the mutex.  It serves those who wait in the order they came; one *)
(* that is given on is never free in between.                              *)

TryLock(c) ==
    /\ pc[c] = "trying"
    /\ Goto(c, IF Locked(arc[c]) THEN "refused" ELSE "holding")
    /\ UNCHANGED <<entries, key, arc, ahead, refused>>

\* try_lock() returns None.  Its clone goes; nobody looks whether it was the last.
DropRefused(c) ==
    /\ pc[c] = "refused"
    /\ Goto(c, "idle")
    /\ arc' = [arc EXCEPT ![c] = NoMutex]
    /\ refused' = refused \cup {key[c]}
    /\ UNCHANGED <<entries, key, ahead>>

\* Mutant: lock() tries again and again instead of waiting in the queue.
AskAgain(c) ==
    /\ pc[c] = "asking"
    /\ ~Locked(arc[c])
    /\ Goto(c, "got")
    /\ UNCHANGED <<entries, key, arc, ahead, refused>>

\* The first poll of lock_owned() inside lock().
Ask(c) ==
    /\ pc[c] = "asking"
    /\ IF Locked(arc[c])
         THEN /\ Goto(c, "waiting")
              /\ ahead' = [ahead EXCEPT ![c] = Waiting(arc[c])]
         ELSE Goto(c, "got") /\ UNCHANGED ahead
    /\ UNCHANGED <<entries, key, arc, refused>>

Notice(c) ==
    /\ pc[c] = "granted"
    /\ Goto(c, "got")
    /\ UNCHANGED <<entries, key, arc, ahead, refused>>

\* lock() returns the guard; its Cleanup is dropped and looks at the table.
Return(c) ==
    /\ pc[c] = "got"
    /\ RemoveUnused(key[c])
    /\ Goto(c, "holding")
    /\ UNCHANGED <<key, arc, ahead>>
-----------------------------------------------------------------------------
(* Giving it back.                                                         *)

\* c leaves the queue, or gives the mutex to the first in it.
Leave(c) ==
    LET next == IF pc[c] \in Owning THEN {d \in Waiting(arc[c]) : ahead[d] = {}} ELSE {}
    IN  /\ pc' = [d \in Caller |-> IF d = c THEN "left"
                                   ELSE IF d \in next THEN "granted" ELSE pc[d]]
        /\ ahead' = [d \in Caller |-> IF d = c THEN {} ELSE ahead[d] \ (next \cup {c})]
        /\ UNCHANGED <<entries, key, arc, refused>>

\* The timeout is over, or the caller drops the future: possible also after the mutex
\* was granted and before that is noticed, and while the task has used up its budget of
\* polls and has not come to ask.
GiveUp(c) ==
    /\ pc[c] \in {"asking", "waiting", "granted"}
    /\ Leave(c)

\* release() is called or the guard dropped: the future that does it is run here, in a
\* task of its own, or, outside a runtime, dropped with the same effect.
LetGo(c) ==
    /\ pc[c] = "holding"
    /\ Goto(c, "releasing")
    /\ UNCHANGED <<entries, key, arc, ahead, refused>>

Release(c) ==
    /\ pc[c] = "releasing"
    /\ Leave(c)

\* Mutant: the table is not looked at.
DropArcOnly(c) ==
    /\ pc[c] = "left"
    /\ Goto(c, "idle")
    /\ arc' = [arc EXCEPT ![c] = NoMutex]
    /\ UNCHANGED <<entries, key, ahead, refused>>

\* The clone goes with the guard or the future ...
DropArc(c) ==
    /\ pc[c] = "left"
    /\ Goto(c, "cleanup")
    /\ arc' = [arc EXCEPT ![c] = NoMutex]
    /\ UNCHANGED <<entries, key, ahead, refused>>

\* ... and then Held, or Cleanup, looks at the table.
CleanUp(c) ==
    /\ pc[c] = "cleanup"
    /\ RemoveUnused(key[c])
    /\ Goto(c, "idle")
    /\ UNCHANGED <<key, arc, ahead>>
-----------------------------------------------------------------------------
\* What a call does as long as it is polled.
Step(c) ==
    \/ TryLock(c)
    \/ DropRefused(c)
    \/ Ask(c)
    \/ Notice(c)
    \/ Return(c)
    \/ Release(c)
    \/ DropArc(c)
    \/ CleanUp(c)

Next ==
    \E c \in Caller :
        \/ \E k \in Key : Enter(c, k, "trying") \/ Enter(c, k, "asking")
        \/ Step(c)
        \/ GiveUp(c)
        \/ LetGo(c)

Spec == Init /\ [][Next]_vars

\* Futures are polled until they end or are dropped.  No timeout has to come.
FairSpec == Spec /\ \A c \in Caller : WF_vars(Step(c))
-----------------------------------------------------------------------------
(* Properties.                                                             *)

\* The types of the state, part of OneMutex.
TypeOK ==
    /\ entries \in [Key -> Mutex \cup {NoMutex}]
    /\ pc \in [Caller -> {"idle", "trying", "refused", "asking", "waiting", "left", "cleanup"}
                            \cup Owning]
    /\ key \in [Caller -> Key]
    /\ arc \in [Caller -> Mutex \cup {NoMutex}]
    /\ ahead \in [Caller -> SUBSET Caller]
    /\ refused \subseteq Key

\* Everybody who uses a key uses the mutex in its entry, and no two keys share one:
\* an entry is never removed under a caller that is about to wait at its mutex.
OneMutex ==
    /\ TypeOK
    /\ \A c \in Caller : arc[c] # NoMutex => entries[key[c]] = arc[c]
    /\ \A j, k \in Key : entries[j] # NoMutex /\ entries[j] = entries[k] => j = k

\* At most one caller has the lock of a key, from the moment it is given to it.
Exclusion ==
    \A c, d \in Caller : pc[c] \in Owning /\ pc[d] \in Owning /\ key[c] = key[d] => c = d

InUse(k) == \E c \in Caller : pc[c] # "idle" /\ key[c] = k

\* An entry nobody uses is one that a refused try_lock was the last to have a clone of;
\* lock(), however it ends, and the guards leave none.
OnlyRefusedLeaveEntries == \A k \in Key : entries[k] # NoMutex => InUse(k) \/ k \in refused

\* If holders let go, everybody who waits gets the lock, however many others come.
WaitersServed ==
    (\A c \in Caller : []<>(pc[c] # "holding")) =>
        \A c \in Caller : pc[c] \in {"asking", "waiting"} ~> pc[c] \notin {"asking", "waiting"}
=============================================================================

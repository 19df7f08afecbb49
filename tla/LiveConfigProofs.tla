-------------------------- MODULE LiveConfigProofs --------------------------
(***************************************************************************)
(* Proofs about LiveConfig, for any tables, structs and failures: a struct *)
(* that is handed out follows what the worker knows, and its readers see   *)
(* what LiveRegister promises.  Then those about LiveConfigSource, for any *)
(* number of calls of bind: who has the connection, and what callers are   *)
(* told while the source closes; and about LiveHandles, for any number of  *)
(* handles and tasks, of fields, configurations and versions: nobody       *)
(* sleeps through a change, and callbacks for fields are called with       *)
(* changes of them only.                                                   *)
(***************************************************************************)
EXTENDS LiveConfig, LiveConfigSource, LiveHandles, FiniteSetTheorems, TLAPS

\* The worker is at one bind, which waits for its answer, or at none.
JobFits ==
    /\ pc \in {"loop", "revisions", "closed"} => job = NoBinding
    /\ pc \in {"seed", "apply"} => job # NoBinding
    /\ pc # "load" => todo = {}
    /\ job # NoBinding => bind[job] = "asked" /\ todo \subseteq Uses[job]

\* What the worker knows was committed, and what is in effect is known.
StatesCommitted ==
    \A n \in Namespace :
        /\ states[n].revision <= revision[n]
        /\ states[n].effective => states[n].revision # Absent

\* Every namespace of a struct that is handed out is in effect: its changes are published.
BoundInEffect == \A b \in Bound : \A n \in Uses[b] : states[n].effective

\* A struct shows nothing newer than what was committed and, once it is handed out,
\* nothing newer than what the worker knows.
ViewsCommitted ==
    /\ \A b \in Binding : \A n \in Uses[b] : view[b][n] <= revision[n]
    /\ \A b \in Bound : \A n \in Uses[b] : view[b][n] <= states[n].revision

\* Of the struct it is at, the worker has loaded what is not to do any more, after the
\* struct was asked for.
LoadedSinceAsked ==
    job # NoBinding /\ pc \in {"load", "apply"} =>
        \A n \in Uses[job] \ todo :
            states[n].revision # Absent /\ view[job][n] <= states[n].revision

\* The inductive invariant.
CInv ==
    /\ TypeOK /\ JobFits /\ StatesCommitted /\ BoundInEffect
    /\ ViewsCommitted /\ LoadedSinceAsked /\ BoundFollowsState

\* At first nothing is bound and nothing is loaded.
LEMMA InitCInv == Init => CInv
<1> SUFFICES ASSUME Init PROVE CInv
    OBVIOUS
<1>1. Bound = {}
    BY DEF Init, Bound
<1>2. TypeOK
    <2>1. DOMAIN view = Binding /\ \A b \in Binding : view[b] \in [Uses[b] -> Nat]
        BY DEF Init
    <2>2. states \in [Namespace -> [revision : {Absent} \cup Nat, effective : BOOLEAN]]
        BY DEF Init
    <2>3. faults \in 0 .. MaxFaults
        BY LiveConfigAssumption DEF Init
    <2> QED BY <2>1, <2>2, <2>3 DEF Init, TypeOK
<1>3. JobFits /\ LoadedSinceAsked
    BY DEF Init, JobFits, LoadedSinceAsked
<1>4. StatesCommitted /\ BoundInEffect /\ ViewsCommitted /\ BoundFollowsState
    <2>1. \A b \in Binding : Uses[b] \subseteq Namespace
        BY LiveConfigAssumption
    <2> QED BY <1>1, <2>1 DEF Init, StatesCommitted, BoundInEffect, ViewsCommitted,
                              BoundFollowsState, Absent
<1> QED BY <1>2, <1>3, <1>4 DEF CInv
-----------------------------------------------------------------------------
(* What the queries and the database change.                               *)

\* A query that fails leaves everything but the connection alone.
LEMMA QueryFailsTypes ==
    ASSUME TypeOK, QueryFails
    PROVE  /\ UNCHANGED push
           /\ link' \in {"up", "cut", "dropped"}
           /\ inbox' \subseteq Namespace \X Nat
           /\ faults' \in 0 .. MaxFaults
BY LiveConfigAssumption DEF TypeOK, QueryFails

\* A transaction leaves revisions that are not older, and messages about them.
LEMMA WriteCommits ==
    ASSUME TypeOK, NEW S \in SUBSET Namespace, Write(S)
    PROVE  /\ revision' \in [Namespace -> Nat]
           /\ \A n \in Namespace : revision[n] <= revision'[n]
           /\ inbox' \subseteq Namespace \X Nat
           /\ UNCHANGED <<push, link>>
BY DEF TypeOK, Write

\* Steps that leave the tables, what the worker knows, the structs and who has them alone.
Quiet == UNCHANGED <<revision, states, view>> /\ Bound' = Bound

\* Such a step only has to keep the types, the job and what was loaded since it was asked for.
LEMMA QuietCInv ==
    ASSUME CInv, Quiet, TypeOK', JobFits', LoadedSinceAsked'
    PROVE  CInv'
BY DEF Quiet, CInv, StatesCommitted, BoundInEffect, ViewsCommitted, BoundFollowsState,
       Decodes, Merged

\* Giving up a bind is such a step: the struct was not handed out.
LEMMA BindFailsQuiet ==
    ASSUME CInv, pc # "loop", job # NoBinding, BindFails
    PROVE  /\ Bound' = Bound /\ JobFits' /\ LoadedSinceAsked'
           /\ bind' \in [Binding -> {"idle", "asked", "ok", "failed", "closed"}]
           /\ job' = NoBinding /\ todo' = {} /\ pc' = "loop"
<1>1. job \in Binding /\ bind[job] = "asked"
    BY DEF CInv, JobFits, TypeOK
<1> QED
    BY <1>1, LiveConfigAssumption
       DEF BindFails, CInv, TypeOK, JobFits, LoadedSinceAsked, Bound
-----------------------------------------------------------------------------
(* Steps that show nobody anything.                                        *)

\* The environment, but for commits and for calls of bind.
LEMMA EnvironmentQuiet ==
    ASSUME CInv, LinkDies \/ Close
    PROVE  CInv' /\ Quiet
<1>1. Quiet /\ UNCHANGED <<workVars, bind>>
    BY DEF LinkDies, Close, workVars, linkVars, Quiet, Bound
<1>2. TypeOK'
    <2>1. CASE LinkDies
        BY <1>1, <2>1, LiveConfigAssumption DEF LinkDies, workVars, Quiet, CInv, TypeOK
    <2>2. CASE Close
        BY <1>1, <2>2 DEF Close, workVars, linkVars, Quiet, CInv, TypeOK
    <2> QED BY <2>1, <2>2
<1>3. JobFits' /\ LoadedSinceAsked'
    BY <1>1 DEF Quiet, workVars, CInv, JobFits, LoadedSinceAsked
<1> QED BY <1>1, <1>2, <1>3, QuietCInv

\* The loop: what it takes next changes nothing anybody sees.
LEMMA LoopQuiet ==
    ASSUME CInv,
           \/ Exit \/ Rebuild \/ (\E b \in Binding : TakeBind(b)) \/ Poll \/ TrimFails
           \/ Receive
    PROVE  CInv' /\ Quiet
<1> USE LiveConfigAssumption
<1>1. CASE Exit
    <2>1. Quiet /\ TypeOK'
        BY <1>1 DEF Exit, Quiet, Bound, CInv, TypeOK
    <2>2. JobFits' /\ LoadedSinceAsked'
        BY <1>1 DEF Exit, CInv, JobFits, LoadedSinceAsked
    <2> QED BY <2>1, <2>2, QuietCInv
<1>2. CASE Rebuild \/ Poll
    <2>1. Quiet /\ TypeOK'
        BY <1>2 DEF Rebuild, Poll, Idle, linkVars, Quiet, Bound, CInv, TypeOK
    <2>2. JobFits' /\ LoadedSinceAsked'
        BY <1>2 DEF Rebuild, Poll, Idle, CInv, JobFits, LoadedSinceAsked
    <2> QED BY <2>1, <2>2, QuietCInv
<1>3. ASSUME NEW b \in Binding, TakeBind(b)
      PROVE  CInv' /\ Quiet
    <2>1. Quiet /\ TypeOK'
        BY <1>3 DEF TakeBind, linkVars, Quiet, Bound, CInv, TypeOK
    <2>2. JobFits' /\ LoadedSinceAsked'
        BY <1>3 DEF TakeBind, Idle, CInv, JobFits, LoadedSinceAsked
    <2> QED BY <2>1, <2>2, QuietCInv
<1>4. CASE TrimFails
    <2>1. Quiet /\ TypeOK'
        BY <1>4, QueryFailsTypes DEF TrimFails, workVars, Quiet, Bound, CInv, TypeOK
    <2>2. JobFits' /\ LoadedSinceAsked'
        BY <1>4 DEF TrimFails, workVars, CInv, JobFits, LoadedSinceAsked
    <2> QED BY <2>1, <2>2, QuietCInv
<1>5. ASSUME NEW m \in inbox, ReceiveChanged(m[1], m[2])
      PROVE  CInv' /\ Quiet
    <2>1. m[1] \in Namespace /\ pc = "loop" /\ job = NoBinding /\ todo = {}
        BY <1>5 DEF ReceiveChanged, Idle, CInv, TypeOK, JobFits
    <2>2. Quiet /\ TypeOK'
        BY <1>5, <2>1 DEF ReceiveChanged, Quiet, Bound, CInv, TypeOK
    <2>3. JobFits' /\ LoadedSinceAsked'
        BY <1>5, <2>1 DEF ReceiveChanged, CInv, JobFits, LoadedSinceAsked
    <2> QED BY <2>2, <2>3, QuietCInv
<1>6. CASE ReceiveReconnected \/ ReconnectUnnoticed \/ ReceiveFails
    <2>1. Quiet /\ TypeOK'
        BY <1>6 DEF ReceiveReconnected, ReconnectUnnoticed, ReceiveFails, workVars, Quiet,
                    Bound, CInv, TypeOK
    <2>2. JobFits' /\ LoadedSinceAsked'
        BY <1>6 DEF ReceiveReconnected, ReconnectUnnoticed, ReceiveFails, workVars, Idle,
                    CInv, JobFits, LoadedSinceAsked
    <2> QED BY <2>1, <2>2, QuietCInv
<1> QED BY <1>1, <1>2, <1>3, <1>4, <1>5, <1>6 DEF Receive

\* So are queries that fail, the read of the revisions and a struct that does not decode.
LEMMA BusyQuiet ==
    ASSUME CInv,
           \/ SeedFails \/ (\E n \in todo : LoadFails(n)) \/ DecodeFails
           \/ RevisionsOk \/ RevisionsFail
    PROVE  CInv' /\ Quiet
<1> USE LiveConfigAssumption
<1>1. CASE SeedFails \/ DecodeFails
    <2>1. pc # "loop" /\ job # NoBinding /\ BindFails /\ UNCHANGED <<revision, states, view, shutdown>>
        BY <1>1 DEF SeedFails, DecodeFails, CInv, JobFits
    <2>2. /\ UNCHANGED push
          /\ link' \in {"up", "cut", "dropped"}
          /\ inbox' \subseteq Namespace \X Nat
          /\ faults' \in 0 .. MaxFaults
        BY <1>1, QueryFailsTypes DEF SeedFails, DecodeFails, linkVars, CInv, TypeOK
    <2>3. Quiet /\ JobFits' /\ LoadedSinceAsked'
        BY <2>1, BindFailsQuiet DEF Quiet
    <2>4. TypeOK'
        BY <2>1, <2>2, BindFailsQuiet DEF CInv, TypeOK
    <2> QED BY <2>3, <2>4, QuietCInv
<1>2. ASSUME NEW n \in todo, LoadFails(n)
      PROVE  CInv' /\ Quiet
    <2>1. /\ UNCHANGED push
          /\ link' \in {"up", "cut", "dropped"}
          /\ inbox' \subseteq Namespace \X Nat
          /\ faults' \in 0 .. MaxFaults
        BY <1>2, QueryFailsTypes DEF LoadFails, CInv
    <2>2. CASE job = NoBinding
        <3>1. /\ UNCHANGED <<revision, states, view, shutdown, job, bind>>
              /\ todo' = todo \ {n}
              /\ pc' = IF todo' # {} THEN "load" ELSE "loop"
            BY <1>2, <2>2 DEF LoadFails, Loaded
        <3>2. Quiet /\ TypeOK'
            BY <2>1, <3>1 DEF Quiet, Bound, CInv, TypeOK
        <3>3. JobFits' /\ LoadedSinceAsked'
            BY <2>2, <3>1 DEF JobFits, LoadedSinceAsked
        <3> QED BY <3>2, <3>3, QuietCInv
    <2>3. CASE job # NoBinding
        <3>1. pc # "loop" /\ BindFails /\ UNCHANGED <<revision, states, view, shutdown>>
            BY <1>2, <2>3 DEF LoadFails
        <3>2. Quiet /\ JobFits' /\ LoadedSinceAsked'
            BY <2>3, <3>1, BindFailsQuiet DEF Quiet
        <3>3. TypeOK'
            BY <2>1, <2>3, <3>1, BindFailsQuiet DEF CInv, TypeOK
        <3> QED BY <3>2, <3>3, QuietCInv
    <2> QED BY <2>2, <2>3
<1>3. CASE RevisionsOk
    <2>1. Quiet /\ TypeOK'
        BY <1>3 DEF RevisionsOk, Newer, linkVars, Quiet, Bound, CInv, TypeOK
    <2>2. JobFits' /\ LoadedSinceAsked'
        BY <1>3 DEF RevisionsOk, CInv, JobFits, LoadedSinceAsked
    <2> QED BY <2>1, <2>2, QuietCInv
<1>4. CASE RevisionsFail
    <2>1. Quiet /\ TypeOK'
        BY <1>4, QueryFailsTypes DEF RevisionsFail, Quiet, Bound, CInv, TypeOK
    <2>2. JobFits' /\ LoadedSinceAsked'
        BY <1>4 DEF RevisionsFail, CInv, JobFits, LoadedSinceAsked
    <2> QED BY <2>1, <2>2, QuietCInv
<1> QED BY <1>1, <1>2, <1>3, <1>4
-----------------------------------------------------------------------------
(* Steps that others can see.                                              *)

\* Somebody commits, or the first statement of a bind does: every revision grows.
Commits ==
    /\ revision' \in [Namespace -> Nat]
    /\ \A n \in Namespace : revision[n] <= revision'[n]
    /\ UNCHANGED <<states, bind, view>>

\* A commit makes a new revision, which nobody has loaded yet.
LEMMA CommitCInv ==
    ASSUME CInv, Commit \/ SeedOk
    PROVE  CInv' /\ Commits
<1> USE LiveConfigAssumption
<1>1. /\ Commits
      /\ inbox' \subseteq Namespace \X Nat
      /\ UNCHANGED <<push, link, job, shutdown, faults>>
    <2>1. CASE Commit
        BY <2>1, WriteCommits DEF Commit, Commits, workVars, CInv
    <2>2. CASE SeedOk
        <3>1. job \in Binding
            BY <2>2 DEF SeedOk, CInv, JobFits, TypeOK
        <3>2. PICK S \in SUBSET Namespace : Write(S)
            BY <2>2, <3>1 DEF SeedOk
        <3> QED BY <2>2, <3>2, WriteCommits DEF SeedOk, Commits, CInv
    <2> QED BY <2>1, <2>2
<1>2. TypeOK' /\ JobFits' /\ LoadedSinceAsked'
    <2>1. CASE Commit
        BY <1>1, <2>1 DEF Commit, Commits, workVars, CInv, TypeOK, JobFits, LoadedSinceAsked
    <2>2. CASE SeedOk
        <3>1. job \in Binding /\ todo' = Uses[job] /\ pc' = "load" /\ todo' \subseteq Namespace
            BY <2>2 DEF SeedOk, CInv, JobFits, TypeOK
        <3> QED BY <1>1, <2>2, <3>1 DEF Commits, CInv, TypeOK, JobFits, LoadedSinceAsked
    <2> QED BY <2>1, <2>2
<1>3. \A b \in Binding : \A n \in Uses[b] : n \in Namespace /\ view[b][n] \in Nat
    BY DEF CInv, TypeOK
<1>4. StatesCommitted' /\ ViewsCommitted'
    <2>1. Bound' = Bound
        BY <1>1 DEF Commits, Bound
    <2>2. StatesCommitted'
        BY <1>1 DEF Commits, CInv, TypeOK, StatesCommitted, Absent
    <2>3. \A b \in Binding : \A n \in Uses[b] : view[b][n] <= revision'[n]
        BY <1>1, <1>3 DEF Commits, CInv, TypeOK, ViewsCommitted
    <2> QED BY <1>1, <2>1, <2>2, <2>3 DEF Commits, CInv, ViewsCommitted
<1>5. BoundInEffect' /\ BoundFollowsState'
    BY <1>1 DEF Commits, CInv, BoundInEffect, BoundFollowsState, Bound, Decodes, Merged
<1> QED BY <1>1, <1>2, <1>4, <1>5 DEF CInv

\* A bind is asked for: its struct is not handed out, and shows nothing yet.
LEMMA AskCInv ==
    ASSUME CInv, NEW b \in Binding, Ask(b)
    PROVE  CInv' /\ Bound' = Bound
<1> USE LiveConfigAssumption
<1>1. /\ b \notin Bound /\ b # job
      /\ view' = [view EXCEPT ![b] = [n \in Uses[b] |-> revision[n]]]
      /\ UNCHANGED <<revision, states, pc, job, todo>>
    BY DEF Ask, Bound, workVars, CInv, JobFits
<1>2. Bound' = Bound
    BY DEF Ask, Bound, CInv, TypeOK
<1>3. \A c \in Binding : c # b => view'[c] = view[c]
    BY <1>1 DEF CInv, TypeOK
<1>4. view'[b] = [n \in Uses[b] |-> revision[n]]
    BY <1>1 DEF CInv, TypeOK
<1>5. TypeOK'
    <2>1. DOMAIN view' = Binding /\ \A c \in Binding : view'[c] \in [Uses[c] -> Nat]
        BY <1>1, <1>3, <1>4 DEF CInv, TypeOK
    <2> QED BY <2>1 DEF Ask, workVars, linkVars, CInv, TypeOK
<1>6. JobFits'
    BY <1>1 DEF Ask, CInv, TypeOK, JobFits
<1>7. LoadedSinceAsked'
    BY <1>1, <1>3 DEF CInv, TypeOK, LoadedSinceAsked
<1>8. StatesCommitted' /\ BoundInEffect'
    BY <1>1, <1>2 DEF CInv, StatesCommitted, BoundInEffect
<1>9. ViewsCommitted'
    <2>1. \A n \in Uses[b] : view'[b][n] = revision[n] /\ revision[n] \in Nat
        BY <1>4 DEF CInv, TypeOK
    <2> QED BY <1>1, <1>2, <1>3, <2>1 DEF CInv, Bound, ViewsCommitted
<1>10. BoundFollowsState'
    <2>1. ASSUME NEW c \in Bound
          PROVE  view'[c] = view[c] /\ Decodes(c, states)' = Decodes(c, states)
                 /\ Merged(c, states)' = Merged(c, states)
        BY <1>1, <1>3 DEF Bound, Decodes, Merged
    <2> QED BY <1>2, <2>1 DEF CInv, BoundFollowsState
<1> QED BY <1>2, <1>5, <1>6, <1>7, <1>8, <1>9, <1>10 DEF CInv

\* What the worker loads is published in every struct that uses it and decodes.
LEMMA UpdateViews ==
    ASSUME CInv, NEW n \in Namespace, Update(n)
    PROVE  /\ states' \in [Namespace -> [revision : {Absent} \cup Nat, effective : BOOLEAN]]
           /\ \A m \in Namespace : /\ states'[m].effective = states[m].effective
                                   /\ states[m].revision <= states'[m].revision
                                   /\ m # n => states'[m].revision = states[m].revision
           /\ states'[n].revision = revision[n]
           /\ DOMAIN view' = Binding
           /\ \A b \in Binding \ Bound : view'[b] = view[b]
           /\ \A b \in Bound : \/ view'[b] = view[b]
                               \/ view'[b] = Merged(b, states') /\ Decodes(b, states')
           /\ \A b \in Bound : Decodes(b, states') => view'[b] = Merged(b, states')
<1> USE LiveConfigAssumption
<1>1. /\ states \in [Namespace -> [revision : {Absent} \cup Nat, effective : BOOLEAN]]
      /\ revision[n] \in Nat /\ states[n].revision <= revision[n]
      /\ DOMAIN view = Binding
    BY DEF CInv, TypeOK, StatesCommitted
<1>2. CASE revision[n] <= states[n].revision
    <2>1. UNCHANGED <<states, view>>
        BY <1>2 DEF Update
    <2>2. \A m \in Namespace : states[m].revision \in Int
        <3>1. {Absent} \cup Nat \subseteq Int
            BY DEF Absent
        <3> QED BY <1>1, <3>1
    <2>3. states[n].revision = revision[n]
        <3>1. /\ revision[n] \in Int /\ states[n].revision \in Int
              /\ states[n].revision <= revision[n] /\ revision[n] <= states[n].revision
            BY <1>1, <1>2, <2>2
        <3> QED BY <3>1
    <2>4. \A b \in Bound : Decodes(b, states') => view'[b] = Merged(b, states')
        BY <2>1 DEF CInv, BoundFollowsState
    <2>5. \A m \in Namespace : states[m].revision <= states[m].revision
        BY <2>2
    <2> QED BY <1>1, <2>1, <2>3, <2>4, <2>5
<1>3. CASE ~(revision[n] <= states[n].revision)
    <2>1. /\ states' = [states EXCEPT ![n].revision = revision[n]]
          /\ view' = [b \in Binding |->
                 IF states[n].effective /\ b \in Bound /\ n \in Uses[b] /\ Decodes(b, states')
                   THEN Merged(b, states') ELSE view[b]]
        BY <1>3 DEF Update
    <2>2. /\ states' \in [Namespace -> [revision : {Absent} \cup Nat, effective : BOOLEAN]]
          /\ \A m \in Namespace : /\ states'[m].effective = states[m].effective
                                  /\ states[m].revision <= states'[m].revision
                                  /\ m # n => states'[m].revision = states[m].revision
          /\ states'[n].revision = revision[n]
        BY <1>1, <2>1 DEF Absent
    <2>3. ASSUME NEW b \in Bound, Decodes(b, states')
          PROVE  view'[b] = Merged(b, states')
        <3>1. b \in Binding
            BY DEF Bound
        <3>2. CASE n \in Uses[b]
            BY <2>1, <2>3, <3>1, <3>2 DEF CInv, BoundInEffect
        <3>3. CASE n \notin Uses[b]
            <4>1. \A m \in Uses[b] : states'[m].revision = states[m].revision
                BY <2>2, <3>1, <3>3
            <4>2. Decodes(b, states) /\ Merged(b, states') = Merged(b, states)
                BY <2>3, <4>1 DEF Decodes, Merged
            <4> QED BY <2>1, <3>1, <3>3, <4>2 DEF CInv, BoundFollowsState
        <3> QED BY <3>2, <3>3
    <2>4. \A b \in Bound : \/ view'[b] = view[b]
                           \/ view'[b] = Merged(b, states') /\ Decodes(b, states')
        BY <2>1 DEF Bound
    <2>5. DOMAIN view' = Binding /\ \A b \in Binding \ Bound : view'[b] = view[b]
        BY <2>1
    <2> QED BY <2>2, <2>3, <2>4, <2>5
<1> QED BY <1>2, <1>3

\* A load keeps the invariant, and readers see committed states that decode, none older
\* than before.
LEMMA LoadCInv ==
    ASSUME CInv, NEW n \in todo, LoadOk(n)
    PROVE  CInv' /\ Register!Publish
<1> USE LiveConfigAssumption
<1>1. /\ n \in Namespace /\ Update(n) /\ pc = "load"
      /\ UNCHANGED <<revision, linkVars, job, bind, shutdown, faults>>
      /\ todo' = todo \ {n}
      /\ pc' = IF todo' # {} THEN "load" ELSE IF job = NoBinding THEN "loop" ELSE "apply"
    BY DEF LoadOk, Loaded, CInv, TypeOK
<1>2. Bound' = Bound /\ Bound \subseteq Binding
    BY <1>1 DEF Bound
<1> DEFINE Types == states' \in [Namespace -> [revision : {Absent} \cup Nat, effective : BOOLEAN]]
           Grow == \A m \in Namespace : /\ states'[m].effective = states[m].effective
                                        /\ states[m].revision <= states'[m].revision
                                        /\ m # n => states'[m].revision = states[m].revision
           Views == /\ \A b \in Binding \ Bound : view'[b] = view[b]
                    /\ \A b \in Bound : \/ view'[b] = view[b]
                                        \/ view'[b] = Merged(b, states') /\ Decodes(b, states')
<1>3. /\ Types /\ Grow /\ Views
      /\ states'[n].revision = revision[n]
      /\ DOMAIN view' = Binding
      /\ \A b \in Bound : Decodes(b, states') => view'[b] = Merged(b, states')
    BY <1>1, UpdateViews
<1> HIDE DEF Types, Grow, Views
<1>4. \A b \in Binding : Uses[b] \subseteq Namespace /\ view[b] \in [Uses[b] -> Nat]
    BY DEF CInv, TypeOK
<1>5. \A m \in Namespace : /\ revision[m] \in Nat
                           /\ states[m].revision \in Int /\ states'[m].revision \in Int
    <2>1. {Absent} \cup Nat \subseteq Int
        BY DEF Absent
    <2> QED BY <1>3, <2>1 DEF Types, CInv, TypeOK
<1>6. \A m \in Namespace : states'[m].revision <= revision[m]
    BY <1>3, <1>5 DEF Grow, CInv, StatesCommitted
<1>7. \A m \in Namespace : states'[m].effective => states'[m].revision \in Nat
    <2> SUFFICES ASSUME NEW m \in Namespace, states'[m].effective
                 PROVE  states'[m].revision \in Nat
        OBVIOUS
    <2>1. states[m].revision # Absent /\ states[m].revision \in {Absent} \cup Nat
        BY <1>3 DEF Grow, CInv, StatesCommitted, TypeOK
    <2> QED BY <1>3, <1>5, <2>1 DEF Grow
\* What is made new is made of revisions that are known and not older.
<1>8. ASSUME NEW b \in Bound, view'[b] = Merged(b, states')
      PROVE  \A m \in Uses[b] : /\ view'[b][m] \in Nat
                                /\ view'[b][m] = states'[m].revision
                                /\ view[b][m] <= view'[b][m]
    <2> SUFFICES ASSUME NEW m \in Uses[b]
                 PROVE  /\ view'[b][m] \in Nat
                        /\ view'[b][m] = states'[m].revision
                        /\ view[b][m] <= view'[b][m]
        OBVIOUS
    <2>1. m \in Namespace /\ view'[b][m] = states'[m].revision /\ view[b][m] \in Nat
        BY <1>2, <1>4, <1>8 DEF Merged
    <2>2. states'[m].revision \in Nat
        BY <1>3, <1>7, <2>1 DEF Grow, CInv, BoundInEffect
    <2>3. view[b][m] <= states[m].revision /\ states[m].revision <= states'[m].revision
        BY <1>3, <2>1 DEF Grow, CInv, ViewsCommitted
    <2> QED BY <1>5, <2>1, <2>2, <2>3
<1>9. TypeOK'
    <2>1. ASSUME NEW b \in Binding
          PROVE  view'[b] \in [Uses[b] -> Nat]
        <3>1. CASE view'[b] = view[b]
            BY <1>4, <3>1
        <3>2. CASE b \in Bound /\ view'[b] = Merged(b, states')
            BY <1>8, <3>2 DEF Merged
        <3> QED BY <1>3, <3>1, <3>2 DEF Views
    <2> QED BY <1>1, <1>3, <2>1 DEF Types, linkVars, CInv, TypeOK
<1>10. JobFits'
    BY <1>1 DEF CInv, JobFits
<1>11. StatesCommitted'
    BY <1>1, <1>3, <1>6, <1>7 DEF StatesCommitted, Absent
<1>12. BoundInEffect'
    BY <1>2, <1>3, <1>4 DEF Grow, CInv, BoundInEffect
<1>13. ViewsCommitted'
    <2>1. ASSUME NEW b \in Binding, NEW m \in Uses[b]
          PROVE  view'[b][m] <= revision[m] /\ (b \in Bound => view'[b][m] <= states'[m].revision)
        <3>1. m \in Namespace /\ view[b][m] \in Nat
            BY <1>4
        <3>2. CASE view'[b] = view[b]
            <4>1. view[b][m] <= revision[m] /\ (b \in Bound => view[b][m] <= states[m].revision)
                BY DEF CInv, ViewsCommitted
            <4>2. states[m].revision <= states'[m].revision
                BY <1>3, <3>1 DEF Grow
            <4> QED BY <1>5, <3>1, <3>2, <4>1, <4>2
        <3>3. CASE b \in Bound /\ view'[b] = Merged(b, states')
            BY <1>5, <1>6, <1>8, <3>1, <3>3
        <3> QED BY <1>3, <3>2, <3>3 DEF Views
    <2> QED BY <1>1, <1>2, <2>1 DEF ViewsCommitted
<1>14. LoadedSinceAsked'
    <2> SUFFICES ASSUME job # NoBinding, NEW m \in Uses[job], m \notin todo'
                 PROVE  states'[m].revision # Absent /\ view'[job][m] <= states'[m].revision
        BY <1>1 DEF LoadedSinceAsked
    <2>1. /\ job \in Binding /\ job \notin Bound /\ m \in Namespace
          /\ view'[job] = view[job] /\ view[job][m] \in Nat
        BY <1>3, <1>4 DEF Views, CInv, TypeOK, JobFits, Bound
    <2>2. view[job][m] <= states'[m].revision
        <3>1. CASE m = n
            BY <1>3, <2>1, <3>1 DEF CInv, ViewsCommitted
        <3>2. CASE m # n
            BY <1>1, <1>3, <2>1, <3>2 DEF Grow, CInv, LoadedSinceAsked
        <3> QED BY <3>1, <3>2
    <2> QED BY <1>5, <2>1, <2>2 DEF Absent
<1>15. BoundFollowsState'
    BY <1>2, <1>3 DEF BoundFollowsState
<1>16. Register!Publish
    <2>1. ASSUME NEW b \in Bound, view'[b] = Merged(b, states'), Decodes(b, states')
          PROVE  Register!Shows(b)
        <3> SUFFICES ASSUME NEW m \in Uses[b]
                     PROVE  /\ view'[b][m] \in view[b][m] .. revision[m]
                            /\ <<b, m, view'[b][m]>> \notin Undecodable
            BY DEF Register!Shows
        <3>1. m \in Namespace /\ view[b][m] \in Nat
            BY <1>2, <1>4
        <3>2. /\ view'[b][m] = states'[m].revision /\ view'[b][m] \in Nat
              /\ view[b][m] <= view'[b][m] /\ view'[b][m] <= revision[m]
            BY <1>6, <1>8, <2>1, <3>1
        <3>3. revision[m] \in Nat
            BY <1>5, <3>1
        <3>4. <<b, m, view'[b][m]>> \notin Undecodable
            BY <2>1, <3>2 DEF Decodes
        <3> QED BY <3>1, <3>2, <3>3, <3>4
    <2> QED BY <1>1, <1>2, <1>3, <2>1 DEF Views, Register!Publish
<1> QED BY <1>9, <1>10, <1>11, <1>12, <1>13, <1>14, <1>15, <1>16 DEF CInv

\* A struct that is made for the first time is handed out with all it is made of loaded
\* after it was asked for.
LEMMA PublishCInv ==
    ASSUME CInv, Publish
    PROVE  CInv' /\ Register!Publish
<1> USE LiveConfigAssumption
<1>1. /\ pc = "apply" /\ Decodes(job, states) /\ pc' = "loop" /\ job' = NoBinding
      /\ view' = [view EXCEPT ![job] = Merged(job, states)]
      /\ states' = [n \in Namespace |-> [states[n] EXCEPT !.effective = @ \/ n \in Uses[job]]]
      /\ bind' = [bind EXCEPT ![job] = "ok"]
      /\ UNCHANGED <<revision, linkVars, todo, shutdown, faults>>
    BY DEF Publish
<1>2. /\ job \in Binding /\ job \notin Bound /\ Bound' = Bound \cup {job}
      /\ Bound \subseteq Binding /\ todo = {}
    BY <1>1 DEF CInv, JobFits, TypeOK, Bound
<1>3. \A n \in Namespace : /\ revision[n] \in Nat
                           /\ states[n].revision \in {Absent} \cup Nat
                           /\ states[n].revision \in Int
                           /\ states[n].effective \in BOOLEAN
    BY DEF CInv, TypeOK, Absent
<1>4. \A n \in Namespace : /\ states'[n].revision = states[n].revision
                           /\ states'[n].effective = (states[n].effective \/ n \in Uses[job])
    BY <1>1 DEF CInv, TypeOK
<1>5. states' \in [Namespace -> [revision : {Absent} \cup Nat, effective : BOOLEAN]]
    BY <1>1 DEF CInv, TypeOK
<1>6. \A b \in Binding : Uses[b] \subseteq Namespace /\ view[b] \in [Uses[b] -> Nat]
    BY DEF CInv, TypeOK
<1>7. \A n \in Uses[job] : /\ states[n].revision # Absent /\ states[n].revision \in Nat
                           /\ view[job][n] <= states[n].revision
                           /\ states[n].revision <= revision[n]
    BY <1>1, <1>2, <1>3, <1>6 DEF CInv, LoadedSinceAsked, StatesCommitted, JobFits
<1>8. /\ DOMAIN view' = Binding
      /\ view'[job] = [n \in Uses[job] |-> states[n].revision]
      /\ \A b \in Binding : b # job => view'[b] = view[b]
    BY <1>1, <1>2 DEF CInv, TypeOK, Merged
<1>9. \A b \in Binding : /\ Decodes(b, states') <=> Decodes(b, states)
                         /\ Merged(b, states') = Merged(b, states)
    BY <1>4, <1>6 DEF Decodes, Merged
<1>10. TypeOK'
    <2>1. \A b \in Binding : view'[b] \in [Uses[b] -> Nat]
        BY <1>6, <1>7, <1>8
    <2>2. bind' \in [Binding -> {"idle", "asked", "ok", "failed", "closed"}]
        BY <1>1 DEF CInv, TypeOK
    <2> QED BY <1>1, <1>5, <1>8, <2>1, <2>2 DEF linkVars, CInv, TypeOK
<1>11. JobFits' /\ LoadedSinceAsked'
    BY <1>1, <1>2 DEF JobFits, LoadedSinceAsked
<1>12. StatesCommitted'
    BY <1>1, <1>4, <1>7 DEF CInv, StatesCommitted
<1>13. BoundInEffect'
    BY <1>2, <1>4, <1>6 DEF CInv, BoundInEffect
<1>14. ViewsCommitted'
    <2>1. ASSUME NEW b \in Binding, NEW n \in Uses[b]
          PROVE  view'[b][n] <= revision[n] /\ (b \in Bound' => view'[b][n] <= states'[n].revision)
        <3>1. CASE b = job
            BY <1>3, <1>4, <1>6, <1>7, <1>8, <3>1
        <3>2. CASE b # job
            BY <1>2, <1>4, <1>6, <1>8, <3>2 DEF CInv, ViewsCommitted
        <3> QED BY <3>1, <3>2
    <2> QED BY <1>1, <1>2, <2>1 DEF ViewsCommitted
<1>15. BoundFollowsState'
    BY <1>2, <1>8, <1>9 DEF CInv, BoundFollowsState, Merged
<1>16. Register!Publish
    <2>1. Register!Shows(job)
        <3> SUFFICES ASSUME NEW n \in Uses[job]
                     PROVE  /\ view'[job][n] \in view[job][n] .. revision[n]
                            /\ <<job, n, view'[job][n]>> \notin Undecodable
            BY DEF Register!Shows
        <3>1. n \in Namespace /\ view[job][n] \in Nat /\ revision[n] \in Nat
            BY <1>2, <1>3, <1>6
        <3>2. view'[job][n] = states[n].revision
            BY <1>8
        <3> QED BY <1>1, <1>7, <3>1, <3>2 DEF Decodes
    <2> QED BY <1>1, <1>2, <1>8, <2>1 DEF Register!Publish
<1> QED BY <1>10, <1>11, <1>12, <1>13, <1>14, <1>15, <1>16 DEF CInv
-----------------------------------------------------------------------------
(* The theorems.                                                           *)

\* Every step keeps the invariant, and is one of LiveRegister or shows nobody anything.
LEMMA NextCInv ==
    CInv /\ [Next]_vars => CInv' /\ [Register!Next]_<<revision, Bound, view>>
<1> SUFFICES ASSUME CInv, [Next]_vars
             PROVE  CInv' /\ (Register!Next \/ UNCHANGED <<revision, Bound, view>>)
    OBVIOUS
<1>1. CASE UNCHANGED vars
    <2>1. Quiet /\ UNCHANGED <<linkVars, workVars, bind, shutdown, faults>>
        BY <1>1 DEF vars, Quiet, Bound
    <2>2. TypeOK' /\ JobFits' /\ LoadedSinceAsked'
        BY <2>1 DEF Quiet, linkVars, workVars, CInv, TypeOK, JobFits, LoadedSinceAsked
    <2> QED BY <2>1, <2>2, QuietCInv DEF Quiet
<1>2. CASE LinkDies \/ Close
    BY <1>2, EnvironmentQuiet DEF Quiet
<1>3. CASE Commit \/ SeedOk
    <2>1. CInv' /\ Commits
        BY <1>3, CommitCInv
    <2>2. Register!Commit
        BY <2>1, LiveConfigAssumption DEF Commits, Register!Commit, Bound, CInv, TypeOK
    <2> QED BY <2>1, <2>2 DEF Register!Next
<1>4. ASSUME NEW b \in Binding, Ask(b)
      PROVE  CInv' /\ Register!Next
    <2>1. CInv' /\ Bound' = Bound
        BY <1>4, AskCInv
    <2>2. Register!Ask(b)
        BY <1>4, <2>1 DEF Ask, Register!Ask, Bound
    <2> QED BY <2>1, <2>2 DEF Register!Next
<1>5. CASE \/ Exit \/ Rebuild \/ (\E b \in Binding : TakeBind(b)) \/ Poll \/ TrimFails
           \/ Receive
    BY <1>5, LoopQuiet DEF Quiet
<1>6. CASE \/ SeedFails \/ (\E n \in todo : LoadFails(n)) \/ DecodeFails
           \/ RevisionsOk \/ RevisionsFail
    BY <1>6, BusyQuiet DEF Quiet
<1>7. CASE (\E n \in todo : LoadOk(n)) \/ Publish
    BY <1>7, LoadCInv, PublishCInv DEF Register!Next
<1> QED
    BY <1>1, <1>2, <1>3, <1>4, <1>5, <1>6, <1>7 DEF Next, Environment, Busy

\* The invariant holds in every reachable state.
LEMMA Invariant == Spec => []CInv
BY InitCInv, NextCInv, PTL DEF Spec

\* Every struct handed out follows what the worker knows, if it decodes, whichever bind,
\* notification or poll brought the revisions and whatever failed before.
THEOREM BoundFollowsStateCorrect == Spec => []BoundFollowsState
<1>1. CInv => BoundFollowsState
    BY DEF CInv
<1> QED BY Invariant, <1>1, PTL

\* Readers see committed states that decode, not older than the bind and never going back,
\* although notifications are lost and reordered and connections die.
THEOREM ReadersSeeRegisterCorrect == Spec => ReadersSeeRegister
<1>1. Init => Register!Init
    BY DEF Init, Register!Init, Bound
<1>2. CInv /\ [Next]_vars => [Register!Next]_Register!registerVars
    BY NextCInv DEF Register!registerVars
<1> QED
    BY <1>1, <1>2, Invariant, PTL DEF Spec, ReadersSeeRegister, Register!Spec

----------------------------------------------------------------------------
(* LiveConfigSource.                                                        *)

\* One initialisation of the command channel is under way at most, and only as long as
\* there is no channel.
OneInit ==
    /\ \A c, d \in Caller :
          place[c] \in {"opening", "spawned"} /\ place[d] \in {"opening", "spawned"} => c = d
    /\ \A c \in Caller : place[c] \in {"opening", "spawned"} => ~cell

\* The Store is where the initialisation and the worker say it is.
StorePlace ==
    /\ store = "opening" <=> \E c \in Caller : place[c] = "opening"
    /\ store \in {"slot", "opening", "lost"} => worker = "none" /\ ~cell
    /\ store = "worker" <=> worker \notin {"none", "ended"}

\* A worker was started by an initialisation that is not over or left the channel.
WorkerKnown ==
    /\ worker # "none" => cell \/ \E c \in Caller : place[c] = "spawned"
    /\ \A c \in Caller : place[c] = "spawned" => worker # "none"
    /\ cell => worker # "none"

\* Only close() has the worker end and the Store closed.
ClosedByClose ==
    /\ worker = "ended" => cancelled
    /\ store = "closed" => cancelled
    /\ closer # "idle" => cancelled

\* The caller of the bind that the worker is at may have given up, but makes no other call.
TakenKnown == worker \in Caller => place[worker] \in {"sent", "dropped"}

\* A late call never gets as far as the Store.
LateStayOut == \A c \in late : cancelled /\ place[c] \notin {"idle", "opening", "spawned"}

\* A worker that answered a late call is past the turn in which it took it, and finds
\* the token cancelled in its next one.
LateTurn == \A c \in late : place[c] \in {"ok", "failed"} => worker \in {"waiting", "ended"}

\* The inductive invariant.
SInv ==
    /\ SourceTypeOK /\ OneInit /\ StorePlace /\ WorkerKnown
    /\ ClosedByClose /\ TakenKnown /\ LateStayOut /\ LateTurn /\ LateBindsFail
    /\ ClosedWhenClosing

\* At first the source is open and nobody has called.
LEMMA InitSInv == SourceInit => SInv
BY CallerAssumption
   DEF SourceInit, SInv, SourceTypeOK, OneInit, StorePlace, WorkerKnown, ClosedByClose, TakenKnown,
       LateStayOut, LateTurn, LateBindsFail, ClosedWhenClosing, Ended

\* What a call of bind does up to the channel keeps the invariant.
LEMMA RegistersSInv ==
    ASSUME SInv, NEW c \in Caller, Call(c) \/ Registers(c) \/ Drop(c)
    PROVE  SInv'
<1> USE CallerAssumption DEF Goto, SInv
<1>1. CASE Call(c)
    <2>1. SourceTypeOK' /\ OneInit' /\ StorePlace' /\ WorkerKnown' /\ ClosedByClose'
        BY <1>1 DEF Call, SourceTypeOK, OneInit, StorePlace, WorkerKnown, ClosedByClose, Ended
    <2>2. TakenKnown'
        BY <1>1 DEF Call, SourceTypeOK, TakenKnown
    <2>3. LateStayOut' /\ LateTurn' /\ LateBindsFail' /\ ClosedWhenClosing'
        BY <1>1 DEF Call, SourceTypeOK, LateStayOut, LateTurn, LateBindsFail, ClosedWhenClosing
    <2> QED BY <2>1, <2>2, <2>3
<1>2. CASE CellIsSet(c)
    BY <1>2 DEF CellIsSet, SourceTypeOK, OneInit, StorePlace, WorkerKnown, ClosedByClose, TakenKnown,
                LateStayOut, LateTurn, LateBindsFail, ClosedWhenClosing, Ended
<1>3. CASE InitClosed(c)
    \* The guard says that the Store is gone: taken with the channel, closed or lost.
    <2>1. cancelled \/ store = "lost"
        BY <1>3 DEF InitClosed, Permit, SourceTypeOK, StorePlace, WorkerKnown, ClosedByClose
    <2> QED
        BY <1>3, <2>1 DEF InitClosed, SourceTypeOK, OneInit, StorePlace, WorkerKnown, ClosedByClose,
                          TakenKnown, LateStayOut, LateTurn, LateBindsFail, ClosedWhenClosing, Ended
<1>4. CASE TakeStore(c)
    BY <1>4 DEF TakeStore, Permit, SourceTypeOK, OneInit, StorePlace, WorkerKnown, ClosedByClose,
                TakenKnown, LateStayOut, LateTurn, LateBindsFail, ClosedWhenClosing, Ended
<1>5. CASE OpenFails(c) \/ Spawn(c)
    BY <1>5 DEF OpenFails, Spawn, SourceTypeOK, OneInit, StorePlace, WorkerKnown, ClosedByClose,
                TakenKnown, LateStayOut, LateTurn, LateBindsFail, ClosedWhenClosing, Ended
<1>6. CASE KeepHandle(c)
    BY <1>6 DEF KeepHandle, SourceTypeOK, OneInit, StorePlace, WorkerKnown, ClosedByClose,
                TakenKnown, LateStayOut, LateTurn, LateBindsFail, ClosedWhenClosing, Ended
<1>7. CASE Send(c)
    BY <1>7 DEF Send, SourceTypeOK, OneInit, StorePlace, WorkerKnown, ClosedByClose,
                TakenKnown, LateStayOut, LateTurn, LateBindsFail, ClosedWhenClosing, Ended
<1>8. CASE Drop(c)
    BY <1>8 DEF Drop, SourceTypeOK, OneInit, StorePlace, WorkerKnown, ClosedByClose,
                TakenKnown, LateStayOut, LateTurn, LateBindsFail, ClosedWhenClosing, Ended
<1> QED
    BY <1>1, <1>2, <1>3, <1>4, <1>5, <1>6, <1>7, <1>8 DEF Registers

\* So does the worker: it takes no second late call, for it looks at the token in between.
LEMMA WorkerSInv ==
    ASSUME SInv, Worker
    PROVE  SInv'
<1> USE CallerAssumption DEF SInv
<1>1. CASE WorkerEnds
    BY <1>1 DEF WorkerEnds, SourceTypeOK, OneInit, StorePlace, WorkerKnown, ClosedByClose,
                TakenKnown, LateStayOut, LateTurn, LateBindsFail, ClosedWhenClosing, Ended
<1>2. ASSUME NEW c \in Caller, TakesBind(c)
      PROVE  SInv'
    BY <1>2 DEF TakesBind, SourceTypeOK, OneInit, StorePlace, WorkerKnown, ClosedByClose,
                TakenKnown, LateStayOut, LateTurn, LateBindsFail, ClosedWhenClosing, Ended
<1>3. ASSUME NEW c \in Caller, AnswersBind(c)
      PROVE  SInv'
    BY <1>3 DEF AnswersBind, SourceTypeOK, OneInit, StorePlace, WorkerKnown, ClosedByClose,
                TakenKnown, LateStayOut, LateTurn, LateBindsFail, ClosedWhenClosing, Ended
<1>4. CASE FindsNotCancelled \/ FindsNoBind
    BY <1>4 DEF FindsNotCancelled, FindsNoBind, SourceTypeOK, OneInit, StorePlace, WorkerKnown,
                ClosedByClose, TakenKnown, LateStayOut, LateTurn, LateBindsFail, ClosedWhenClosing
<1> QED
    BY <1>1, <1>2, <1>3, <1>4 DEF Worker

\* Every step keeps the invariant.
LEMMA NextSInv == SInv /\ [SourceNext]_sourceVars => SInv'
<1> SUFFICES ASSUME SInv, [SourceNext]_sourceVars PROVE SInv'
    OBVIOUS
<1>1. CASE UNCHANGED sourceVars
    BY <1>1 DEF sourceVars, SInv, SourceTypeOK, OneInit, StorePlace, WorkerKnown, ClosedByClose,
                TakenKnown, LateStayOut, LateTurn, LateBindsFail, ClosedWhenClosing
<1>2. CASE CloseBegins
    BY <1>2 DEF CloseBegins, SInv, SourceTypeOK, OneInit, StorePlace, WorkerKnown, ClosedByClose,
                TakenKnown, LateStayOut, LateTurn, LateBindsFail, ClosedWhenClosing
<1>3. CASE CloseTakesHandle \/ CloseJoins
    <2>1. UNCHANGED <<cancelled, store, cell, worker, place, late>> /\ closer # "idle"
        BY <1>3 DEF CloseTakesHandle, CloseJoins
    <2>2. SourceTypeOK'
        BY <1>3, <2>1 DEF CloseTakesHandle, CloseJoins, SInv, SourceTypeOK
    <2> QED
        BY <2>1, <2>2 DEF SInv, OneInit, StorePlace, WorkerKnown, ClosedByClose,
                          TakenKnown, LateStayOut, LateTurn, LateBindsFail, ClosedWhenClosing
<1>4. CASE CloseTakesStore
    BY <1>4 DEF CloseTakesStore, SInv, SourceTypeOK, OneInit, StorePlace, WorkerKnown,
                ClosedByClose, TakenKnown, LateStayOut, LateTurn, LateBindsFail, ClosedWhenClosing
<1> QED
    BY <1>1, <1>2, <1>3, <1>4, RegistersSInv, WorkerSInv DEF SourceNext, Closing

\* The invariant holds in every reachable state.
LEMMA SourceInvariant == SourceSpec => []SInv
BY InitSInv, NextSInv, PTL DEF SourceSpec

\* The connection has one user, for any number of calls: the call that opens it, or the
\* worker from the moment it runs until it has closed it.
THEOREM OneOwnerCorrect == SourceSpec => []OneOwner
<1>1. ASSUME SInv PROVE OneOwner
    <2> DEFINE opening == {c \in Caller : place[c] = "opening"}
    <2>1. CASE store = "opening"
        <3>1. PICK c \in Caller : place[c] = "opening"
            BY <1>1, <2>1 DEF SInv, StorePlace
        <3>2. opening = {c}
            BY <1>1, <3>1 DEF SInv, OneInit
        <3> QED BY <1>1, <2>1, <3>2, FS_Singleton DEF SInv, OneOwner, StorePlace
    <2>2. CASE store # "opening"
        <3>1. opening = {}
            BY <1>1, <2>2 DEF SInv, StorePlace
        <3> QED BY <1>1, <2>2, <3>1, FS_EmptySet DEF SInv, OneOwner, StorePlace
    <2> QED BY <2>1, <2>2
<1> QED BY <1>1, SourceInvariant, PTL

\* A source is closed for its callers from the moment close() begins, but for the turn
\* that the worker is in, and not before: one later bind at most succeeds or fails
\* otherwise, and nobody is told too early.
THEOREM ClosedMeansClosedCorrect == SourceSpec => []ClosedMeansClosed
<1>1. SInv => ClosedMeansClosed
    BY DEF SInv, ClosedMeansClosed
<1> QED BY <1>1, SourceInvariant, PTL

-----------------------------------------------------------------------------
(* The handles.                                                             *)

Version == [ver : Nat, seen : Values]
HandlesTypeOK ==
  /\ newest \in Version /\ newest.ver # 0
  /\ known \in [Handles -> [ver : Nat, seen : Values, view : SUBSET Fields, watch : SUBSET Fields]]
  /\ mode \in [Handles -> {"none", "idle", "any", "by", "compare", "call", "ended"}]
  /\ base \in [Handles -> Version]
  /\ told \in [Tasks -> Values]

\* A handle is never ahead of the channel, and what it holds is what was sent last if it is
\* not behind either.
NewestIsSeen(h) ==
  /\ known[h].ver <= newest.ver
  /\ known[h].ver = newest.ver => known[h].seen = newest.seen

\* What was returned last is what was observed last, but for the versions that a wait for
\* some fields has looked at and passed over: they show the same.
BaseIsSeen(h) ==
  /\ mode[h] \in {"idle", "any", "call"} => base[h] = Seen(h)
  /\ mode[h] \in {"by", "compare"} => Same(base[h].seen, known[h].seen, known[h].watch)

\* The same of the version that a callback was given last; when it is about to be called for
\* fields, what it will be given differs in them.
ToldIsSeen(g) ==
  /\ mode[g] = "any" => Kind(known[g].view) = "any"
  /\ mode[g] \in {"any", "by", "compare"} => Same(told[g], known[g].seen, known[g].watch)
  /\ mode[g] = "call" /\ Kind(known[g].view) = "by" =>
       ~ Same(told[g], known[g].seen, known[g].watch)

\* The inductive invariant: the properties are about a handle that waits, which only says
\* something of the next return if nothing was lost while it compared.
HandlesInv ==
  /\ HandlesTypeOK
  /\ \A h \in Handles : NewestIsSeen(h) /\ BaseIsSeen(h)
  /\ \A g \in Tasks : ToldIsSeen(g)

\* At first no handle is bound.
LEMMA InitHandlesInv == HandlesInit => HandlesInv
<1> SUFFICES ASSUME HandlesInit PROVE HandlesInv
  OBVIOUS
<1> DEFINE first == [ver |-> 0, seen |-> Nothing.seen, view |-> Fields, watch |-> Fields]
<1>1. Nothing \in Version /\ Nothing.ver = 0
  <2>1. PICK n \in [ver : {1}, seen : Values] : newest = n
    BY DEF HandlesInit
  <2>2. n.seen \in Values
    OBVIOUS
  <2>3. (CHOOSE v \in Values : TRUE) \in Values
    BY <2>2
  <2> QED BY <2>3 DEF Nothing, Version
<1>2. /\ first \in [ver : Nat, seen : Values, view : SUBSET Fields, watch : SUBSET Fields]
      /\ first.ver = 0
  BY <1>1 DEF Version
<1> HIDE DEF first
<1>3. /\ newest \in Version /\ newest.ver = 1
      /\ known = [h \in Handles |-> first] /\ mode = [h \in Handles |-> "none"]
      /\ base = [h \in Handles |-> Nothing] /\ told = [g \in Tasks |-> Nothing.seen]
      /\ \A g \in Tasks : g \in Handles
  BY DEF HandlesInit, first, Version, Handles
<1>4. HandlesTypeOK
  BY <1>1, <1>2, <1>3 DEF HandlesTypeOK, Version
<1>5. \A h \in Handles : NewestIsSeen(h) /\ BaseIsSeen(h)
  BY <1>2, <1>3 DEF NewestIsSeen, BaseIsSeen
<1>6. \A g \in Tasks : ToldIsSeen(g)
  BY <1>3 DEF ToldIsSeen
<1> QED BY <1>4, <1>5, <1>6 DEF HandlesInv
-----------------------------------------------------------------------------
\* A step at one handle leaves the others as they were.
Untouched(h) ==
  /\ newest' = newest /\ known'[h] = known[h] /\ mode'[h] = mode[h] /\ base'[h] = base[h]
  /\ h \in Tasks => told'[h] = told[h]

\* What is said of a handle holds on if the handle is left as it was.
LEMMA UntouchedKeeps ==
  ASSUME NEW h, Untouched(h), NewestIsSeen(h), BaseIsSeen(h), h \in Tasks => ToldIsSeen(h)
  PROVE  NewestIsSeen(h)' /\ BaseIsSeen(h)' /\ (h \in Tasks => ToldIsSeen(h)')
<1>1. Seen(h)' = Seen(h)
  BY DEF Untouched, Seen
<1> QED
  BY <1>1 DEF Untouched, NewestIsSeen, BaseIsSeen, ToldIsSeen, Same, Project

\* So a step at handle h keeps the invariant if it keeps it at h.
LEMMA LocalStep ==
  ASSUME HandlesInv, HandlesTypeOK', NEW h \in Handles,
         \A k \in Handles \ {h} : Untouched(k),
         NewestIsSeen(h)', BaseIsSeen(h)', h \in Tasks => ToldIsSeen(h)'
  PROVE  HandlesInv'
<1>1. ASSUME NEW k \in Handles
      PROVE  NewestIsSeen(k)' /\ BaseIsSeen(k)' /\ (k \in Tasks => ToldIsSeen(k)')
  <2>1. CASE k = h
    BY <2>1
  <2>2. CASE k # h
    <3>1. Untouched(k) /\ NewestIsSeen(k) /\ BaseIsSeen(k) /\ (k \in Tasks => ToldIsSeen(k))
      BY <2>2 DEF HandlesInv
    <3> QED BY <3>1, UntouchedKeeps
  <2> QED BY <2>1, <2>2
<1> QED BY <1>1 DEF HandlesInv, Handles

\* What is known of a handle that takes a step, with its record taken apart.
LEMMA HandleFacts ==
  ASSUME HandlesInv, NEW h \in Handles
  PROVE  /\ newest \in Version /\ base[h] \in Version
         /\ known[h] \in [ver : Nat, seen : Values, view : SUBSET Fields, watch : SUBSET Fields]
         /\ Seen(h) \in Version
         /\ newest = [ver |-> newest.ver, seen |-> newest.seen]
         /\ NewestIsSeen(h) /\ BaseIsSeen(h) /\ (h \in Tasks => ToldIsSeen(h) /\ told[h] \in Values)
BY DEF HandlesInv, HandlesTypeOK, Version, Seen

\* A newer version: no handle has it yet.
LEMMA PublishKeeps == ASSUME HandlesInv, NEW v \in Values, NewVersion(v) PROVE HandlesInv'
<1>1. newest' \in Version /\ newest'.ver = newest.ver + 1 /\ newest.ver \in Nat
  BY DEF HandlesInv, HandlesTypeOK, NewVersion, Newest, Version
<1>2. HandlesTypeOK'
  BY <1>1 DEF HandlesInv, HandlesTypeOK, NewVersion, Version
<1>3. ASSUME NEW h \in Handles PROVE NewestIsSeen(h)' /\ BaseIsSeen(h)'
  <2>1. known[h].ver \in Nat /\ NewestIsSeen(h) /\ BaseIsSeen(h)
    BY HandleFacts
  <2>2. NewestIsSeen(h)'
    BY <1>1, <2>1 DEF NewestIsSeen, NewVersion
  <2>3. BaseIsSeen(h)'
    BY <2>1 DEF BaseIsSeen, NewVersion, Seen, Same, Project
  <2> QED BY <2>2, <2>3
<1>4. \A g \in Tasks : ToldIsSeen(g)'
  BY DEF HandlesInv, ToldIsSeen, NewVersion, Same, Project
<1> QED BY <1>2, <1>3, <1>4 DEF HandlesInv

\* The handle returns with the newest version: its base is what it has seen.
LEMMA ReturnFacts ==
  ASSUME HandlesInv, NEW h \in Handles, Return(h), newest' = newest
  PROVE  /\ known' \in [Handles -> [ver : Nat, seen : Values, view : SUBSET Fields, watch : SUBSET Fields]]
         /\ base' \in [Handles -> Version]
         /\ \A k \in Handles \ {h} : known'[k] = known[k] /\ base'[k] = base[k]
         /\ known'[h].seen = newest.seen /\ known'[h].ver = newest.ver
         /\ known'[h].view = known[h].view /\ known'[h].watch = known[h].watch
         /\ base'[h] = Seen(h)' /\ NewestIsSeen(h)'
<1>1. known' = [known EXCEPT ![h] = Observed(h)] /\ base' = [base EXCEPT ![h] = newest]
  BY DEF Return, Observe
<1>2. Observed(h) \in [ver : Nat, seen : Values, view : SUBSET Fields, watch : SUBSET Fields]
      /\ Observed(h).ver = newest.ver /\ Observed(h).seen = newest.seen
      /\ Observed(h).view = known[h].view /\ Observed(h).watch = known[h].watch
  BY HandleFacts DEF Observed, Newest, Current, Version
<1>3. known'[h] = Observed(h) /\ base'[h] = newest
  BY <1>1 DEF HandlesInv, HandlesTypeOK
<1>4. Seen(h)' = newest
  BY <1>2, <1>3, HandleFacts DEF Seen
<1>5. NewestIsSeen(h)'
  BY <1>2, <1>3, HandleFacts DEF NewestIsSeen, Version
<1> QED BY <1>1, <1>2, <1>3, <1>4, <1>5 DEF HandlesInv, HandlesTypeOK

Modes == {"none", "idle", "any", "by", "compare", "call", "ended"}

\* A new state of one handle keeps the type of mode and the others where they are.
LEMMA GoesFacts ==
  ASSUME HandlesInv, NEW h \in Handles, NEW m \in Modes, Goes(h, m)
  PROVE  mode' \in [Handles -> Modes] /\ mode'[h] = m /\ \A k \in Handles \ {h} : mode'[k] = mode[k]
BY DEF HandlesInv, HandlesTypeOK, Goes, Modes

\* A handle is bound to the newest version.
LEMMA BindKeeps == ASSUME HandlesInv, NEW h \in Handles, Bind(h) PROVE HandlesInv'
<1>1. Return(h) /\ newest' = newest /\ told' = told /\ h \notin Tasks /\ Goes(h, "idle")
  BY HandlesAssumption DEF Bind
<1>2. mode' \in [Handles -> Modes] /\ mode'[h] = "idle" /\ \A k \in Handles \ {h} : mode'[k] = mode[k]
  BY <1>1, GoesFacts DEF Modes
<1>3. HandlesTypeOK'
  BY <1>1, <1>2, ReturnFacts DEF HandlesInv, HandlesTypeOK, Modes
<1>4. \A k \in Handles \ {h} : Untouched(k)
  BY <1>1, <1>2, ReturnFacts DEF Untouched
<1>5. BaseIsSeen(h)' /\ NewestIsSeen(h)'
  BY <1>1, <1>2, ReturnFacts DEF BaseIsSeen
<1> QED BY <1>1, <1>3, <1>4, <1>5, LocalStep

\* The comparison: the same, and the handle has passed over a version that shows what its
\* base shows; or not, and it has a change.
LEMMA CompareKeeps == ASSUME HandlesInv, NEW h \in Handles, Compare(h) PROVE HandlesInv'
<1>1. mode[h] = "compare" /\ newest' = newest /\ told' = told
  BY DEF Compare
<1>2. CASE Same(known[h].seen, Current, known[h].watch)
  <2>1. Observe(h) /\ Goes(h, "by") /\ base' = base
    BY <1>2 DEF Compare
  <2>2. mode' \in [Handles -> Modes] /\ mode'[h] = "by" /\ \A k \in Handles \ {h} : mode'[k] = mode[k]
    BY <2>1, GoesFacts DEF Modes
  <2>3. Observed(h) \in [ver : Nat, seen : Values, view : SUBSET Fields, watch : SUBSET Fields]
        /\ Observed(h).ver = newest.ver /\ Observed(h).seen = newest.seen
        /\ Observed(h).view = known[h].view /\ Observed(h).watch = known[h].watch
    BY HandleFacts DEF Observed, Newest, Current, Version
  <2>4. known'[h] = Observed(h) /\ \A k \in Handles \ {h} : known'[k] = known[k]
    BY <2>1 DEF Observe, HandlesInv, HandlesTypeOK
  <2>5. known' \in [Handles -> [ver : Nat, seen : Values, view : SUBSET Fields, watch : SUBSET Fields]]
    BY <2>1, <2>3 DEF Observe, HandlesInv, HandlesTypeOK
  <2>6. HandlesTypeOK'
    BY <1>1, <2>1, <2>2, <2>5 DEF HandlesInv, HandlesTypeOK, Modes
  <2>7. \A k \in Handles \ {h} : Untouched(k)
    BY <1>1, <2>1, <2>2, <2>4 DEF Untouched
  <2>8. NewestIsSeen(h)'
    BY <1>1, <2>3, <2>4, HandleFacts DEF NewestIsSeen, Version
  <2>9. Same(base[h].seen, newest.seen, known[h].watch)
    BY <1>1, <1>2, HandleFacts DEF BaseIsSeen, Same, Current
  <2>10. BaseIsSeen(h)'
    BY <1>1, <2>1, <2>2, <2>3, <2>4, <2>9 DEF BaseIsSeen
  <2>11. ASSUME h \in Tasks PROVE ToldIsSeen(h)'
    <3>1. Same(told[h], newest.seen, known[h].watch)
      BY <1>1, <1>2, <2>11, HandleFacts DEF ToldIsSeen, Same, Current
    <3> QED BY <1>1, <2>2, <2>3, <2>4, <3>1 DEF ToldIsSeen
  <2> QED BY <2>6, <2>7, <2>8, <2>10, <2>11, LocalStep
<1>3. CASE ~ Same(known[h].seen, Current, known[h].watch)
  <2>1. Return(h) /\ Goes(h, Hit(h)) /\ Hit(h) \in Modes
    BY <1>3 DEF Compare, Hit, Modes
  <2>2. mode' \in [Handles -> Modes] /\ mode'[h] = Hit(h) /\ \A k \in Handles \ {h} : mode'[k] = mode[k]
    BY <2>1, GoesFacts
  <2>3. HandlesTypeOK'
    BY <1>1, <2>1, <2>2, ReturnFacts DEF HandlesInv, HandlesTypeOK, Modes
  <2>4. \A k \in Handles \ {h} : Untouched(k)
    BY <1>1, <2>1, <2>2, ReturnFacts DEF Untouched
  <2>5. BaseIsSeen(h)' /\ NewestIsSeen(h)'
    BY <1>1, <2>1, <2>2, ReturnFacts DEF BaseIsSeen, Hit
  <2>6. ASSUME h \in Tasks PROVE ToldIsSeen(h)'
    <3>1. ~ Same(told[h], newest.seen, known[h].watch)
      BY <1>1, <1>3, <2>6, HandleFacts DEF ToldIsSeen, Same, Current
    <3>2. mode'[h] = "call"
      BY <2>2, <2>6 DEF Hit
    <3>3. known'[h].seen = newest.seen /\ known'[h].watch = known[h].watch
      BY <1>1, <2>1, ReturnFacts
    <3> QED BY <1>1, <3>1, <3>2, <3>3 DEF ToldIsSeen
  <2> QED BY <2>3, <2>4, <2>5, <2>6, LocalStep
<1> QED BY <1>2, <1>3

\* A version is there: whoever waits for any change returns with it, whoever waits for
\* fields goes to compare.
LEMMA WakeKeeps == ASSUME HandlesInv, NEW h \in Handles, Wake(h) PROVE HandlesInv'
<1>1. newest' = newest /\ told' = told
  BY DEF Wake
<1>2. CASE mode[h] = "any" /\ Return(h) /\ Goes(h, Hit(h))
  <2>1. mode' \in [Handles -> Modes] /\ mode'[h] = Hit(h) /\ \A k \in Handles \ {h} : mode'[k] = mode[k]
    BY <1>2, GoesFacts DEF Hit, Modes
  <2>2. HandlesTypeOK'
    BY <1>1, <1>2, <2>1, ReturnFacts DEF HandlesInv, HandlesTypeOK, Modes
  <2>3. \A k \in Handles \ {h} : Untouched(k)
    BY <1>1, <1>2, <2>1, ReturnFacts DEF Untouched
  <2>4. BaseIsSeen(h)' /\ NewestIsSeen(h)'
    BY <1>1, <1>2, <2>1, ReturnFacts DEF BaseIsSeen, Hit
  <2>5. ASSUME h \in Tasks PROVE ToldIsSeen(h)'
    <3>1. Kind(known[h].view) = "any" /\ known'[h].view = known[h].view /\ mode'[h] = "call"
      BY <1>1, <1>2, <2>1, <2>5, HandleFacts, ReturnFacts DEF ToldIsSeen, Hit
    <3> QED BY <3>1 DEF ToldIsSeen
  <2> QED BY <2>2, <2>3, <2>4, <2>5, LocalStep
<1>3. CASE mode[h] = "by" /\ Goes(h, "compare") /\ UNCHANGED <<known, base>>
  <2>1. mode' \in [Handles -> Modes] /\ mode'[h] = "compare" /\ \A k \in Handles \ {h} : mode'[k] = mode[k]
    BY <1>3, GoesFacts DEF Modes
  <2>2. HandlesTypeOK'
    BY <1>1, <1>3, <2>1 DEF HandlesInv, HandlesTypeOK, Modes
  <2>3. \A k \in Handles \ {h} : Untouched(k)
    BY <1>1, <1>3, <2>1 DEF Untouched
  <2>4. BaseIsSeen(h)' /\ NewestIsSeen(h)'
    BY <1>1, <1>3, <2>1, HandleFacts DEF BaseIsSeen, NewestIsSeen
  <2>5. ASSUME h \in Tasks PROVE ToldIsSeen(h)'
    BY <1>1, <1>3, <2>1, <2>5, HandleFacts DEF ToldIsSeen
  <2> QED BY <2>2, <2>3, <2>4, <2>5, LocalStep
<1> QED BY <1>2, <1>3 DEF Wake

\* An idle handle of the user changes what it has in view or what it waits for.
LEMMA LookElsewhereKeeps ==
  ASSUME HandlesInv, NEW h \in Users, mode[h] = "idle",
         NEW v \in SUBSET Fields, NEW w \in SUBSET Fields,
         known' = [known EXCEPT ![h] = [known[h] EXCEPT !.view = v, !.watch = w]],
         NEW m \in {"idle", "any", "compare"}, Goes(h, m), UNCHANGED <<newest, base, told>>
  PROVE  HandlesInv'
<1> DEFINE r == [known[h] EXCEPT !.view = v, !.watch = w]
<1>1. h \in Handles /\ h \notin Tasks /\ m \in Modes
  BY HandlesAssumption DEF Handles, Modes
<1>2. mode' \in [Handles -> Modes] /\ mode'[h] = m /\ \A k \in Handles \ {h} : mode'[k] = mode[k]
  BY <1>1, GoesFacts
<1>3. r \in [ver : Nat, seen : Values, view : SUBSET Fields, watch : SUBSET Fields]
      /\ r.ver = known[h].ver /\ r.seen = known[h].seen
  BY <1>1, HandleFacts
<1>4. known'[h] = r /\ \A k \in Handles \ {h} : known'[k] = known[k]
  BY <1>1 DEF HandlesInv, HandlesTypeOK
<1>5. known' \in [Handles -> [ver : Nat, seen : Values, view : SUBSET Fields, watch : SUBSET Fields]]
  BY <1>3 DEF HandlesInv, HandlesTypeOK
<1> HIDE DEF r
<1>6. HandlesTypeOK'
  BY <1>2, <1>5 DEF HandlesInv, HandlesTypeOK, Modes
<1>7. \A k \in Handles \ {h} : Untouched(k)
  BY <1>2, <1>4 DEF Untouched
<1>8. NewestIsSeen(h)'
  BY <1>1, <1>3, <1>4, HandleFacts DEF NewestIsSeen
<1>9. BaseIsSeen(h)'
  <2>1. Seen(h)' = Seen(h) /\ base[h] = Seen(h)
    BY <1>1, <1>3, <1>4, HandleFacts DEF Seen, BaseIsSeen
  <2>2. base'[h].seen = known'[h].seen
    BY <1>3, <1>4, <2>1 DEF Seen
  <2> QED BY <1>2, <2>1, <2>2 DEF BaseIsSeen, Same
<1> QED BY <1>1, <1>6, <1>7, <1>8, <1>9, LocalStep

\* view and fields.
LEMMA ViewKeeps ==
  ASSUME HandlesInv, NEW h \in Users, NEW fields \in SUBSET Fields, View(h, fields)
  PROVE  HandlesInv'
<1>1. mode[h] = "idle" /\ UNCHANGED <<newest, base, told>>
      /\ known' = [known EXCEPT ![h] = [known[h] EXCEPT !.view = fields, !.watch = fields]]
  BY DEF View, Taken
<1>2. Goes(h, "idle")
  BY <1>1 DEF View, Goes, HandlesInv, HandlesTypeOK, Handles
<1> QED BY <1>1, <1>2, LookElsewhereKeeps

\* changed waits from what was observed last.
LEMMA ChangedKeeps == ASSUME HandlesInv, NEW h \in Handles, Changed(h) PROVE HandlesInv'
<1>1. mode[h] = "idle" /\ UNCHANGED <<newest, base, told>> /\ Goes(h, "any") /\ h \in Users
      /\ known' = [known EXCEPT ![h].watch = known[h].view]
  BY DEF Changed
<1>2. known[h].view \in SUBSET Fields
      /\ [known[h] EXCEPT !.watch = known[h].view]
         = [known[h] EXCEPT !.view = known[h].view, !.watch = known[h].view]
  BY HandleFacts
<1>3. known' = [known EXCEPT ![h] =
                   [known[h] EXCEPT !.view = known[h].view, !.watch = known[h].view]]
  BY <1>1, <1>2
<1> QED BY <1>1, <1>2, <1>3, LookElsewhereKeeps

\* changed_by compares first, from what was observed last.
LEMMA ChangedByKeeps ==
  ASSUME HandlesInv, NEW h \in Users, NEW fields \in SUBSET Fields, ChangedBy(h, fields)
  PROVE  HandlesInv'
<1>1. mode[h] = "idle" /\ UNCHANGED <<newest, base, told>> /\ Goes(h, "compare") /\ h \in Handles
      /\ known' = [known EXCEPT ![h].watch = fields]
  BY DEF ChangedBy, Handles
<1>2. known[h].view \in SUBSET Fields
      /\ [known[h] EXCEPT !.watch = fields]
         = [known[h] EXCEPT !.view = known[h].view, !.watch = fields]
  BY <1>1, HandleFacts
<1>3. known' = [known EXCEPT ![h] =
                   [known[h] EXCEPT !.view = known[h].view, !.watch = fields]]
  BY <1>1, <1>2
<1> QED BY <1>1, <1>2, <1>3, LookElsewhereKeeps

\* The task goes on from what the handle it is spawned from has observed.
LEMMA SpawnKeeps ==
  ASSUME HandlesInv, NEW h \in Users, NEW g \in Handles, NEW fields \in SUBSET Fields,
         SpawnTask(h, g, fields)
  PROVE  HandlesInv'
<1> DEFINE r == [known[h] EXCEPT !.view = fields, !.watch = fields]
<1>1. /\ mode[h] = "idle" /\ g \in Tasks /\ newest' = newest /\ h \in Handles
      /\ known' = [known EXCEPT ![g] = r] /\ base' = [base EXCEPT ![g] = base[h]]
      /\ told' = [told EXCEPT ![g] = known[h].seen] /\ Goes(g, Loop(fields))
      /\ Loop(fields) \in Modes
  BY DEF SpawnTask, Taken, Handles, Loop, Modes
<1>2. /\ mode' \in [Handles -> Modes] /\ mode'[g] = Loop(fields)
      /\ \A k \in Handles \ {g} : mode'[k] = mode[k]
  BY <1>1, GoesFacts
<1>3. r \in [ver : Nat, seen : Values, view : SUBSET Fields, watch : SUBSET Fields]
      /\ r.ver = known[h].ver /\ r.seen = known[h].seen /\ r.view = fields /\ r.watch = fields
      /\ known[h].seen \in Values
  BY <1>1, HandleFacts
<1> HIDE DEF r
<1>4. known' \in [Handles -> [ver : Nat, seen : Values, view : SUBSET Fields, watch : SUBSET Fields]]
      /\ known'[g] = r /\ \A k \in Handles \ {g} : known'[k] = known[k]
  BY <1>1, <1>3 DEF HandlesInv, HandlesTypeOK
<1>5. base' \in [Handles -> Version] /\ base'[g] = base[h]
      /\ \A k \in Handles \ {g} : base'[k] = base[k]
  BY <1>1, HandleFacts DEF HandlesInv, HandlesTypeOK
<1>6. told' \in [Tasks -> Values] /\ told'[g] = known[h].seen
      /\ \A k \in Tasks \ {g} : told'[k] = told[k]
  BY <1>1, <1>3 DEF HandlesInv, HandlesTypeOK
<1>7. HandlesTypeOK'
  BY <1>1, <1>2, <1>4, <1>5, <1>6 DEF HandlesInv, HandlesTypeOK, Modes
<1>8. \A k \in Handles \ {g} : Untouched(k)
  BY <1>1, <1>2, <1>4, <1>5, <1>6 DEF Untouched
<1>9. NewestIsSeen(g)'
  BY <1>1, <1>3, <1>4, HandleFacts DEF NewestIsSeen
<1>10. base[h] = Seen(h) /\ Seen(g)' = Seen(h)
  BY <1>1, <1>3, <1>4, HandleFacts DEF BaseIsSeen, Seen
<1>11. base'[g].seen = known'[g].seen
  BY <1>3, <1>4, <1>5, <1>10 DEF Seen
<1>12. BaseIsSeen(g)'
  BY <1>2, <1>5, <1>10, <1>11 DEF BaseIsSeen, Same
<1>13. ToldIsSeen(g)'
  <2>1. mode'[g] = "any" => Kind(known'[g].view) = "any"
    BY <1>2, <1>3, <1>4 DEF Loop
  <2>2. told'[g] = known'[g].seen /\ mode'[g] # "call"
    BY <1>2, <1>3, <1>4, <1>6 DEF Loop
  <2> QED BY <2>1, <2>2 DEF ToldIsSeen, Same
<1> QED BY <1>7, <1>8, <1>9, <1>12, <1>13, LocalStep

\* The wait is over without a change: what the handle has observed is its base.
LEMMA GivesUpKeeps ==
  ASSUME HandlesInv, NEW h \in Handles, NEW m \in {"idle", "ended"}, Goes(h, m),
         UNCHANGED <<newest, known, told>>, base' = [base EXCEPT ![h] = Seen(h)]
  PROVE  HandlesInv'
<1>1. mode' \in [Handles -> Modes] /\ mode'[h] = m /\ \A k \in Handles \ {h} : mode'[k] = mode[k]
  BY GoesFacts DEF Modes
<1>2. base' \in [Handles -> Version] /\ base'[h] = Seen(h)
      /\ \A k \in Handles \ {h} : base'[k] = base[k]
  BY HandleFacts DEF HandlesInv, HandlesTypeOK
<1>3. HandlesTypeOK'
  BY <1>1, <1>2 DEF HandlesInv, HandlesTypeOK, Modes
<1>4. \A k \in Handles \ {h} : Untouched(k)
  BY <1>1, <1>2 DEF Untouched
<1>5. NewestIsSeen(h)' /\ BaseIsSeen(h)' /\ (h \in Tasks => ToldIsSeen(h)')
  BY <1>1, <1>2, HandleFacts DEF NewestIsSeen, BaseIsSeen, ToldIsSeen, Seen
<1> QED BY <1>3, <1>4, <1>5, LocalStep

\* A task that is aborted waits for nothing.
LEMMA AbortKeeps == ASSUME HandlesInv, NEW h \in Handles, Abort(h) PROVE HandlesInv'
<1>1. Goes(h, "ended") /\ UNCHANGED <<newest, known, base, told>>
  BY DEF Abort
<1>2. mode' \in [Handles -> Modes] /\ mode'[h] = "ended" /\ \A k \in Handles \ {h} : mode'[k] = mode[k]
  BY <1>1, GoesFacts DEF Modes
<1>3. HandlesTypeOK'
  BY <1>1, <1>2 DEF HandlesInv, HandlesTypeOK, Modes
<1>4. \A k \in Handles \ {h} : Untouched(k)
  BY <1>1, <1>2 DEF Untouched
<1>5. NewestIsSeen(h)' /\ BaseIsSeen(h)' /\ (h \in Tasks => ToldIsSeen(h)')
  BY <1>1, <1>2, HandleFacts DEF NewestIsSeen, BaseIsSeen, ToldIsSeen
<1> QED BY <1>3, <1>4, <1>5, LocalStep

\* The callback is told what was observed; the task goes on as it began.
LEMMA CallBackKeeps == ASSUME HandlesInv, NEW g \in Handles, CallBack(g) PROVE HandlesInv'
<1>1. /\ g \in Tasks /\ mode[g] = "call" /\ UNCHANGED <<newest, known, base>>
      /\ told' = [told EXCEPT ![g] = known[g].seen] /\ Goes(g, Loop(known[g].view))
      /\ Loop(known[g].view) \in Modes
  BY DEF CallBack, CalledWith, Loop, Modes
<1>2. /\ mode' \in [Handles -> Modes] /\ mode'[g] = Loop(known[g].view)
      /\ \A k \in Handles \ {g} : mode'[k] = mode[k]
  BY <1>1, GoesFacts
<1>3. told' \in [Tasks -> Values] /\ told'[g] = known[g].seen
      /\ \A k \in Tasks \ {g} : told'[k] = told[k]
  BY <1>1, HandleFacts DEF HandlesInv, HandlesTypeOK
<1>4. HandlesTypeOK'
  BY <1>1, <1>2, <1>3 DEF HandlesInv, HandlesTypeOK, Modes
<1>5. \A k \in Handles \ {g} : Untouched(k)
  BY <1>1, <1>2, <1>3 DEF Untouched
<1>6. NewestIsSeen(g)'
  BY <1>1, HandleFacts DEF NewestIsSeen
<1>7. base[g] = Seen(g) /\ base[g].seen = known[g].seen
  BY <1>1, HandleFacts DEF BaseIsSeen, Seen
<1>8. BaseIsSeen(g)'
  BY <1>1, <1>2, <1>7 DEF BaseIsSeen, Same, Seen, Loop
<1>9. ToldIsSeen(g)'
  BY <1>1, <1>2, <1>3 DEF ToldIsSeen, Same, Loop
<1> QED BY <1>4, <1>5, <1>6, <1>8, <1>9, LocalStep
-----------------------------------------------------------------------------
\* Every step of a handle, of a task and of the channel keeps the invariant.
LEMMA NextHandlesInv == HandlesInv /\ [HandlesNext]_handlesVars => HandlesInv'
<1> SUFFICES ASSUME HandlesInv, [HandlesNext]_handlesVars PROVE HandlesInv'
  OBVIOUS
<1>1. ASSUME UNCHANGED <<newest, known, mode, base, told>> PROVE HandlesInv'
  BY <1>1 DEF HandlesInv, HandlesTypeOK, NewestIsSeen, BaseIsSeen, ToldIsSeen, Seen
<1>2. CASE DropSender
  BY <1>1, <1>2 DEF DropSender
<1>3. CASE \E v \in Values : NewVersion(v)
  BY <1>3, PublishKeeps
<1>4. ASSUME NEW h \in Handles, Step(h) \/ Bind(h) \/ Read(h) \/ Cancel(h) \/ Abort(h)
      PROVE  HandlesInv'
  <2>1. CASE Compare(h)
    BY <2>1, CompareKeeps
  <2>2. CASE Wake(h)
    BY <2>2, WakeKeeps
  <2>3. CASE Closed(h)
    <3> DEFINE m == IF h \in Tasks THEN "ended" ELSE "idle"
    <3>1. m \in {"idle", "ended"} /\ Goes(h, m) /\ base' = [base EXCEPT ![h] = Seen(h)]
          /\ UNCHANGED <<newest, known, told>>
      BY <2>3 DEF Closed
    <3> QED BY <3>1, GivesUpKeeps
  <2>4. CASE CallBack(h)
    BY <2>4, CallBackKeeps
  <2>5. CASE Bind(h)
    BY <2>5, BindKeeps
  <2>6. CASE Read(h)
    BY <1>1, <2>6 DEF Read, Get
  <2>7. CASE Cancel(h)
    <3>1. Goes(h, "idle") /\ base' = [base EXCEPT ![h] = Seen(h)] /\ UNCHANGED <<newest, known, told>>
      BY <2>7 DEF Cancel
    <3> QED BY <3>1, GivesUpKeeps
  <2>8. CASE Abort(h)
    BY <2>8, AbortKeeps
  <2> QED BY <1>4, <2>1, <2>2, <2>3, <2>4, <2>5, <2>6, <2>7, <2>8 DEF Step
<1>5. CASE \E h \in Handles : Changed(h)
  BY <1>5, ChangedKeeps
<1>6. ASSUME NEW h \in Users, NEW g \in Handles, NEW fields \in (SUBSET Fields) \ {{}},
             ChangedBy(h, fields) \/ View(h, fields) \/ SpawnTask(h, g, fields)
      PROVE  HandlesInv'
  BY <1>6, ChangedByKeeps, ViewKeeps, SpawnKeeps
<1>7. CASE UNCHANGED handlesVars
  BY <1>1, <1>7 DEF handlesVars
<1> QED BY <1>2, <1>3, <1>4, <1>5, <1>6, <1>7 DEF HandlesNext

\* What is proved of every state a Spec behaviour reaches.
LEMMA HandlesInvHolds == HandlesSpec => []HandlesInv
BY InitHandlesInv, NextHandlesInv, PTL DEF HandlesSpec

\* Nobody sleeps through a change: whoever waits, and has no version left to look at, has
\* seen in its fields, or was told, what the newest version shows.
THEOREM NothingMissedCorrect == HandlesSpec => []NothingMissed
<1>1. HandlesInv => NothingMissed
  <2> SUFFICES ASSUME HandlesInv PROVE NothingMissed
    OBVIOUS
  <2>1. ASSUME NEW h \in Handles, mode[h] \in {"any", "by"}, ~ Wakes(h)
        PROVE  /\ known[h].ver = newest.ver /\ known[h].seen = newest.seen
               /\ Shows(h, Current) = Shows(h, base[h].seen)
               /\ mode[h] = "any" => base[h].ver = Newest
               /\ h \in Tasks => Shows(h, told[h]) = Shows(h, Current)
    <3>1. known[h].ver = newest.ver /\ known[h].seen = newest.seen
      BY <2>1, HandleFacts DEF Wakes, Newest, NewestIsSeen, Version
    <3>2. Same(base[h].seen, known[h].seen, known[h].watch)
          /\ (mode[h] = "any" => base[h].ver = known[h].ver)
      <4>1. CASE mode[h] = "any"
        <5>1. base[h] = [ver |-> known[h].ver, seen |-> known[h].seen]
          BY <4>1, HandleFacts DEF BaseIsSeen, Seen
        <5>2. base[h].ver = known[h].ver /\ base[h].seen = known[h].seen
          BY <5>1
        <5> QED BY <5>2 DEF Same
      <4>2. CASE mode[h] = "by"
        BY <4>2, HandleFacts DEF BaseIsSeen
      <4> QED BY <2>1, <4>1, <4>2
    <3>3. h \in Tasks => Same(told[h], known[h].seen, known[h].watch)
      BY <2>1, HandleFacts DEF ToldIsSeen
    <3> QED BY <3>1, <3>2, <3>3 DEF Same, Shows, Current, Newest
  <2>2. NoChangeMissed
    BY <2>1 DEF NoChangeMissed
  <2>3. CallbacksCatchUp
    BY <2>1 DEF CallbacksCatchUp, Handles
  <2> QED BY <2>2, <2>3 DEF NothingMissed
<1> QED BY <1>1, HandlesInvHolds, PTL

\* A callback for some fields is only called with a change of them.
THEOREM CallbacksChangeCorrect == HandlesSpec => CallbacksChange
<1> DEFINE Changes ==
      \A g \in Tasks : mode[g] = "call" /\ mode'[g] # "call" /\ Kind(known[g].view) = "by" =>
        Shows(g, told'[g]) # Shows(g, told[g])
<1>1. ASSUME HandlesInv, [HandlesNext]_handlesVars PROVE Changes
  <2> SUFFICES ASSUME NEW g \in Tasks, mode[g] = "call", mode'[g] # "call",
                      Kind(known[g].view) = "by"
               PROVE  Shows(g, told'[g]) # Shows(g, told[g])
    OBVIOUS
  <2>1. g \in Handles /\ g \notin Users /\ mode \in [Handles -> Modes]
    BY <1>1, HandlesAssumption DEF Handles, HandlesInv, HandlesTypeOK, Modes
  <2>2. mode' # mode /\ ~ UNCHANGED handlesVars
    BY DEF handlesVars
  <2>3. ASSUME NEW h \in Handles, NEW m, Goes(h, m) PROVE h = g
    BY <2>1, <2>3 DEF Goes
  <2>4. CallBack(g)
    <3>1. ASSUME NEW h \in Handles, Step(h) \/ Bind(h) \/ Read(h) \/ Cancel(h) \/ Abort(h)
          PROVE  h = g /\ CallBack(h)
      <4>1. CASE CallBack(h)
        BY <2>3, <4>1 DEF CallBack
      <4>2. CASE Compare(h)
        BY <2>3, <4>2 DEF Compare
      <4>3. CASE Wake(h)
        BY <2>3, <4>3 DEF Wake
      <4>4. CASE Closed(h)
        BY <2>3, <4>4 DEF Closed
      <4>5. CASE Bind(h)
        BY <2>3, <4>5 DEF Bind
      <4>6. CASE Read(h)
        BY <2>2, <4>6 DEF Read
      <4>7. CASE Cancel(h)
        BY <2>3, <4>7 DEF Cancel
      <4>8. CASE Abort(h)
        BY <2>3, <4>8 DEF Abort
      <4> QED BY <3>1, <4>1, <4>2, <4>3, <4>4, <4>5, <4>6, <4>7, <4>8 DEF Step
    <3>2. ASSUME NEW h \in Handles, Changed(h) PROVE FALSE
      BY <2>3, <2>1, <3>2 DEF Changed
    <3>3. ASSUME NEW h \in Users, NEW k \in Handles, NEW fields \in SUBSET Fields,
                 ChangedBy(h, fields) \/ View(h, fields) \/ SpawnTask(h, k, fields)
          PROVE  FALSE
      <4>1. CASE ChangedBy(h, fields)
        BY <2>1, <2>3, <4>1 DEF ChangedBy, Handles
      <4>2. CASE View(h, fields)
        BY <2>2, <4>2 DEF View
      <4>3. CASE SpawnTask(h, k, fields)
        BY <2>3, <4>3 DEF SpawnTask
      <4> QED BY <3>3, <4>1, <4>2, <4>3
    <3>4. ~ DropSender /\ ~ \E v \in Values : NewVersion(v)
      BY <2>2 DEF DropSender, NewVersion
    <3> QED BY <1>1, <2>2, <3>1, <3>2, <3>3, <3>4 DEF HandlesNext
  <2>5. told'[g] = known[g].seen
    BY <1>1, <2>4 DEF CallBack, CalledWith, HandlesInv, HandlesTypeOK
  <2>6. ~ Same(told[g], known[g].seen, known[g].watch)
    BY <1>1, <2>1, HandleFacts DEF ToldIsSeen
  <2> QED BY <2>5, <2>6 DEF Same, Shows
<1>2. HandlesInv /\ [HandlesNext]_handlesVars => [Changes]_handlesVars
  BY <1>1
<1> QED BY <1>2, HandlesInvHolds, PTL DEF HandlesSpec, CallbacksChange
=============================================================================

------------------------------ MODULE Registry ------------------------------
(***************************************************************************)
(* Registry::run_until_shutdown (hygiea-core/src/app/registry.rs): sort the*)
(* components, start them, call the hooks, activate the Deferred ones, run *)
(* until a signal or the exit of a background task, then close everything. *)
(*                                                                         *)
(* The actors are run() itself, the background tasks the components spawn, *)
(* and whoever sends SIGINT and SIGTERM.  Nobody but shutdown() cancels a  *)
(* component's token, so the token is cancelled from "draining" or         *)
(* "stopping" on and is no variable of its own.                            *)
(***************************************************************************)
EXTENDS StartOrder

CONSTANTS
    Signal,         \* the signals whose listener could be installed
    ShutdownDelay,  \* RegistryConfig::shutdown_delay_secs
    MaxSignals      \* bound: how often anybody sends a signal

ASSUME RegistryAssumption == ShutdownDelay \in Nat /\ MaxSignals \in Nat

VARIABLES
    phase,      \* where run() is
    result,     \* what run() is about to return
    pos,        \* iterations done of the `for idx in ..` loop in progress
    started,    \* self.started: that many components of order are started
    stage,      \* how far each component got
    task,       \* the background task each component spawned
    handle,     \* entry.handle is Some
    resources,  \* the keys present in the Resources map
    unread,     \* signals delivered and not received: listeners coalesce
    sent,       \* how many signals were sent
    left,       \* positions in order that shutdown() still has to close
    current     \* the component shutdown() is closing, 0 for none

vars == <<sortVars, phase, result, pos, started, stage, task, handle,
          resources, unread, sent, left, current>>

Phase == {"sorting", "starting", "before_activate", "activating", "on_ready",
          "running", "delay", "stopping", "returned", "killed"}

Result == {"none", "Ok", "SortFailed", "ComponentStartFailed", "HookFailed",
           "ComponentActivateFailed", "TaskExited"}

Stage == {"added", "failed", "up", "active", "draining", "stopping", "closed", "timedout"}

Ended == {"returned", "killed"}

ProvidedBy(i) == Range(reg[i].provides)

Init ==
    /\ SortInit
    /\ phase = "sorting"
    /\ result = "none"
    /\ pos = 0
    /\ started = 0
    /\ stage = [i \in Idx |-> "added"]
    /\ task = [i \in Idx |-> "none"]
    /\ handle = [i \in Idx |-> FALSE]
    /\ resources = {}
    /\ unread = {}
    /\ sent = 0
    /\ left = {}
    /\ current = 0
-----------------------------------------------------------------------------
(* Sorting.                                                                *)

Sort ==
    /\ phase = "sorting"
    /\ SortStep
    /\ UNCHANGED <<phase, result, pos, started, stage, task, handle, resources,
                   unread, sent, left, current>>

\* The components are now in start order; nothing was started before.
Sorted ==
    /\ phase = "sorting"
    /\ sort = "sorted"
    /\ phase' = "starting"
    /\ UNCHANGED <<sortVars, result, pos, started, stage, task, handle, resources,
                   unread, sent, left, current>>

SortFails ==
    /\ phase = "sorting"
    /\ sort \in SortError
    /\ phase' = "returned"
    /\ result' = "SortFailed"
    /\ UNCHANGED <<sortVars, pos, started, stage, task, handle, resources,
                   unread, sent, left, current>>
-----------------------------------------------------------------------------
(* Leaving for shutdown() with the first n components of order started.    *)

\* Mutant: the component started last is not counted.
ShutdownForgetsLast(n, res) ==
    /\ phase' = "stopping"
    /\ result' = res
    /\ left' = 1 .. (n - 1)
    /\ started' = 0

Shutdown(n, res) ==
    /\ phase' = "stopping"
    /\ result' = res
    /\ left' = 1 .. n
    /\ started' = 0

Stay == UNCHANGED <<phase, result, left, started>>
-----------------------------------------------------------------------------
(* Phase one: start_components.                                            *)

\* Mutant: one of the declared resources is enough.
SomePut(i, map) == ProvidedBy(i) # {} => ProvidedBy(i) \cap map # {}

\* The check behind startup: everything declared in provides() is in the map.
AllPut(i, map) == ProvidedBy(i) \subseteq map

\* startup (Immediate) or prepare (Deferred, which returns no task) of the
\* next component returns Ok after putting `put` into the map.  It counts as
\* started before provides is checked, so that it is closed if that fails.
StartOk ==
    /\ phase = "starting"
    /\ started < Len(order)
    /\ LET i == order[started + 1]
       IN  \E put \in SUBSET ProvidedBy(i), spawned \in BOOLEAN :
              /\ spawned => ~reg[i].deferred
              /\ stage' = [stage EXCEPT ![i] = "up"]
              /\ task' = [task EXCEPT ![i] = IF spawned THEN "running" ELSE "none"]
              /\ handle' = [handle EXCEPT ![i] = spawned]
              /\ resources' = resources \cup put
              /\ IF AllPut(i, resources')
                   THEN started' = started + 1 /\ UNCHANGED <<phase, result, left>>
                   ELSE Shutdown(started + 1, "ComponentStartFailed")
    /\ UNCHANGED <<sortVars, pos, unread, sent, current>>

\* It returns Err: its own clean-up is its business, the others are closed.
StartErr ==
    /\ phase = "starting"
    /\ started < Len(order)
    /\ LET i == order[started + 1]
       IN  \E put \in SUBSET ProvidedBy(i) :
              /\ stage' = [stage EXCEPT ![i] = "failed"]
              /\ resources' = resources \cup put
    /\ Shutdown(started, "ComponentStartFailed")
    /\ UNCHANGED <<sortVars, pos, task, handle, unread, sent, current>>

AllStarted ==
    /\ phase = "starting"
    /\ started = Len(order)
    /\ phase' = "before_activate"
    /\ UNCHANGED <<sortVars, result, pos, started, stage, task, handle, resources,
                   unread, sent, left, current>>

\* The before_activate and on_ready hooks; one that is not set counts as Ok.
HookOk ==
    /\ \/ phase = "before_activate" /\ phase' = "activating"
       \/ phase = "on_ready" /\ phase' = "running"
    /\ UNCHANGED <<sortVars, result, pos, started, stage, task, handle, resources,
                   unread, sent, left, current>>

HookErr ==
    /\ phase \in {"before_activate", "on_ready"}
    /\ Shutdown(started, "HookFailed")
    /\ UNCHANGED <<sortVars, pos, stage, task, handle, resources, unread, sent, current>>
-----------------------------------------------------------------------------
(* Phase two: activate_components.                                         *)

Activating == phase = "activating" /\ pos < Len(order)

SkipImmediate ==
    /\ Activating
    /\ ~reg[order[pos + 1]].deferred
    /\ pos' = pos + 1
    /\ Stay
    /\ UNCHANGED <<sortVars, stage, task, handle, resources, unread, sent, current>>

ActivateOk ==
    /\ Activating
    /\ LET i == order[pos + 1]
       IN  /\ reg[i].deferred
           /\ stage' = [stage EXCEPT ![i] = "active"]
           /\ \E spawned \in BOOLEAN :
                 /\ task' = [task EXCEPT ![i] = IF spawned THEN "running" ELSE "none"]
                 /\ handle' = [handle EXCEPT ![i] = spawned]
    /\ pos' = pos + 1
    /\ Stay
    /\ UNCHANGED <<sortVars, resources, unread, sent, current>>

ActivateErr ==
    /\ Activating
    /\ reg[order[pos + 1]].deferred
    /\ Shutdown(started, "ComponentActivateFailed")
    /\ UNCHANGED <<sortVars, pos, stage, task, handle, resources, unread, sent, current>>

AllActive ==
    /\ phase = "activating"
    /\ pos = Len(order)
    /\ phase' = "on_ready"
    /\ UNCHANGED <<sortVars, result, pos, started, stage, task, handle, resources,
                   unread, sent, left, current>>
-----------------------------------------------------------------------------
(* Running: select! over the next signal and any_task_exited, unbiased.    *)

ReceiveSignal ==
    /\ phase = "running"
    /\ \E s \in unread : unread' = unread \ {s}
    /\ IF ShutdownDelay = 0
         THEN Shutdown(started, "Ok")
         ELSE phase' = "delay" /\ UNCHANGED <<result, left, started>>
    /\ UNCHANGED <<sortVars, pos, stage, task, handle, resources, sent, current>>

\* The positions any_task_exited finds Ready; it takes the first one's handle.
Exited == {p \in 1 .. started : handle[order[p]] /\ task[order[p]] = "ended"}

NoticeTaskExit ==
    /\ phase = "running"
    /\ Exited # {}
    /\ handle' = [handle EXCEPT ![order[Min(Exited)]] = FALSE]
    /\ Shutdown(started, "TaskExited")
    /\ UNCHANGED <<sortVars, pos, stage, task, resources, unread, sent, current>>

\* shutdown_delay is over.  The tasks are not watched meanwhile.
DelayElapses ==
    /\ phase = "delay"
    /\ Shutdown(started, "Ok")
    /\ UNCHANGED <<sortVars, pos, stage, task, handle, resources, unread, sent, current>>
-----------------------------------------------------------------------------
(* shutdown() inside shutdown_or_force_exit.                               *)

\* Mutants: in start order; in reverse start order without regard to the kind.
FirstStarted == Min(left)
LastStarted == Max(left)

\* shutdown_order: Deferred components first, each kind last started first.
NextToClose ==
    LET deferred == {p \in left : reg[order[p]].deferred}
    IN  IF deferred # {} THEN Max(deferred) ELSE Max(left)

\* Cancel the token, take the handle, await the task if there is one.
CloseNext ==
    /\ phase = "stopping"
    /\ current = 0
    /\ left # {}
    /\ LET i == order[NextToClose]
       IN  /\ current' = i
           /\ stage' = [stage EXCEPT ![i] = IF handle[i] THEN "draining" ELSE "stopping"]
           /\ handle' = [handle EXCEPT ![i] = FALSE]
    /\ left' = left \ {NextToClose}
    /\ UNCHANGED <<sortVars, phase, result, pos, started, task, resources, unread, sent>>

\* The task is over, however it ended: call stop().
TaskDrained ==
    /\ phase = "stopping"
    /\ current # 0
    /\ stage[current] = "draining"
    /\ task[current] = "ended"
    /\ stage' = [stage EXCEPT ![current] = "stopping"]
    /\ UNCHANGED <<sortVars, phase, result, pos, started, task, handle, resources,
                   unread, sent, left, current>>

\* stop() returns; an Err is only logged.
StopReturns ==
    /\ phase = "stopping"
    /\ current # 0
    /\ stage[current] = "stopping"
    /\ stage' = [stage EXCEPT ![current] = "closed"]
    /\ current' = 0
    /\ UNCHANGED <<sortVars, phase, result, pos, started, task, handle, resources,
                   unread, sent, left>>

\* Mutant: no timer.
NoTimeout == FALSE

\* The component's own timer runs out while its task is awaited or in stop():
\* the future is dropped and the task, if there is one, aborted.
CloseTimesOut ==
    /\ phase = "stopping"
    /\ current # 0
    /\ stage' = [stage EXCEPT ![current] = "timedout"]
    /\ task' = [task EXCEPT ![current] = IF @ = "running" THEN "aborted" ELSE @]
    /\ current' = 0
    /\ UNCHANGED <<sortVars, phase, result, pos, started, handle, resources,
                   unread, sent, left>>

ShutdownDone ==
    /\ phase = "stopping"
    /\ current = 0
    /\ left = {}
    /\ phase' = "returned"
    /\ UNCHANGED <<sortVars, result, pos, started, stage, task, handle, resources,
                   unread, sent, left, current>>

\* recv() wins a select! of the delay or of shutdown(): process::exit(130).
ForceExit ==
    /\ phase \in {"delay", "stopping"}
    /\ \E s \in unread : unread' = unread \ {s}
    /\ phase' = "killed"
    /\ UNCHANGED <<sortVars, result, pos, started, stage, task, handle, resources,
                   sent, left, current>>
-----------------------------------------------------------------------------
(* The environment.                                                        *)

\* A task returns or panics, asked to by its token or not.
TaskEnds(i) ==
    /\ phase \notin Ended
    /\ task[i] = "running"
    /\ task' = [task EXCEPT ![i] = "ended"]
    /\ UNCHANGED <<sortVars, phase, result, pos, started, stage, handle, resources,
                   unread, sent, left, current>>

SignalArrives(s) ==
    /\ phase \notin Ended
    /\ sent < MaxSignals
    /\ sent' = sent + 1
    /\ unread' = unread \cup {s}
    /\ UNCHANGED <<sortVars, phase, result, pos, started, stage, task, handle,
                   resources, left, current>>
-----------------------------------------------------------------------------
Starting == Sort \/ Sorted \/ SortFails \/ StartOk \/ StartErr \/ AllStarted
                \/ HookOk \/ HookErr

Activation == SkipImmediate \/ ActivateOk \/ ActivateErr \/ AllActive

Running == ReceiveSignal \/ NoticeTaskExit \/ DelayElapses

Closing == CloseNext \/ TaskDrained \/ StopReturns \/ CloseTimesOut \/ ShutdownDone

Next ==
    \/ Starting
    \/ Activation
    \/ Running
    \/ Closing
    \/ ForceExit
    \/ \E i \in Idx : TaskEnds(i)
    \/ \E s \in Signal : SignalArrives(s)

Spec == Init /\ [][Next]_vars

\* run() is driven by the runtime: a step of it that stays possible is taken.
\* startup, prepare, activate and the hooks are assumed to return (run() sets
\* them no timeout); the delay and the shutdown timers fire.  Nothing obliges a
\* task to end, a stop() to return or a signal to come.
FairSpec == Spec /\ WF_vars(Starting) /\ WF_vars(Activation) /\ WF_vars(Running)
                 /\ WF_vars(Closing)
-----------------------------------------------------------------------------
(* Properties.                                                             *)

TypeOK ==
    /\ SortTypeOK
    /\ phase \in Phase
    /\ result \in Result
    /\ pos \in 0 .. Len(order)
    /\ started \in 0 .. Len(order)
    /\ stage \in [Idx -> Stage]
    /\ task \in [Idx -> {"none", "running", "ended", "aborted"}]
    /\ handle \in [Idx -> BOOLEAN]
    /\ resources \subseteq Resource
    /\ unread \subseteq Signal
    /\ sent \in Nat
    /\ left \subseteq 1 .. Len(order)
    /\ current \in Idx \cup {0}

\* i came up and its closing has not ended yet.
Live(i) == stage[i] \in {"up", "active", "draining", "stopping"}

\* Nobody touches what i provides any more once its closing has begun.
Gone(i) == stage[i] \in {"draining", "stopping", "closed", "timedout"}

\* A pool (any Immediate provider) stays up as long as a component that needs
\* it is up, still draining its task or still in stop(), whatever fails and
\* however shutdown was entered ("被依赖的后关").
ProvidersOutliveUsers ==
    \A i, j \in Idx : (Live(i) /\ j \in Needs(i) /\ ~reg[j].deferred) => ~Gone(j)

\* What is called finds what it declared: every resource an Immediate component
\* depends on is in the map when its startup is called, and every declared one
\* from before_activate on; and no startup meets its own key occupied, which
\* would panic in Resources::insert.
ResourcesAreThere ==
    /\ (phase = "starting" /\ started < Len(order)) =>
          LET i == order[started + 1]
          IN  /\ ~reg[i].deferred => Range(reg[i].dependsOn) \subseteq resources
              /\ ProvidedBy(i) \cap resources = {}
    /\ phase \in {"before_activate", "activating", "on_ready", "running"} =>
          \A i \in Idx : ProvidedBy(i) \cup Range(reg[i].dependsOn) \subseteq resources

\* When run() returns, nothing it started is left: every component that came up
\* went through its closing, no task still runs unless it was told to abort, and
\* no component is both unclosed and up because a check failed after its startup.
NothingLeftRunning ==
    phase = "returned" =>
        \A i \in Idx : stage[i] \in {"added", "failed", "closed", "timedout"} /\ task[i] # "running"

\* stop() of a component runs only when its background task is over: the task's
\* last writes cannot meet a pool its own component has closed.
StopAfterTask ==
    \A i \in Idx : stage[i] \in {"stopping", "closed"} => task[i] \in {"none", "ended"}

\* Closing keeps its order, between components and within each of them.
ClosedInOrder == ProvidersOutliveUsers /\ StopAfterTask

\* Once run() is told to stop, by a signal at any time or by a task that died
\* while it served, the process ends, even if that component never finishes.
SignalEndsProcess == (unread # {}) ~> (phase \in Ended)
DeadTaskEndsProcess ==
    (phase = "running" /\ \E i \in Idx : task[i] = "ended") ~> (phase \in Ended)

\* Both ways to be told to stop lead to the end of the process.
ProcessEnds == SignalEndsProcess /\ DeadTaskEndsProcess
=============================================================================

----------------------------- MODULE Lifecycle -----------------------------
(***************************************************************************)
(* What a Registry promises to the components it runs, whatever order it   *)
(* picks, whichever call fails and whoever interrupts it: a component      *)
(* comes up after what its startup reads, serves when all are up, and is   *)
(* closed after everybody who uses it; nothing comes up once closing has   *)
(* begun, and the application is over when nothing is up, or is killed.    *)
(***************************************************************************)
EXTENDS Naturals

VARIABLES
    Comp,       \* the components
    serving,    \* those with a second phase, which serve
    needs,      \* needs[i]: the components whose resources i declares
    life,       \* what became of every component
    over        \* "no", or how the application ended

lifeVars == <<Comp, serving, needs, life, over>>

Life == {"down", "up", "serving", "closing", "closed"}

\* The startup of a serving component reads nothing, so only the others have
\* to wait for their providers.
StartupReads(i) == IF i \in serving THEN {} ELSE needs[i]

\* A serving component is closed first and may be missed by those that need it.
Users(j) == IF j \in serving THEN {} ELSE {i \in Comp : j \in needs[i]}

Init ==
    /\ serving \subseteq Comp
    /\ needs \in [Comp -> SUBSET Comp]
    /\ life = [i \in Comp |-> "down"]
    /\ over = "no"

Change(i, to) ==
    /\ over = "no"
    /\ life' = [life EXCEPT ![i] = to]
    /\ UNCHANGED <<Comp, serving, needs, over>>

ComeUp(i) ==
    /\ life[i] = "down"
    /\ \A j \in Comp : life[j] \in {"down", "up"}
    /\ \A j \in StartupReads(i) : life[j] = "up"
    /\ Change(i, "up")

Serve(i) ==
    /\ i \in serving
    /\ life[i] = "up"
    /\ \A j \in Comp : life[j] \in {"up", "serving"}
    /\ Change(i, "serving")

BeginClose(i) ==
    /\ life[i] \in {"up", "serving"}
    /\ \A j \in Comp : life[j] # "closing"
    /\ \A j \in Users(i) : life[j] \in {"down", "closed"}
    /\ Change(i, "closing")

EndClose(i) == life[i] = "closing" /\ Change(i, "closed")

Finish ==
    /\ over = "no"
    /\ \A i \in Comp : life[i] \in {"down", "closed"}
    /\ over' = "finished"
    /\ UNCHANGED <<Comp, serving, needs, life>>

Kill ==
    /\ over = "no"
    /\ over' = "killed"
    /\ UNCHANGED <<Comp, serving, needs, life>>

Next ==
    \/ \E i \in Comp : ComeUp(i) \/ Serve(i) \/ BeginClose(i) \/ EndClose(i)
    \/ Finish
    \/ Kill

Spec == Init /\ [][Next]_lifeVars
=============================================================================

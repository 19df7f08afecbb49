---------------------------- MODULE LiveRegister ----------------------------
(***************************************************************************)
(* What live config promises to its readers: a bound struct always shows,  *)
(* of every namespace it uses, one committed state it can be decoded from; *)
(* it starts out no older than the bind and never goes back.               *)
(*                                                                         *)
(* The n-th committed state of a namespace is its revision n; a struct is  *)
(* known by the revisions it was merged from.                              *)
(***************************************************************************)
EXTENDS Naturals

CONSTANTS
    Namespace,      \* the namespaces of the config table
    Binding,        \* the structs a program binds
    Uses,           \* Uses[b] \subseteq Namespace: what struct b is made of
    Undecodable     \* <<b, n, r>>: struct b cannot be decoded with revision r of n

VARIABLES
    revision,       \* the committed revision of every namespace
    bound,          \* the structs handed out
    view            \* view[b]: the revisions b shows; before it is handed out,
                    \* those that were committed when it was last asked for

registerVars == <<revision, bound, view>>

Init ==
    /\ revision = [n \in Namespace |-> 0]
    /\ bound = {}
    /\ view = [b \in Binding |-> [n \in Uses[b] |-> 0]]

\* Somebody commits changes of some namespaces.
Commit ==
    /\ revision' \in [Namespace -> Nat]
    /\ \A n \in Namespace : revision'[n] >= revision[n]
    /\ UNCHANGED <<bound, view>>

Ask(b) ==
    /\ b \notin bound
    /\ view' = [view EXCEPT ![b] = [n \in Uses[b] |-> revision[n]]]
    /\ UNCHANGED <<revision, bound>>

\* b comes to show committed states that decode, none older than before.
Shows(b) ==
    \A n \in Uses[b] : /\ view'[b][n] \in view[b][n] .. revision[n]
                       /\ <<b, n, view'[b][n]>> \notin Undecodable

Publish ==
    /\ bound \subseteq bound'
    /\ \A b \in Binding : \/ view'[b] = view[b] /\ (b \in bound <=> b \in bound')
                          \/ b \in bound' /\ Shows(b)
    /\ UNCHANGED revision

Next == Commit \/ Publish \/ \E b \in Binding : Ask(b)

Spec == Init /\ [][Next]_registerVars
=============================================================================

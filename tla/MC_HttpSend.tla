---------------------------- MODULE MC_HttpSend ----------------------------
(***************************************************************************)
(* HttpSend with up to two retries and requests that can be sent, with and *)
(* without logging, or that have one problem or two.                       *)
(***************************************************************************)
EXTENDS HttpSend

MCConfig ==
    {[problems |-> {}, logging |-> b] : b \in BOOLEAN}
        \cup {[problems |-> {"InvalidHeader"}, logging |-> TRUE],
              [problems |-> {"DebugJsonError"}, logging |-> FALSE],
              [problems |-> {"JsonError", "InvalidParams"}, logging |-> TRUE]}
=============================================================================

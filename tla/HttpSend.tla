------------------------------ MODULE HttpSend ------------------------------
(***************************************************************************)
(* One call of RequestConfig::send (reqwest_client/send.rs, retry.rs): the *)
(* checks before anything is sent, the attempts, what is logged of each,   *)
(* and the retry policy that is asked about those that failed.             *)
(*                                                                         *)
(* The client never knows more than what it has read: a request that timed *)
(* out may be handled later, or never.  Redirects followed by reqwest and  *)
(* its own retries, of requests the server said it did not handle, belong  *)
(* to the attempt.                                                         *)
(***************************************************************************)
EXTENDS Integers, Sequences

CONSTANTS
    MaxRetries,     \* bound: RetryCtx::max_retries
    Config          \* RequestConfigs: [problems: what is wrong, logging: enable_logging]

\* What may be wrong, in the order in which dispatch looks.  DebugJsonError: the parts that
\* only the debug log shows cannot be serialised.
Problems == <<"InvalidUrl", "JsonError", "DebugJsonError", "InvalidParams", "InvalidHeader",
              "RequestBuildFailed">>
Problem == {Problems[i] : i \in DOMAIN Problems}
\* FailStage
Stage == {"Transport", "Status", "Decode"}

ASSUME HttpSendAssumption ==
    /\ MaxRetries \in Nat
    /\ Config \subseteq [problems : SUBSET Problem, logging : BOOLEAN]

VARIABLES
    sender,         \* once, retry, or once with BodyStream as the decoder: stream
    allowed,        \* RetryCtx::max_retries
    careful,        \* the policy stops when it cannot know what the server did
    timeout,        \* a timeout is configured
    debug,          \* the switch of the client, shared by all its clones
    cfg,            \* the RequestConfig of the attempt
    pc,             \* the await the call is at
    attempt,
    style,          \* how each attempt logs: debug, normal or quiet; none before it is sent
    log,            \* the records of each attempt
    fate,           \* what the network and the server made of each attempt
    answered,       \* the attempts whose response was read to its end
    failure,        \* the stage at which the attempt failed, or none
    result          \* what send returned, or none

choiceVars == <<sender, allowed, careful, timeout>>
netVars == <<fate, answered>>
vars == <<choiceVars, debug, cfg, pc, attempt, style, log, netVars, failure, result>>

Attempt == 1 .. MaxRetries + 1
Awaits == {"awaiting", "reading", "readingError", "judging"}
Ended == {"returned", "dropped"}

Init ==
    /\ sender \in {"once", "retry", "stream"}
    /\ allowed \in IF sender = "retry" THEN 0 .. MaxRetries ELSE {0}
    /\ careful \in IF sender = "retry" THEN BOOLEAN ELSE {TRUE}
    /\ timeout \in BOOLEAN
    /\ debug \in BOOLEAN
    /\ cfg \in Config
    /\ pc = "checking"
    /\ attempt = 1
    /\ style = [a \in Attempt |-> "none"]
    /\ log = [a \in Attempt |-> <<>>]
    /\ fate = [a \in Attempt |-> "unsent"]
    /\ answered = {}
    /\ failure = "none"
    /\ result = "none"

Return(what) ==
    /\ pc' = "returned"
    /\ result' = what

Form(s) == IF s = "debug" THEN "debug" ELSE "normal"

\* Mutant: whether it is a debug record is asked again for every record.
RecordNow(s, what) ==
    log' = [log EXCEPT ![attempt] = Append(@, <<IF debug THEN "debug" ELSE "normal", what>>)]

\* A record of this attempt, in the form decided on before it was sent.
Record(s, what) == log' = [log EXCEPT ![attempt] = Append(@, <<Form(s), what>>)]
-----------------------------------------------------------------------------
(* Before anything is sent.                                                *)

Found == {p \in cfg.problems : p = "DebugJsonError" => debug}

\* The first problem is returned, whichever attempt it is; nothing is logged.
Refuse ==
    /\ pc = "checking"
    /\ \E i \in DOMAIN Problems :
          /\ Problems[i] \in Found
          /\ \A j \in 1 .. i - 1 : Problems[j] \notin Found
          /\ Return(Problems[i])
    /\ UNCHANGED <<choiceVars, debug, cfg, attempt, style, log, netVars, failure>>

\* The switch is read once, the request built, its start logged, and off it goes.
Send ==
    /\ pc = "checking"
    /\ Found = {}
    /\ style' = [style EXCEPT ![attempt] =
                    IF debug THEN "debug" ELSE IF cfg.logging THEN "normal" ELSE "quiet"]
    /\ IF style'[attempt] = "quiet" THEN UNCHANGED log ELSE Record(style'[attempt], "start")
    /\ fate' = [fate EXCEPT ![attempt] = "travelling"]
    /\ failure' = "none"
    /\ pc' = "awaiting"
    /\ UNCHANGED <<choiceVars, debug, cfg, attempt, answered, result>>
-----------------------------------------------------------------------------
(* The network and the server, also for attempts the client gave up.       *)

Handle(a) ==
    /\ fate[a] = "travelling"
    /\ fate' = [fate EXCEPT ![a] = "handled"]
    /\ UNCHANGED <<choiceVars, debug, cfg, pc, attempt, style, log, answered, failure, result>>

Lose(a) ==
    /\ fate[a] = "travelling"
    /\ fate' = [fate EXCEPT ![a] = "lost"]
    /\ UNCHANGED <<choiceVars, debug, cfg, pc, attempt, style, log, answered, failure, result>>
-----------------------------------------------------------------------------
(* The response.                                                           *)

\* Mutant: one attempt more than the policy was asked about.
FailAsksLast(stage) ==
    /\ Record(style[attempt], "failed")
    /\ failure' = stage
    /\ IF sender = "retry" /\ attempt <= allowed + 1
         THEN pc' = "judging" /\ UNCHANGED result
         ELSE Return(stage)
    /\ UNCHANGED <<choiceVars, debug, cfg, attempt, style, fate>>

\* A failure is logged, always.  Then the policy is asked, if a retry is left.
Fail(stage) ==
    /\ Record(style[attempt], "failed")
    /\ failure' = stage
    /\ IF sender = "retry" /\ attempt <= allowed
         THEN pc' = "judging" /\ UNCHANGED result
         ELSE Return(stage)
    /\ UNCHANGED <<choiceVars, debug, cfg, attempt, style, fate>>

\* It is logged unless that is switched off, and the response returned.  If the decoder
\* cannot preview the response for the log, that error is returned instead, without asking.
Succeed ==
    /\ \/ /\ IF style[attempt] = "quiet" THEN UNCHANGED log ELSE Record(style[attempt], "success")
          /\ Return("Ok")
       \/ /\ style[attempt] = "normal"
          /\ sender # "stream"
          /\ UNCHANGED log
          /\ Return("PreviewFailed")
    /\ UNCHANGED <<choiceVars, debug, cfg, attempt, style, fate, failure>>

\* Headers of the attempt, 2xx or not.  A stream is handed over unread.
Headers ==
    /\ pc = "awaiting"
    /\ fate[attempt] = "handled"
    /\ UNCHANGED answered
    /\ \/ /\ pc' \in {"readingError"} \cup IF sender = "stream" THEN {} ELSE {"reading"}
          /\ UNCHANGED <<choiceVars, debug, cfg, attempt, style, log, fate, failure, result>>
       \/ sender = "stream" /\ Succeed

ReadBody ==
    /\ pc = "reading"
    /\ answered' = answered \cup {attempt}
    /\ Succeed \/ Fail("Decode")

ReadErrorBody ==
    /\ pc = "readingError"
    /\ answered' = answered \cup {attempt}
    /\ Fail("Status")

\* Mutant: an error whose body breaks off is reported by its status.
BreaksByStatus ==
    /\ pc \in {"awaiting", "reading", "readingError"}
    /\ UNCHANGED answered
    /\ Fail(IF pc = "readingError" THEN "Status" ELSE "Transport")

\* Mutant: the time limit is over with the headers.
BreaksAwaiting ==
    /\ pc = "awaiting"
    /\ UNCHANGED answered
    /\ Fail("Transport")

\* No connection, no answer in time, or it breaks off in the middle of a body.
Breaks ==
    /\ pc \in {"awaiting", "reading", "readingError"}
    /\ UNCHANGED answered
    /\ Fail("Transport")
-----------------------------------------------------------------------------
(* The policy.  It takes as long as it likes to return.                    *)

Retry ==
    /\ pc = "judging"
    /\ ~(careful /\ failure = "Transport")
    /\ attempt' = attempt + 1
    /\ cfg' \in Config
    /\ pc' = "checking"
    /\ UNCHANGED <<choiceVars, debug, style, log, netVars, failure, result>>

Stop ==
    /\ pc = "judging"
    /\ Return("Stopped")
    /\ UNCHANGED <<choiceVars, debug, cfg, attempt, style, log, netVars, failure>>
-----------------------------------------------------------------------------
\* The caller drops the future.  What was sent stays sent.
Drop ==
    /\ pc \in Awaits
    /\ pc' = "dropped"
    /\ UNCHANGED <<choiceVars, debug, cfg, attempt, style, log, netVars, failure, result>>

\* Somebody turns the client's debug log on or off.
SetDebug ==
    /\ debug' = ~debug
    /\ UNCHANGED <<choiceVars, cfg, pc, attempt, style, log, netVars, failure, result>>

Next ==
    \/ Refuse
    \/ Send
    \/ \E a \in Attempt : Handle(a) \/ Lose(a)
    \/ Headers
    \/ ReadBody
    \/ ReadErrorBody
    \/ Breaks
    \/ Retry
    \/ Stop
    \/ Drop
    \/ SetDebug

Spec == Init /\ [][Next]_vars

\* The call is polled and the policy returns.  The network need not do anything, but
\* a timeout, if there is one, is over some time.
FairSpec ==
    /\ Spec
    /\ WF_vars(Refuse \/ Send)
    /\ WF_vars(Retry \/ Stop)
    /\ WF_vars(timeout /\ Breaks)
-----------------------------------------------------------------------------
(* Properties.                                                             *)

\* The types of the state, part of NoBlindRepeat.
TypeOK ==
    /\ sender \in {"once", "retry", "stream"}
    /\ allowed \in 0 .. MaxRetries
    /\ careful \in BOOLEAN /\ timeout \in BOOLEAN /\ debug \in BOOLEAN
    /\ cfg \in Config
    /\ pc \in {"checking"} \cup Awaits \cup Ended
    /\ attempt \in Attempt
    /\ style \in [Attempt -> {"debug", "normal", "quiet", "none"}]
    /\ log \in [Attempt -> Seq({"debug", "normal"} \X {"start", "success", "failed"})]
    /\ fate \in [Attempt -> {"unsent", "travelling", "handled", "lost"}]
    /\ answered \subseteq Attempt
    /\ failure \in Stage \cup {"none"}
    /\ result \in Stage \cup Problem \cup {"none", "Ok", "PreviewFailed", "Stopped"}

\* With a policy that stops at Transport, as retry.rs tells those who send what must not be
\* done twice, every attempt but the last was answered in full: nothing is sent again
\* while something sent before is under way or was handled without the caller knowing.
NoBlindRepeat ==
    /\ TypeOK
    /\ careful => \A a \in 1 .. attempt - 1 : a \in answered /\ fate[a] = "handled"

\* There are at most 1 + max_retries attempts, and a failure is only returned as it is
\* when they are used up; it is that of the last attempt.
RetriesUsed ==
    /\ attempt <= allowed + 1
    /\ result \in Stage => attempt = allowed + 1 /\ result = failure
    /\ result = "Stopped" => attempt <= allowed

Failed(a) == a < attempt \/ (a = attempt /\ failure # "none" /\ fate[a] # "unsent")

\* Every attempt that was sent has a start and, when it is over, one end that tells whether
\* it failed, both in one form whoever turns the debug log on or off meanwhile.  Only
\* what went well may be kept quiet; what was never sent has no record.
RecordsTell ==
    \A a \in Attempt :
        LET start == IF style[a] \in {"none", "quiet"} THEN <<>> ELSE <<<<Form(style[a]), "start">>>>
            end == IF fate[a] = "unsent" THEN <<>>
                   ELSE IF Failed(a) THEN <<<<Form(style[a]), "failed">>>>
                   ELSE IF result = "Ok" /\ style[a] # "quiet" THEN <<<<Form(style[a]), "success">>>>
                   ELSE <<>>
        IN log[a] = start \o end

\* With a timeout every send ends, whatever the server does, if the policy returns.
SendEnds == timeout => <>(pc \in Ended)
=============================================================================

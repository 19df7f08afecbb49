----------------------------- MODULE HttpProofs -----------------------------
(***************************************************************************)
(* Proofs about HttpSend, for any number of retries and any requests, and  *)
(* about HttpMock, for any cassette, files and requests: which route       *)
(* answers, that no error is overlooked, and that no update is lost.       *)
(***************************************************************************)
EXTENDS HttpSend, HttpMock, SequenceTheorems, FunctionTheorems, FiniteSetTheorems, WellFoundedInduction, TLAPS

-----------------------------------------------------------------------------
(* The client.                                                             *)

\* What was read to its end was handled, and it was read before the next attempt began.
AnsweredBehind ==
    \A a \in answered :
        /\ fate[a] = "handled"
        /\ a <= attempt
        /\ pc = "checking" => a < attempt

\* A body is read only of a response to a request that was handled.
ReadingHandled == pc \in {"reading", "readingError"} => fate[attempt] = "handled"

\* The policy is asked while a retry is left.  Unless the stage is Transport, it was
\* an answer that failed.
JudgingAnswered ==
    pc = "judging" =>
        /\ sender = "retry"
        /\ attempt <= allowed
        /\ failure # "Transport" => attempt \in answered

\* Only a call that has returned has a result.
ResultIsLast == result # "none" => pc = "returned"

\* Without a policy there are no retries.
OnceIsOnce == sender # "retry" => allowed = 0

\* The inductive invariant.
HInv ==
    /\ NoBlindRepeat
    /\ RetriesUsed
    /\ AnsweredBehind
    /\ ReadingHandled
    /\ JudgingAnswered
    /\ ResultIsLast
    /\ OnceIsOnce

\* At first nothing is sent.
LEMMA InitHInv == Init => HInv
<1> SUFFICES ASSUME Init PROVE HInv
  OBVIOUS
<1> USE HttpSendAssumption DEF HttpSendAssumption
<1>1. TypeOK
  <2>1. allowed \in 0 .. MaxRetries /\ careful \in BOOLEAN
    <3>1. CASE sender = "retry"
      BY <3>1 DEF Init
    <3>2. CASE sender # "retry"
      <4>1. allowed = 0 /\ careful = TRUE
        BY <3>2 DEF Init
      <4>2. 0 \in 0 .. MaxRetries
        OBVIOUS
      <4> QED BY <4>1, <4>2
    <3> QED BY <3>1, <3>2
  <2>2. 1 \in Attempt
    BY DEF Attempt
  <2> QED BY <2>1, <2>2 DEF Init, TypeOK, Attempt
<1> QED
  BY <1>1 DEF Init, HInv, NoBlindRepeat, RetriesUsed, AnsweredBehind, ReadingHandled,
              JudgingAnswered, ResultIsLast, OnceIsOnce, TypeOK, Stage

\* A record leaves the logs what they are, sequences of records.
LEMMA RecordType ==
    ASSUME TypeOK, NEW s, NEW what \in {"start", "success", "failed"}, Record(s, what)
    PROVE  log' \in [Attempt -> Seq({"debug", "normal"} \X {"start", "success", "failed"})]
<1> DEFINE R == {"debug", "normal"} \X {"start", "success", "failed"}
<1>1. <<Form(s), what>> \in R
  BY DEF Form
<1>2. log[attempt] \in Seq(R)
  BY DEF TypeOK
<1>3. Append(log[attempt], <<Form(s), what>>) \in Seq(R)
  <2> HIDE DEF R
  <2> QED BY <1>1, <1>2
<1> QED BY <1>3 DEF Record, TypeOK

\* Success ends the call and changes nothing a retry depends on.
LEMMA SucceedHInv ==
    ASSUME HInv, Succeed,
           pc \in {"awaiting", "reading"},
           \/ answered' = answered
           \/ pc = "reading" /\ answered' = answered \cup {attempt}
    PROVE  HInv'
<1> USE HttpSendAssumption DEF HttpSendAssumption
<1>1. /\ pc' = "returned"
      /\ result' \in {"Ok", "PreviewFailed"}
      /\ UNCHANGED <<choiceVars, debug, cfg, attempt, style, fate, failure>>
  BY DEF Succeed, Return
<1>2. log' \in [Attempt -> Seq({"debug", "normal"} \X {"start", "success", "failed"})]
  <2>1. CASE UNCHANGED log
    BY <2>1 DEF HInv, NoBlindRepeat, TypeOK
  <2>2. CASE Record(style[attempt], "success")
    BY <2>2, RecordType DEF HInv, NoBlindRepeat
  <2> QED BY <2>1, <2>2 DEF Succeed
<1>3. answered \subseteq answered' /\ answered' \subseteq answered \cup {attempt}
  OBVIOUS
<1>4. TypeOK'
  BY <1>1, <1>2, <1>3 DEF HInv, NoBlindRepeat, TypeOK, choiceVars, Ended
<1>5. NoBlindRepeat'
  BY <1>1, <1>3, <1>4 DEF HInv, NoBlindRepeat, choiceVars
<1>6. RetriesUsed'
  BY <1>1 DEF HInv, RetriesUsed, choiceVars, Stage
<1>7. AnsweredBehind'
  <2>1. attempt \in Nat
    BY DEF HInv, NoBlindRepeat, TypeOK, Attempt
  <2> QED BY <1>1, <2>1 DEF HInv, AnsweredBehind, ReadingHandled
<1>8. ReadingHandled' /\ JudgingAnswered' /\ ResultIsLast' /\ OnceIsOnce'
  BY <1>1 DEF HInv, ReadingHandled, JudgingAnswered, ResultIsLast, OnceIsOnce, choiceVars
<1> QED BY <1>5, <1>6, <1>7, <1>8 DEF HInv

\* After a failure the policy is asked, or the failure is returned because nothing is left.
LEMMA FailHInv ==
    ASSUME HInv, NEW stage \in Stage, Fail(stage),
           pc \in {"awaiting", "reading", "readingError"},
           \/ stage = "Transport" /\ answered' = answered
           \/ /\ pc \in {"reading", "readingError"}
              /\ answered' = answered \cup {attempt}
    PROVE  HInv'
<1> USE HttpSendAssumption DEF HttpSendAssumption
<1>1. /\ failure' = stage
      /\ UNCHANGED <<choiceVars, debug, cfg, attempt, style, fate>>
      /\ \/ sender = "retry" /\ attempt <= allowed /\ pc' = "judging" /\ result' = result
         \/ /\ ~(sender = "retry" /\ attempt <= allowed)
            /\ pc' = "returned" /\ result' = stage
  BY DEF Fail, Return
<1>2. log' \in [Attempt -> Seq({"debug", "normal"} \X {"start", "success", "failed"})]
  BY RecordType DEF Fail, HInv, NoBlindRepeat
<1>3. answered \subseteq answered' /\ answered' \subseteq answered \cup {attempt}
  OBVIOUS
<1>4. TypeOK'
  BY <1>1, <1>2, <1>3 DEF HInv, NoBlindRepeat, TypeOK, choiceVars, Ended, Awaits
<1>5. NoBlindRepeat'
  BY <1>1, <1>3, <1>4 DEF HInv, NoBlindRepeat, choiceVars
<1>6. result = "none" /\ attempt \in Nat /\ allowed \in Nat /\ attempt >= 1
  BY DEF HInv, ResultIsLast, NoBlindRepeat, TypeOK, Attempt
<1>7. RetriesUsed'
  BY <1>1, <1>6 DEF HInv, RetriesUsed, OnceIsOnce, choiceVars, Stage
<1>8. AnsweredBehind'
  BY <1>1, <1>6 DEF HInv, AnsweredBehind, ReadingHandled
<1>9. ReadingHandled' /\ JudgingAnswered' /\ ResultIsLast' /\ OnceIsOnce'
  BY <1>1, <1>6 DEF HInv, ReadingHandled, JudgingAnswered, ResultIsLast, OnceIsOnce, choiceVars
<1> QED BY <1>5, <1>7, <1>8, <1>9 DEF HInv

\* Every step of a call and of the wire keeps the invariant.
LEMMA NextHInv == HInv /\ [Next]_vars => HInv'
<1> SUFFICES ASSUME HInv, [Next]_vars PROVE HInv'
  OBVIOUS
<1> USE HttpSendAssumption DEF HttpSendAssumption
<1>t. TypeOK /\ attempt \in Nat /\ attempt >= 1 /\ allowed \in Nat
  BY DEF HInv, NoBlindRepeat, TypeOK, Attempt
<1>1. CASE Refuse
  <2>1. /\ pc = "checking" /\ pc' = "returned"
        /\ result' \in Problem
        /\ UNCHANGED <<choiceVars, debug, cfg, attempt, style, log, netVars, failure>>
    BY <1>1 DEF Refuse, Return, Problem
  <2>2. result' \notin Stage \cup {"Stopped", "none"}
    BY <2>1 DEF Problem, Problems, Stage
  <2>3. TypeOK'
    BY <1>t, <2>1 DEF TypeOK, choiceVars, netVars, Ended
  <2>4. NoBlindRepeat' /\ AnsweredBehind' /\ ReadingHandled'
    BY <2>1, <2>3 DEF HInv, NoBlindRepeat, AnsweredBehind, ReadingHandled, choiceVars, netVars
  <2> QED
    BY <2>1, <2>2, <2>4 DEF HInv, RetriesUsed, JudgingAnswered, ResultIsLast, OnceIsOnce,
                            choiceVars
<1>2. CASE Send
  <2>1. /\ pc = "checking" /\ pc' = "awaiting"
        /\ fate' = [fate EXCEPT ![attempt] = "travelling"]
        /\ failure' = "none"
        /\ style' = [style EXCEPT ![attempt] =
                        IF debug THEN "debug" ELSE IF cfg.logging THEN "normal" ELSE "quiet"]
        /\ UNCHANGED <<choiceVars, debug, cfg, attempt, answered, result>>
    BY <1>2 DEF Send
  <2>2. log' \in [Attempt -> Seq({"debug", "normal"} \X {"start", "success", "failed"})]
    <3>1. CASE UNCHANGED log
      BY <1>t, <3>1 DEF TypeOK
    <3>2. CASE Record(style'[attempt], "start")
      BY <1>t, <3>2, RecordType
    <3> QED BY <1>2, <3>1, <3>2 DEF Send
  <2>3. TypeOK'
    BY <1>t, <2>1, <2>2 DEF TypeOK, choiceVars, Awaits
  <2>4. \A a \in answered : a < attempt
    BY <2>1 DEF HInv, AnsweredBehind
  <2>5. \A a \in 1 .. attempt - 1 : fate'[a] = fate[a]
    BY <1>t, <2>1 DEF TypeOK
  <2>6. NoBlindRepeat'
    BY <2>1, <2>3, <2>5 DEF HInv, NoBlindRepeat, choiceVars
  <2>7. AnsweredBehind'
    BY <1>t, <2>1, <2>4 DEF HInv, AnsweredBehind, TypeOK, Attempt
  <2>8. result = "none" /\ result' = "none"
    BY <2>1 DEF HInv, ResultIsLast
  <2> QED
    BY <2>1, <2>6, <2>7, <2>8 DEF HInv, RetriesUsed, ReadingHandled, JudgingAnswered,
                                  ResultIsLast, OnceIsOnce, choiceVars, Stage
<1>3. ASSUME NEW a \in Attempt, Handle(a) \/ Lose(a) PROVE HInv'
  <2>1. /\ fate[a] = "travelling"
        /\ \/ fate' = [fate EXCEPT ![a] = "handled"]
           \/ fate' = [fate EXCEPT ![a] = "lost"]
        /\ UNCHANGED <<choiceVars, debug, cfg, pc, attempt, style, log, answered, failure, result>>
    BY <1>3 DEF Handle, Lose
  <2>2. \A b \in Attempt : fate[b] = "handled" => fate'[b] = "handled"
    BY <1>t, <2>1 DEF TypeOK
  <2>3. TypeOK'
    BY <1>t, <2>1 DEF TypeOK, choiceVars
  <2>4. 1 .. attempt - 1 \subseteq Attempt
    BY <1>t DEF TypeOK, Attempt
  <2>5. NoBlindRepeat'
    BY <2>1, <2>2, <2>3, <2>4 DEF HInv, NoBlindRepeat, choiceVars
  <2>6. AnsweredBehind' /\ ReadingHandled'
    BY <1>t, <2>1, <2>2 DEF HInv, AnsweredBehind, ReadingHandled, TypeOK
  <2> QED
    BY <2>1, <2>5, <2>6 DEF HInv, RetriesUsed, JudgingAnswered, ResultIsLast, OnceIsOnce,
                            choiceVars
<1>4. CASE Headers
  <2>1. CASE sender = "stream" /\ Succeed
    BY <1>4, <2>1, SucceedHInv DEF Headers
  <2>2. CASE /\ pc' \in {"readingError"} \cup IF sender = "stream" THEN {} ELSE {"reading"}
             /\ UNCHANGED <<choiceVars, debug, cfg, attempt, style, log, fate, failure, result>>
    <3>1. /\ pc = "awaiting" /\ fate[attempt] = "handled"
          /\ answered' = answered
          /\ pc' \in {"reading", "readingError"}
      BY <1>4, <2>2 DEF Headers
    <3>2. TypeOK'
      BY <1>t, <2>2, <3>1 DEF TypeOK, choiceVars, Awaits
    <3>3. NoBlindRepeat' /\ AnsweredBehind' /\ ReadingHandled'
      BY <2>2, <3>1, <3>2 DEF HInv, NoBlindRepeat, AnsweredBehind, ReadingHandled, choiceVars
    <3> QED
      BY <2>2, <3>1, <3>3 DEF HInv, RetriesUsed, JudgingAnswered, ResultIsLast, OnceIsOnce,
                              choiceVars
  <2> QED BY <1>4, <2>1, <2>2 DEF Headers
<1>5. CASE ReadBody
  <2>1. CASE Succeed
    BY <1>5, <2>1, SucceedHInv DEF ReadBody
  <2>2. CASE Fail("Decode")
    BY <1>5, <2>2, FailHInv DEF ReadBody, Stage
  <2> QED BY <1>5, <2>1, <2>2 DEF ReadBody
<1>6. CASE ReadErrorBody
  BY <1>6, FailHInv DEF ReadErrorBody, Stage
<1>7. CASE Breaks
  BY <1>7, FailHInv DEF Breaks, Stage
<1>8. CASE Retry
  <2>1. /\ pc = "judging" /\ pc' = "checking"
        /\ careful => failure # "Transport"
        /\ attempt' = attempt + 1
        /\ cfg' \in Config
        /\ UNCHANGED <<choiceVars, debug, style, log, netVars, failure, result>>
    BY <1>8 DEF Retry
  <2>2. attempt <= allowed /\ result = "none"
    BY <2>1 DEF HInv, JudgingAnswered, ResultIsLast
  <2>3. TypeOK'
    BY <1>t, <2>1, <2>2 DEF TypeOK, choiceVars, netVars, Attempt
  <2>4. careful => attempt \in answered /\ fate[attempt] = "handled"
    BY <2>1 DEF HInv, JudgingAnswered, AnsweredBehind
  <2>5. \A a \in 1 .. attempt' - 1 : a \in 1 .. attempt - 1 \/ a = attempt
    BY <1>t, <2>1
  <2>6. NoBlindRepeat'
    BY <2>1, <2>3, <2>4, <2>5 DEF HInv, NoBlindRepeat, choiceVars, netVars
  <2>7. AnsweredBehind'
    BY <1>t, <2>1 DEF HInv, AnsweredBehind, TypeOK, Attempt, netVars
  <2> QED
    BY <1>t, <2>1, <2>2, <2>6, <2>7 DEF HInv, RetriesUsed, ReadingHandled, JudgingAnswered,
                                        ResultIsLast, OnceIsOnce, choiceVars, Stage
<1>9. CASE Stop
  <2>1. /\ pc = "judging" /\ pc' = "returned" /\ result' = "Stopped"
        /\ UNCHANGED <<choiceVars, debug, cfg, attempt, style, log, netVars, failure>>
    BY <1>9 DEF Stop, Return
  <2>2. TypeOK'
    BY <1>t, <2>1 DEF TypeOK, choiceVars, netVars, Ended
  <2>3. NoBlindRepeat' /\ AnsweredBehind' /\ ReadingHandled'
    BY <2>1, <2>2 DEF HInv, NoBlindRepeat, AnsweredBehind, ReadingHandled, choiceVars, netVars
  <2> QED
    BY <2>1, <2>3 DEF HInv, RetriesUsed, JudgingAnswered, ResultIsLast, OnceIsOnce,
                      choiceVars, Stage
<1>10. CASE Drop
  <2>1. /\ pc \in Awaits /\ pc' = "dropped"
        /\ UNCHANGED <<choiceVars, debug, cfg, attempt, style, log, netVars, failure, result>>
    BY <1>10 DEF Drop
  <2>2. TypeOK'
    BY <1>t, <2>1 DEF TypeOK, choiceVars, netVars, Ended
  <2>3. NoBlindRepeat' /\ AnsweredBehind' /\ ReadingHandled'
    BY <2>1, <2>2 DEF HInv, NoBlindRepeat, AnsweredBehind, ReadingHandled, choiceVars, netVars
  <2> QED
    BY <2>1, <2>3 DEF HInv, RetriesUsed, JudgingAnswered, ResultIsLast, OnceIsOnce,
                      choiceVars, Awaits
<1>11. CASE SetDebug \/ UNCHANGED vars
  <2>1. /\ debug' \in BOOLEAN
        /\ UNCHANGED <<choiceVars, cfg, pc, attempt, style, log, netVars, failure, result>>
    BY <1>t, <1>11 DEF SetDebug, vars, TypeOK
  <2>2. TypeOK'
    BY <1>t, <2>1 DEF TypeOK, choiceVars, netVars
  <2>3. NoBlindRepeat' /\ AnsweredBehind' /\ ReadingHandled'
    BY <2>1, <2>2 DEF HInv, NoBlindRepeat, AnsweredBehind, ReadingHandled, choiceVars, netVars
  <2> QED
    BY <2>1, <2>3 DEF HInv, RetriesUsed, JudgingAnswered, ResultIsLast, OnceIsOnce,
                      choiceVars, netVars
<1> QED
  BY <1>1, <1>2, <1>3, <1>4, <1>5, <1>6, <1>7, <1>8, <1>9, <1>10, <1>11 DEF Next

\* What is proved of every state that a call reaches.
LEMMA HInvCorrect == Spec => []HInv
BY InitHInv, NextHInv, PTL DEF Spec

\* A policy that stops at Transport never makes send repeat a request that is still under
\* way or was handled without the caller knowing, for any number of retries.
THEOREM NoBlindRepeatCorrect == Spec => []NoBlindRepeat
<1>1. HInv => NoBlindRepeat
  BY DEF HInv
<1> QED BY <1>1, HInvCorrect, PTL

\* There are at most 1 + max_retries attempts, and a failure is returned as it is only
\* when they are used up, for any max_retries.
THEOREM RetriesUsedCorrect == Spec => []RetriesUsed
<1>1. HInv => RetriesUsed
  BY DEF HInv
<1> QED BY <1>1, HInvCorrect, PTL
-----------------------------------------------------------------------------
(* The records.                                                            *)

\* Which attempts were sent, and that the call knows of a failure when one is over.
SentInOrder ==
    /\ \A a \in Attempt : style[a] = "none" <=> fate[a] = "unsent"
    /\ \A a \in Attempt : a < attempt => fate[a] # "unsent"
    /\ \A a \in Attempt : a > attempt => fate[a] = "unsent"
    /\ pc = "checking" => fate[attempt] = "unsent"
    /\ pc \in Awaits => fate[attempt] # "unsent"
    /\ pc \in {"awaiting", "reading", "readingError"} => failure = "none"
    /\ pc = "judging" => failure # "none"
    /\ result = "Ok" => failure = "none"

\* The two parts RecordsTell puts together.
StartOf(a) == IF style[a] \in {"none", "quiet"} THEN <<>> ELSE <<<<Form(style[a]), "start">>>>
EndOf(a) ==
    IF fate[a] = "unsent" THEN <<>>
    ELSE IF Failed(a) THEN <<<<Form(style[a]), "failed">>>>
    ELSE IF result = "Ok" /\ style[a] # "quiet" THEN <<<<Form(style[a]), "success">>>>
    ELSE <<>>

\* RecordsTell, with the two ends of a log taken apart.
LEMMA RecordsParts == RecordsTell <=> \A a \in Attempt : log[a] = StartOf(a) \o EndOf(a)
BY DEF RecordsTell, StartOf, EndOf

\* A start is a sequence of records, so an end can be put behind it.
LEMMA EndBehindStart ==
    ASSUME NEW a \in Attempt, NEW e
    PROVE  StartOf(a) \o <<>> = StartOf(a) /\ Append(StartOf(a) \o <<>>, e) = StartOf(a) \o <<e>>
<1> DEFINE S == {<<Form(style[a]), "start">>, e}
<1>1. <<Form(style[a]), "start">> \in S /\ e \in S
    OBVIOUS
<1> HIDE DEF S
<1>2. <<>> \in Seq(S) /\ <<<<Form(style[a]), "start">>>> \in Seq(S)
    BY <1>1
<1>3. StartOf(a) \in Seq(S)
    BY <1>2 DEF StartOf
<1> HIDE DEF StartOf
<1>4. StartOf(a) \o <<>> = StartOf(a)
    BY <1>3, ConcatEmptySeq
<1>5. Append(StartOf(a), e) = StartOf(a) \o <<e>>
    BY <1>1, <1>3, AppendIsConcat
<1> QED BY <1>4, <1>5

\* The inductive invariant of the records: one is made when an attempt is sent and one
\* when it is over, and the form of both is the style kept with the attempt.
RInv == HInv /\ SentInOrder /\ RecordsTell

\* A step that sends nothing, ends no attempt and records nothing.
LEMMA NothingRecorded ==
    ASSUME RInv, UNCHANGED <<attempt, style, log, failure>>, result' = "Ok" <=> result = "Ok",
           \A a \in Attempt : fate'[a] = "unsent" <=> fate[a] = "unsent"
    PROVE  RecordsTell'
BY DEF RInv, RecordsTell, Failed

\* A failed attempt gets its end.
LEMMA FailRecords ==
    ASSUME RInv, NEW stage \in Stage, Fail(stage), pc \in {"awaiting", "reading", "readingError"}
    PROVE  SentInOrder' /\ RecordsTell'
<1>t. TypeOK /\ attempt \in Attempt /\ attempt \in Nat /\ stage # "none"
    BY HttpSendAssumption DEF RInv, HInv, NoBlindRepeat, TypeOK, Attempt, Stage
<1>1. /\ failure' = stage
      /\ log' = [log EXCEPT ![attempt] = Append(@, <<Form(style[attempt]), "failed">>)]
      /\ UNCHANGED <<attempt, style, fate>>
      /\ pc' \in {"judging", "returned"} /\ result' # "Ok"
      /\ result = "none"
    BY DEF Fail, Record, Return, Stage, RInv, HInv, ResultIsLast
<1>2. SentInOrder'
    BY <1>t, <1>1 DEF RInv, SentInOrder, Awaits
<1>3. ASSUME NEW a \in Attempt
      PROVE  log'[a] = StartOf(a)' \o EndOf(a)'
    <2>1. log[a] = StartOf(a) \o EndOf(a) /\ StartOf(a)' = StartOf(a)
        BY <1>1, RecordsParts DEF RInv, StartOf
    <2>2. CASE a = attempt
        <3>1. EndOf(a) = <<>> /\ EndOf(a)' = <<<<Form(style[a]), "failed">>>>
            BY <1>t, <1>1, <2>2 DEF RInv, SentInOrder, Awaits, EndOf, Failed
        <3>2. log'[a] = Append(StartOf(a) \o <<>>, <<Form(style[a]), "failed">>)
            BY <1>t, <1>1, <2>1, <2>2, <3>1 DEF TypeOK
        <3>3. log'[a] = StartOf(a) \o <<<<Form(style[a]), "failed">>>>
            BY <3>2, EndBehindStart
        <3> QED BY <2>1, <3>1, <3>3
    <2>3. CASE a # attempt
        <3>1. a < attempt \/ a > attempt
            BY <1>t, <2>3 DEF Attempt
        <3>2. EndOf(a)' = EndOf(a)
            BY <1>1, <2>3, <3>1 DEF RInv, SentInOrder, EndOf, Failed
        <3> QED BY <1>t, <1>1, <2>1, <2>3, <3>2 DEF TypeOK
    <2> QED BY <2>2, <2>3
<1>4. RecordsTell'
    BY <1>3 DEF RecordsTell, StartOf, EndOf
<1> QED BY <1>2, <1>4

\* One that went well gets its end too, if it is not kept quiet and is returned as it is.
LEMMA SucceedRecords ==
    ASSUME RInv, Succeed, pc \in {"awaiting", "reading"}
    PROVE  SentInOrder' /\ RecordsTell'
<1>t. TypeOK /\ attempt \in Attempt /\ attempt \in Nat
    BY HttpSendAssumption DEF RInv, HInv, NoBlindRepeat, TypeOK, Attempt
<1>1. /\ UNCHANGED <<attempt, style, fate, failure>>
      /\ pc' = "returned" /\ failure = "none" /\ result = "none"
      /\ fate[attempt] # "unsent"
    BY DEF Succeed, Return, RInv, HInv, ResultIsLast, SentInOrder, Awaits
<1>2. SentInOrder'
    BY <1>t, <1>1 DEF RInv, SentInOrder, Awaits
<1>3. \A a \in Attempt : a # attempt => EndOf(a)' = EndOf(a)
    <2> SUFFICES ASSUME NEW a \in Attempt, a # attempt
                 PROVE  EndOf(a)' = EndOf(a)
        OBVIOUS
    <2>1. a < attempt \/ a > attempt
        BY <1>t DEF Attempt
    <2> QED BY <1>1, <2>1 DEF RInv, SentInOrder, EndOf, Failed
<1>4. \A a \in Attempt : log[a] = StartOf(a) \o EndOf(a) /\ StartOf(a)' = StartOf(a)
    BY <1>1, RecordsParts DEF RInv, StartOf
<1>5. CASE log' = log /\ (style[attempt] = "quiet" \/ result' = "PreviewFailed")
    <2>1. \A a \in Attempt : a = attempt => EndOf(a) = <<>> /\ EndOf(a)' = <<>>
        BY <1>t, <1>1, <1>5 DEF EndOf, Failed
    <2>2. ASSUME NEW a \in Attempt
          PROVE  log'[a] = StartOf(a)' \o EndOf(a)'
        <3>1. EndOf(a)' = EndOf(a)
            <4>1. CASE a = attempt
                BY <2>1, <4>1
            <4>2. CASE a # attempt
                BY <1>3, <4>2
            <4> QED BY <4>1, <4>2
        <3>2. log'[a] = log[a]
            BY <1>5
        <3> QED BY <1>4, <3>1, <3>2
    <2> QED BY <1>2, <2>2 DEF RecordsTell, StartOf, EndOf
<1>6. CASE /\ log' = [log EXCEPT ![attempt] = Append(@, <<Form(style[attempt]), "success">>)]
           /\ style[attempt] # "quiet" /\ result' = "Ok"
    <2>1. \A a \in Attempt : a = attempt =>
              EndOf(a) = <<>> /\ EndOf(a)' = <<<<Form(style[a]), "success">>>>
        BY <1>t, <1>1, <1>6 DEF EndOf, Failed
    <2>2. \A a \in Attempt : a # attempt => log'[a] = log[a]
        BY <1>6 DEF TypeOK
    <2>3. ASSUME NEW a \in Attempt
          PROVE  log'[a] = StartOf(a)' \o EndOf(a)'
        <3>1. CASE a = attempt
            <4>1. log[a] = StartOf(a) \o <<>>
                BY <1>4, <2>1, <3>1
            <4>2. log'[a] = Append(StartOf(a) \o <<>>, <<Form(style[a]), "success">>)
                BY <1>t, <1>6, <3>1, <4>1 DEF TypeOK
            <4>3. log'[a] = StartOf(a) \o <<<<Form(style[a]), "success">>>>
                BY <4>2, EndBehindStart
            <4> QED BY <1>4, <2>1, <3>1, <4>3
        <3>2. CASE a # attempt
            BY <1>3, <1>4, <2>2, <3>2
        <3> QED BY <3>1, <3>2
    <2> QED BY <1>2, <2>3 DEF RecordsTell, StartOf, EndOf
<1> QED BY <1>5, <1>6 DEF Succeed, Record, Return

\* What is sent gets its start, unless it is kept quiet.
LEMMA SendRecords ==
    ASSUME RInv, Send
    PROVE  SentInOrder' /\ RecordsTell'
<1>t. TypeOK /\ attempt \in Attempt /\ attempt \in Nat
    BY HttpSendAssumption DEF RInv, HInv, NoBlindRepeat, TypeOK, Attempt
<1> DEFINE s == IF debug THEN "debug" ELSE IF cfg.logging THEN "normal" ELSE "quiet"
<1>1. /\ pc' = "awaiting" /\ failure' = "none" /\ result = "none" /\ result' = "none"
      /\ style' = [style EXCEPT ![attempt] = s]
      /\ fate' = [fate EXCEPT ![attempt] = "travelling"]
      /\ attempt' = attempt
      /\ style[attempt] = "none" /\ fate[attempt] = "unsent"
    BY <1>t DEF Send, RInv, HInv, ResultIsLast, SentInOrder
<1>2. s \in {"debug", "normal", "quiet"} /\ style'[attempt] = s /\ fate'[attempt] = "travelling"
    BY <1>t, <1>1 DEF TypeOK
<1>3. IF s = "quiet" THEN log' = log
                     ELSE log' = [log EXCEPT ![attempt] = Append(@, <<Form(s), "start">>)]
    BY <1>2 DEF Send, Record
<1> HIDE DEF s
<1>4. \A a \in Attempt : a # attempt => /\ style'[a] = style[a] /\ fate'[a] = fate[a]
                                        /\ log'[a] = log[a] /\ (a < attempt \/ a > attempt)
    <2> SUFFICES ASSUME NEW a \in Attempt, a # attempt
                 PROVE  /\ style'[a] = style[a] /\ fate'[a] = fate[a]
                        /\ log'[a] = log[a] /\ (a < attempt \/ a > attempt)
        OBVIOUS
    <2>1. style'[a] = style[a] /\ fate'[a] = fate[a]
        BY <1>t, <1>1 DEF TypeOK
    <2>2. log'[a] = log[a]
        BY <1>t, <1>3 DEF TypeOK
    <2>3. a < attempt \/ a > attempt
        BY <1>t DEF Attempt
    <2> QED BY <2>1, <2>2, <2>3
<1>5. SentInOrder'
    BY <1>t, <1>1, <1>2, <1>4 DEF RInv, SentInOrder, Awaits
<1>6. ASSUME NEW a \in Attempt
      PROVE  log'[a] = StartOf(a)' \o EndOf(a)'
    <2>1. log[a] = StartOf(a) \o EndOf(a)
        BY RecordsParts DEF RInv
    <2>2. CASE a = attempt
        <3>1. log[a] = <<>>
            BY <1>1, <2>1, <2>2 DEF StartOf, EndOf
        <3>2. EndOf(a)' = <<>>
            BY <1>t, <1>1, <2>2 DEF EndOf, Failed
        <3>3. StartOf(a)' = IF s = "quiet" THEN <<>> ELSE <<<<Form(s), "start">>>>
            BY <1>2, <2>2 DEF StartOf
        <3>4. log'[a] = IF s = "quiet" THEN <<>> ELSE <<<<Form(s), "start">>>>
            BY <1>t, <1>3, <2>2, <3>1 DEF TypeOK
        <3> QED BY <3>2, <3>3, <3>4
    <2>3. CASE a # attempt
        <3>1. StartOf(a)' = StartOf(a) /\ EndOf(a)' = EndOf(a)
            BY <1>1, <1>4, <2>3 DEF RInv, SentInOrder, StartOf, EndOf, Failed
        <3> QED BY <1>4, <2>1, <2>3, <3>1
    <2> QED BY <2>2, <2>3
<1>7. RecordsTell'
    BY <1>6 DEF RecordsTell, StartOf, EndOf
<1> QED BY <1>5, <1>7

\* Every step keeps the records.
LEMMA NextRecords == RInv /\ [Next]_vars => SentInOrder' /\ RecordsTell'
<1> SUFFICES ASSUME RInv, [Next]_vars PROVE SentInOrder' /\ RecordsTell'
    OBVIOUS
<1>t. TypeOK /\ attempt \in Attempt /\ attempt \in Nat
    BY HttpSendAssumption DEF RInv, HInv, NoBlindRepeat, TypeOK, Attempt
<1>1. CASE Refuse
    <2>1. /\ pc' = "returned" /\ result' \in Problem /\ result = "none"
          /\ UNCHANGED <<attempt, style, log, fate, failure>>
        BY <1>1 DEF Refuse, Return, Problem, netVars, RInv, HInv, ResultIsLast
    <2>2. result' # "Ok"
        BY <2>1 DEF Problem, Problems
    <2>3. SentInOrder'
        BY <2>1, <2>2 DEF RInv, SentInOrder, Awaits
    <2> QED BY <2>1, <2>2, <2>3, NothingRecorded
<1>2. CASE Send
    BY <1>2, SendRecords
<1>3. ASSUME NEW a \in Attempt, Handle(a) \/ Lose(a)
      PROVE  SentInOrder' /\ RecordsTell'
    <2>1. /\ \A b \in Attempt : fate'[b] = "unsent" <=> fate[b] = "unsent"
          /\ UNCHANGED <<pc, attempt, style, log, failure, result>>
        BY <1>t, <1>3 DEF Handle, Lose, TypeOK
    <2>2. SentInOrder'
        BY <1>t, <2>1 DEF RInv, SentInOrder
    <2> QED BY <2>1, <2>2, NothingRecorded
<1>4. CASE Headers /\ ~Succeed
    <2>1. /\ pc = "awaiting" /\ pc' \in {"reading", "readingError"}
          /\ UNCHANGED <<attempt, style, log, fate, failure, result>>
        BY <1>4 DEF Headers
    <2>2. SentInOrder'
        BY <2>1 DEF RInv, SentInOrder, Awaits
    <2> QED BY <2>1, <2>2, NothingRecorded
<1>5. CASE Succeed /\ (Headers \/ ReadBody)
    BY <1>5, SucceedRecords DEF Headers, ReadBody
<1>6. CASE (ReadBody /\ ~Succeed) \/ ReadErrorBody \/ Breaks
    BY <1>6, FailRecords DEF ReadBody, ReadErrorBody, Breaks, Stage
<1>7. CASE Retry
    <2>1. /\ pc = "judging" /\ pc' = "checking" /\ attempt' = attempt + 1
          /\ UNCHANGED <<style, log, fate, failure, result>>
          /\ result = "none"
        BY <1>7 DEF Retry, netVars, RInv, HInv, ResultIsLast
    <2>2. attempt + 1 \in Attempt
        BY <1>t, <2>1, HttpSendAssumption DEF RInv, HInv, JudgingAnswered, TypeOK, Attempt
    <2>3. SentInOrder'
        BY <1>t, <2>1, <2>2 DEF RInv, SentInOrder, Awaits, Attempt
    <2>4. ASSUME NEW a \in Attempt, fate[a] # "unsent"
          PROVE  Failed(a)' /\ Failed(a)
        <3>1. a <= attempt
            BY <1>t, <2>4 DEF RInv, SentInOrder, Attempt
        <3> QED BY <1>t, <2>1, <2>4, <3>1 DEF RInv, SentInOrder, Failed, Attempt
    <2>5. RecordsTell'
        BY <2>1, <2>4 DEF RInv, RecordsTell
    <2> QED BY <2>3, <2>5
<1>8. CASE Stop \/ Drop
    <2>1. /\ pc' \in Ended /\ (result' = "Ok" <=> result = "Ok")
          /\ UNCHANGED <<attempt, style, log, fate, failure>>
        BY <1>8 DEF Stop, Drop, Return, netVars, Ended, RInv, HInv, ResultIsLast
    <2>2. SentInOrder'
        BY <2>1 DEF RInv, SentInOrder, Awaits, Ended
    <2> QED BY <2>1, <2>2, NothingRecorded
<1>9. CASE SetDebug \/ UNCHANGED vars
    <2>1. UNCHANGED <<pc, attempt, style, log, fate, failure, result>>
        BY <1>9 DEF SetDebug, vars, netVars
    <2>2. SentInOrder'
        BY <2>1 DEF RInv, SentInOrder
    <2> QED BY <2>1, <2>2, NothingRecorded
<1> QED
    BY <1>1, <1>2, <1>3, <1>4, <1>5, <1>6, <1>7, <1>8, <1>9 DEF Next

\* Every attempt that was sent has a start and one end, in one form whoever turns the debug
\* log on or off meanwhile, for any number of attempts.
THEOREM RecordsTellCorrect == Spec => []RecordsTell
<1>1. Init => RInv
    <2> SUFFICES ASSUME Init PROVE RInv
        OBVIOUS
    <2>1. SentInOrder
        BY HttpSendAssumption DEF Init, SentInOrder, Awaits, Attempt
    <2>2. \A a \in Attempt : log[a] = StartOf(a) \o EndOf(a)
        BY DEF Init, StartOf, EndOf
    <2> QED BY <2>1, <2>2, InitHInv, RecordsParts DEF RInv
<1>2. RInv /\ [Next]_vars => RInv'
    BY NextHInv, NextRecords DEF RInv
<1>3. RInv => RecordsTell
    BY DEF RInv
<1> QED BY <1>1, <1>2, <1>3, PTL DEF Spec
-----------------------------------------------------------------------------
(* The mock server: its routes.                                            *)

\* A set of routes that match has a first one.
LEMMA FirstOf ==
    ASSUME NEW n \in Nat, NEW S \in SUBSET (1 .. n), S # {}
    PROVE  Min(S) \in S /\ \A y \in S : Min(S) <= y
<1> DEFINE Upto == {0 .. x : x \in S}
<1>1. Upto \subseteq FiniteSubsetsOf(Nat) /\ Upto # {}
    <2>1. ASSUME NEW x \in S PROVE (0 .. x) \in SUBSET Nat /\ IsFiniteSet(0 .. x)
        BY FS_Interval
    <2> QED BY <2>1 DEF FiniteSubsetsOf
<1>2. PICK T \in Upto : \A U \in Upto : <<U, T>> \notin StrictSubsetOrdering(Nat)
    <2> HIDE DEF Upto
    <2> QED BY <1>1, WFMin, FS_StrictSubsetOrderingWellFounded
<1>3. PICK x \in S : T = 0 .. x
    OBVIOUS
<1>4. ASSUME NEW y \in S, y < x PROVE FALSE
    <2>1. 0 .. y \in Upto /\ (0 .. y) \subseteq (0 .. x) /\ x \in 0 .. x /\ x \notin 0 .. y
        BY <1>4
    <2>2. <<0 .. y, 0 .. x>> \in StrictSubsetOrdering(Nat)
        BY <2>1 DEF StrictSubsetOrdering
    <2> QED BY <1>2, <1>3, <2>1, <2>2
<1>5. \A y \in S : x <= y
    BY <1>4
<1> QED BY <1>5 DEF Min

\* The definitions of a cassette are a sequence of literal routes and templates.
Definitions(ds) == ds \in Seq(ToSet(ds)) /\ \A d \in ToSet(ds) : d.literal \in BOOLEAN

\* Positions are finitely many.
LEMMA Positions == \A n \in Nat : IsFiniteSet(1 .. n) /\ Cardinality(1 .. n) = n
<1> SUFFICES ASSUME NEW n \in Nat PROVE IsFiniteSet(1 .. n) /\ Cardinality(1 .. n) = n
    OBVIOUS
<1>1. IsFiniteSet(1 .. n) /\ Cardinality(1 .. n) = IF 1 > n THEN 0 ELSE n - 1 + 1
    BY FS_Interval
<1> QED BY <1>1

\* The elements of a sequence.
LEMMA Elements ==
    ASSUME NEW ds, ds \in Seq(ToSet(ds))
    PROVE  /\ Len(ds) \in Nat /\ DOMAIN ds = 1 .. Len(ds)
           /\ \A i \in 1 .. Len(ds) : ds[i] \in ToSet(ds)
           /\ \A d \in ToSet(ds) : \E i \in 1 .. Len(ds) : d = ds[i]
BY DEF ToSet

\* Who comes before comes first.
LEMMA PlacesFollowOrder ==
    ASSUME NEW ds, Definitions(ds), NEW i \in 1 .. Len(ds), NEW j \in 1 .. Len(ds)
    PROVE  /\ Place(ds, i) \in 1 .. Len(ds)
           /\ Before(ds, i, j) => Place(ds, i) < Place(ds, j)
<1> DEFINE n == Len(ds)
           Ahead(k) == {m \in 1 .. n : Before(ds, m, k)}
<1>1. n \in Nat /\ \A k \in 1 .. n : ds[k].literal \in BOOLEAN
    BY Elements DEF Definitions
<1>2. \A k \in 1 .. n : k \notin Ahead(k)
    BY <1>1 DEF Before
<1>3. IsFiniteSet(1 .. n) /\ Cardinality(1 .. n) = n
    BY <1>1, Positions
<1>4. ASSUME NEW k \in 1 .. n PROVE IsFiniteSet(Ahead(k)) /\ Cardinality(Ahead(k)) \in 0 .. n - 1
    <2>1. IsFiniteSet((1 .. n) \ {k}) /\ Cardinality((1 .. n) \ {k}) = n - 1
        BY <1>1, <1>3, FS_RemoveElement
    <2>2. Ahead(k) \in SUBSET ((1 .. n) \ {k})
        BY <1>2
    <2>3. IsFiniteSet(Ahead(k)) /\ Cardinality(Ahead(k)) <= Cardinality((1 .. n) \ {k})
        <3> HIDE DEF Ahead
        <3> QED BY <2>1, <2>2, FS_Subset
    <2> HIDE DEF Ahead
    <2> QED BY <2>1, <2>3, FS_CardinalityType
<1>5. \A k \in 1 .. n : Place(ds, k) = Cardinality(Ahead(k)) + 1
    BY DEF Place
<1>6. ASSUME Before(ds, i, j) PROVE Cardinality(Ahead(i)) < Cardinality(Ahead(j))
    <2>1. Ahead(i) \cup {i} \subseteq Ahead(j)
        <3>1. ASSUME NEW m \in 1 .. n, Before(ds, m, i) PROVE Before(ds, m, j)
            BY <1>1, <1>6, <3>1 DEF Before
        <3> QED BY <1>6, <3>1
    <2>2. i \notin Ahead(i)
        BY <1>2
    <2> HIDE DEF Ahead
    <2>3. IsFiniteSet(Ahead(i) \cup {i}) /\ Cardinality(Ahead(i) \cup {i}) = Cardinality(Ahead(i)) + 1
        BY <1>4, <2>2, FS_AddElement
    <2>4. Cardinality(Ahead(i) \cup {i}) <= Cardinality(Ahead(j))
        BY <1>4, <2>1, FS_Subset
    <2>5. Cardinality(Ahead(i)) \in Nat /\ Cardinality(Ahead(j)) \in Nat
        BY <1>4
    <2> QED BY <2>3, <2>4, <2>5
<1> HIDE DEF Ahead
<1> QED BY <1>1, <1>4, <1>5, <1>6

\* Every place is taken, and by one route.
LEMMA PlacesTaken ==
    ASSUME NEW ds, Definitions(ds)
    PROVE  /\ \A i, j \in 1 .. Len(ds) : Place(ds, i) = Place(ds, j) => i = j
           /\ \A m \in 1 .. Len(ds) : \E i \in 1 .. Len(ds) : Place(ds, i) = m
<1> DEFINE n == Len(ds)
           f == [i \in 1 .. n |-> Place(ds, i)]
<1>1. n \in Nat /\ \A k \in 1 .. n : ds[k].literal \in BOOLEAN
    BY Elements DEF Definitions
<1>2. ASSUME NEW i \in 1 .. n, NEW j \in 1 .. n, Place(ds, i) = Place(ds, j), i # j PROVE FALSE
    <2>1. Before(ds, i, j) \/ Before(ds, j, i)
        BY <1>1, <1>2 DEF Before
    <2>2. Place(ds, i) \in 1 .. n /\ Place(ds, j) \in 1 .. n
        BY PlacesFollowOrder
    <2>3. Place(ds, i) < Place(ds, j) \/ Place(ds, j) < Place(ds, i)
        BY <2>1, PlacesFollowOrder
    <2> QED BY <1>2, <2>2, <2>3
<1>3. f \in [1 .. n -> 1 .. n]
    BY PlacesFollowOrder
<1>4. f \in Injection(1 .. n, 1 .. n)
    BY <1>2, <1>3 DEF Injection, IsInjective
<1>5. IsFiniteSet(1 .. n)
    BY <1>1, FS_Interval
<1>6. f \in Surjection(1 .. n, 1 .. n)
    <2> HIDE DEF f
    <2> QED BY <1>4, <1>5, FS_Injection
<1>7. \A m \in 1 .. n : \E i \in 1 .. n : f[i] = m
    BY <1>6 DEF Surjection
<1> QED BY <1>2, <1>7

\* What is registered: the same routes, the literal ones first.
LEMMA RegisteredRoutes ==
    ASSUME NEW ds, Definitions(ds), NEW order, order = Registered(ds)
    PROVE  /\ Len(order) = Len(ds) /\ order \in Seq(ToSet(ds))
           /\ ToSet(order) = ToSet(ds)
           /\ \A k, m \in 1 .. Len(order) : k < m /\ order[m].literal => order[k].literal
<1> DEFINE n == Len(ds)
           At(m) == CHOOSE i \in 1 .. n : Place(ds, i) = m
<1>1. n \in Nat /\ \A k \in 1 .. n : ds[k] \in ToSet(ds) /\ ds[k].literal \in BOOLEAN
    BY Elements DEF Definitions
<1>2. \A m \in 1 .. n : At(m) \in 1 .. n /\ Place(ds, At(m)) = m
    BY PlacesTaken
<1>3. order = [m \in 1 .. n |-> ds[At(m)]]
    BY DEF Registered, LiteralFirst
<1>4. \A i \in 1 .. n : Place(ds, i) \in 1 .. n /\ At(Place(ds, i)) = i
    BY <1>2, PlacesTaken, PlacesFollowOrder
<1> HIDE DEF At
<1>5. order \in Seq(ToSet(ds)) /\ Len(order) = n
    BY <1>1, <1>2, <1>3
<1>6. ToSet(order) = ToSet(ds)
    <2>1. \A d \in ToSet(order) : d \in ToSet(ds)
        BY <1>1, <1>2, <1>3 DEF ToSet
    <2>2. ASSUME NEW d \in ToSet(ds) PROVE d \in ToSet(order)
        <3>1. PICK i \in 1 .. n : d = ds[i]
            BY Elements DEF Definitions
        <3>2. d = order[Place(ds, i)] /\ Place(ds, i) \in DOMAIN order
            BY <1>3, <1>4, <3>1
        <3> QED BY <3>2 DEF ToSet
    <2> QED BY <2>1, <2>2
<1>7. ASSUME NEW k \in 1 .. n, NEW m \in 1 .. n, k < m, order[m].literal, ~ order[k].literal PROVE FALSE
    <2>1. order[m] = ds[At(m)] /\ order[k] = ds[At(k)]
        BY <1>3
    <2>2. Before(ds, At(m), At(k))
        BY <1>1, <1>2, <1>7, <2>1 DEF Before
    <2>3. Place(ds, At(m)) < Place(ds, At(k))
        BY <1>2, <2>2, PlacesFollowOrder
    <2> QED BY <1>1, <1>2, <1>7, <2>3
<1> QED BY <1>5, <1>6, <1>7

\* The answer to a request: among the routes that match there is at most one literal and one
\* template, and the literal one is chosen.
LEMMA RouteChosen ==
    ASSUME NEW ds, Definitions(ds), NoConflicts(ds), NEW q, NEW s,
           NEW order, order \in Seq(ToSet(ds)), ToSet(order) = ToSet(ds),
           \A k, m \in 1 .. Len(order) : k < m /\ order[m].literal => order[k].literal,
           NEW c, c = Chosen(order, q, s)
    PROVE  LET match == {d \in ToSet(ds) : Declared(d, q) /\ Scripted(d, s)}
           IN  /\ c \in 0 .. Len(order) /\ (c = 0 <=> match = {})
               /\ c # 0 => \A d \in match : /\ order[c] \in match
                                           /\ (d.literal => order[c].literal)
                                           /\ (d.literal = order[c].literal => d = order[c])
<1> DEFINE match == {d \in ToSet(ds) : Declared(d, q) /\ Scripted(d, s)}
           n == Len(order)
           M == {k \in 1 .. n : Declared(order[k], q) /\ Scripted(order[k], s)}
<1>1. n \in Nat /\ order \in Seq(ToSet(order)) /\ \A k \in 1 .. n : order[k] \in ToSet(ds)
    OBVIOUS
<1>2. \A d \in ToSet(ds) : \E k \in 1 .. n : d = order[k]
    BY <1>1, Elements
<1>3. M = Matching(order, q, s) /\ c = IF M = {} THEN 0 ELSE Min(M)
    BY DEF Matching, Chosen
<1>4. M # {} => c \in M /\ \A k \in M : c <= k
    <2>1. M \in SUBSET (1 .. n)
        OBVIOUS
    <2> HIDE DEF M
    <2> QED BY <1>1, <1>3, <2>1, FirstOf
<1>5. M = {} <=> match = {}
    BY <1>1, <1>2
<1>6. ASSUME c # 0, NEW d \in match
      PROVE  /\ order[c] \in match /\ (d.literal => order[c].literal)
             /\ (d.literal = order[c].literal => d = order[c])
    <2>1. c \in M /\ order[c] \in match
        BY <1>1, <1>3, <1>4, <1>6
    <2>2. PICK k \in 1 .. n : d = order[k]
        BY <1>2
    <2>3. k \in M /\ c <= k
        BY <1>4, <2>1, <2>2
    <2>4. d.literal => order[c].literal
        BY <1>1, <2>1, <2>2, <2>3
    <2>5. ASSUME d.literal = order[c].literal, d # order[c] PROVE FALSE
        <3>1. Path(d, q) /\ Path(order[c], q)
            BY <2>1 DEF Declared
        <3>2. Conflict(d, order[c]) /\ Conflict(order[c], d)
            BY <2>5, <3>1 DEF Conflict, Path
        <3>3. PICK i \in 1 .. Len(ds) : d = ds[i]
            BY Elements DEF Definitions
        <3>4. PICK j \in 1 .. Len(ds) : order[c] = ds[j]
            BY <2>1, Elements, ZenonT(60) DEF Definitions
        <3>5. i # j
            BY <2>5, <3>3, <3>4
        <3>6. Len(ds) \in Nat
            BY Elements DEF Definitions
        <3>7. i < j \/ j < i
            BY <3>5, <3>6
        <3>8. ~ Conflict(ds[i], ds[j]) \/ ~ Conflict(ds[j], ds[i])
            BY <3>7 DEF NoConflicts
        <3> QED BY <3>2, <3>3, <3>4, <3>8
    <2> QED BY <2>1, <2>4, <2>5
<1>7. c \in 0 .. n /\ (c = 0 <=> match = {})
    BY <1>1, <1>3, <1>4, <1>5
<1> QED BY <1>6, <1>7

\* The same definitions in another order.
LEMMA Reordered ==
    ASSUME NEW ds, Definitions(ds), NEW p \in [1 .. Len(ds) -> 1 .. Len(ds)], IsInjective(p),
           NEW other, other = [i \in 1 .. Len(ds) |-> ds[p[i]]]
    PROVE  Definitions(other) /\ ToSet(other) = ToSet(ds)
<1> DEFINE n == Len(ds)
<1>1. n \in Nat /\ \A k \in 1 .. n : ds[k] \in ToSet(ds)
    BY Elements DEF Definitions
<1>2. IsFiniteSet(1 .. n)
    BY <1>1, Positions
<1>3. p \in Injection(1 .. n, 1 .. n)
    BY DEF Injection, IsInjective
<1>4. p \in Surjection(1 .. n, 1 .. n)
    BY <1>2, <1>3, FS_Injection
<1>5. \A m \in 1 .. n : \E i \in 1 .. n : p[i] = m
    BY <1>4 DEF Surjection
<1>6. ToSet(other) = ToSet(ds)
    <2>1. \A d \in ToSet(other) : d \in ToSet(ds)
        BY <1>1 DEF ToSet
    <2>2. ASSUME NEW d \in ToSet(ds) PROVE d \in ToSet(other)
        <3>1. PICK k \in 1 .. n : d = ds[k]
            BY Elements DEF Definitions
        <3>2. PICK i \in 1 .. n : p[i] = k
            BY <1>5
        <3> QED BY <3>1, <3>2 DEF ToSet
    <2> QED BY <2>1, <2>2
<1>7. other \in Seq(ToSet(ds))
    BY <1>1
<1> QED BY <1>6, <1>7 DEF Definitions

\* A set of positions as a sequence.
LEMMA Listed ==
    ASSUME NEW n \in Nat, NEW S \in SUBSET (1 .. n)
    PROVE  Len(SetToSeq(S)) \in Nat
<1>1. IsFiniteSet(S)
    BY Positions, FS_Subset
<1>2. Cardinality(S) \in Nat /\ ExistsBijection(1 .. Cardinality(S), S)
    BY <1>1, FS_CardinalityType
<1>3. \E f \in [1 .. Cardinality(S) -> S] : IsInjective(f)
    BY <1>2 DEF ExistsBijection, Bijection, Injection, IsInjective
<1>4. SetToSeq(S) \in [1 .. Cardinality(S) -> S]
    BY <1>3 DEF SetToSeq
<1> QED BY <1>2, <1>4





-----------------------------------------------------------------------------
(* The mock server: its invariant.                                         *)

\* The problems that are recorded.
Kinds == {"NoRoute", "MatchScriptFailed", "InvalidResponse", "FileNotFound", "ScriptFailed", "NoResponse"}
Records == Seq([kind : Kinds, req : Nat, fixed : BOOLEAN])

ProblemsTyped == sent \in Nat /\ problems \in Records

\* An answer of the mock's own is among the problems until they are taken.
WrongIsTold == \A r \in wrong : \E i \in 1 .. Len(problems) : problems[i].req = r

\* What start checked, of the routes it registered: a handler has what it needs in the files
\* that are there now.
RoutesChecked ==
    phase \notin {"new", "refused"} =>
        /\ routes = Registered(loaded)
        /\ NoConflicts(loaded)
        /\ \A d \in ToSet(loaded) : CompileRoute(d, files)

\* A request is answered only once the mock serves, by one of its routes.
RequestInPlace ==
    at # Idle =>
        /\ phase \notin {"new", "refused"}
        /\ at.route \in 1 .. Len(routes) /\ at.step \in Nat \ {0}
        /\ at = [req |-> at.req, route |-> at.route, step |-> at.step, seen |-> at.seen]

\* What was answered by the mock itself after it was dropped is a request that had not been
\* answered then, or came later; the one that is being answered is such a request.
DroppedKnew ==
    /\ checked \in Int
    /\ phase = "dropped" =>
          /\ checked <= sent
          /\ at # Idle => checked < sent
          /\ \A r \in wrong : r > checked

MockInv == /\ loaded \in Cassettes
           /\ ProblemsTyped
           /\ WrongIsTold
           /\ RoutesChecked
           /\ RequestInPlace
           /\ DroppedKnew
           /\ FixedAnswers

\* The definitions of a cassette that is loaded, and the routes that are registered.
LEMMA LoadedTypes ==
    ASSUME loaded \in Cassettes
    PROVE  /\ Definitions(loaded)
           /\ \A d \in ToSet(loaded) :
                 /\ d.chain \in Seq(ToSet(d.chain))
                 /\ \A h \in ToSet(d.chain) : IsFiniteSet(h.bodies)
BY MockAssumption DEF Definitions

\* While it serves, the routes are those of the cassette.
LEMMA ServingRoutes ==
    ASSUME MockInv, phase \notin {"new", "refused"}
    PROVE  /\ routes \in Seq(ToSet(loaded)) /\ Len(routes) \in Nat
           /\ \A k \in 1 .. Len(routes) : routes[k] \in ToSet(loaded)
<1>1. Definitions(loaded) /\ routes = Registered(loaded)
    BY LoadedTypes DEF MockInv, RoutesChecked
<1>2. routes \in Seq(ToSet(loaded))
    BY <1>1, RegisteredRoutes
<1> QED BY <1>2

\* The files only grow, so what is there stays there.
LEMMA ChecksStay ==
    ASSUME NEW d, NEW old, NEW more, old \subseteq more, CompileRoute(d, old)
    PROVE  CompileRoute(d, more)
BY DEF CompileRoute, FixedIsSound, KeyExists

\* It holds before the cassette is started.
LEMMA MockInvInit == MockInit => MockInv
BY DEF MockInit, MockInv, ProblemsTyped, Records, Kinds, WrongIsTold, RoutesChecked, RequestInPlace, DroppedKnew,
       FixedAnswers

\* What is recorded of an answer of the mock's own.
LEMMA Recording ==
    ASSUME ProblemsTyped, WrongIsTold, FixedAnswers, DroppedKnew, NEW k \in Kinds,
           Unanswered(k, FALSE), at # Idle, UNCHANGED <<phase, sent, checked>>
    PROVE  ProblemsTyped' /\ WrongIsTold' /\ FixedAnswers' /\ DroppedKnew' /\ at' = Idle
<1> DEFINE record == [kind |-> k, req |-> sent, fixed |-> FALSE]
<1>1. problems' = Append(problems, record) /\ wrong' = wrong \cup {sent} /\ at' = Idle
    BY DEF Unanswered, SharedFail
<1>2. record \in [kind : Kinds, req : Nat, fixed : BOOLEAN] /\ record.req = sent /\ ~ record.fixed
    BY DEF ProblemsTyped
<1> HIDE DEF record
<1>3. /\ problems' \in Records
      /\ Len(problems) \in Nat /\ Len(problems') = Len(problems) + 1
      /\ \A i \in 1 .. Len(problems) : problems'[i] = problems[i]
      /\ problems'[Len(problems')] = record
    BY <1>1, <1>2 DEF ProblemsTyped, Records
<1>4. WrongIsTold'
    <2>1. \A i \in 1 .. Len(problems) : i \in 1 .. Len(problems')
        BY <1>3
    <2>2. Len(problems') \in 1 .. Len(problems')
        BY <1>3
    <2> QED BY <1>1, <1>2, <1>3, <2>1, <2>2 DEF WrongIsTold
<1>5. FixedAnswers'
    BY <1>2, <1>3 DEF FixedAnswers
<1>6. DroppedKnew'
    BY <1>1 DEF DroppedKnew, ProblemsTyped
<1> QED BY <1>1, <1>3, <1>4, <1>5, <1>6 DEF ProblemsTyped

\* The same of an answer that is built from a response, for a request that is answered now.
LEMMA Building ==
    ASSUME ProblemsTyped, WrongIsTold, FixedAnswers, DroppedKnew, NEW b, NEW f, NEW table,
           Build(b, f, table, FALSE), at # Idle, UNCHANGED <<phase, sent, checked>>
    PROVE  ProblemsTyped' /\ WrongIsTold' /\ FixedAnswers' /\ DroppedKnew' /\ at' = Idle
<1>1. CASE Answered
    BY <1>1 DEF Answered, ProblemsTyped, WrongIsTold, FixedAnswers, DroppedKnew
<1>2. CASE Unanswered("InvalidResponse", FALSE)
    <2>1. "InvalidResponse" \in Kinds
        BY DEF Kinds
    <2> QED BY <1>2, <2>1, Recording
<1>3. CASE Unanswered("FileNotFound", FALSE)
    <2>1. "FileNotFound" \in Kinds
        BY DEF Kinds
    <2> QED BY <1>3, <2>1, Recording
<1> QED BY <1>1, <1>2, <1>3 DEF Build

\* A handler of the route that answers.
LEMMA HandlerChecked ==
    ASSUME MockInv, Answering
    PROVE  /\ phase \notin {"new", "refused"}
           /\ IsFiniteSet(Handler.bodies)
           /\ IsFixed(Handler) => FixedIsSound(Handler, files)
<1>1. phase \notin {"new", "refused"} /\ at.route \in 1 .. Len(routes) /\ at.step \in Nat \ {0}
    BY DEF MockInv, RequestInPlace, Answering
<1> DEFINE d == routes[at.route]
<1>2. d \in ToSet(loaded) /\ loaded \in Cassettes
    BY <1>1, ServingRoutes DEF MockInv
<1>3. d.chain \in Seq(ToSet(d.chain)) /\ \A h \in ToSet(d.chain) : IsFiniteSet(h.bodies)
    BY <1>2, LoadedTypes
<1>4. at.step <= Len(d.chain)
    BY DEF Answering
<1>5. CompileRoute(d, files)
    BY <1>1, <1>2 DEF MockInv, RoutesChecked
<1>6. Handler = d.chain[at.step]
    BY DEF Handler
<1> HIDE DEF d
<1>7. Handler \in ToSet(d.chain)
    <2>1. at.step \in 1 .. Len(d.chain)
        BY <1>1, <1>3, <1>4, Elements
    <2> QED BY <1>3, <1>6, <2>1, Elements
<1> QED BY <1>1, <1>3, <1>5, <1>7 DEF CompileRoute

\* Nothing that the invariant speaks of changes.
LEMMA QuietKeeps ==
    ASSUME MockInv, UNCHANGED <<phase, loaded, routes, files, problems, at, sent, wrong, checked>>
    PROVE  MockInv'
<1>1. RoutesChecked'
    BY DEF MockInv, RoutesChecked
<1>2. RequestInPlace'
    BY DEF MockInv, RequestInPlace, Idle
<1> QED BY <1>1, <1>2 DEF MockInv, ProblemsTyped, WrongIsTold, DroppedKnew, FixedAnswers

\* A request is received: the scripts that throw are told, and the request is answered by a
\* route or, when there is none, with a problem.
LEMMA ReceiveKeeps ==
    ASSUME MockInv, NEW q, Receive(q)
    PROVE  MockInv'
<1> DEFINE c == Chosen(routes, q, state)
           thrown == SetToSeq(Throws(routes, q, state))
           told == problems \o [i \in 1 .. Len(thrown) |->
                                   [kind |-> "MatchScriptFailed", req |-> sent', fixed |-> FALSE]]
           none == [kind |-> "NoRoute", req |-> sent', fixed |-> FALSE]
<1>1. /\ phase \notin {"new", "refused"} /\ at = Idle /\ sent' = sent + 1
      /\ UNCHANGED <<phase, loaded, routes, state, files, updates, kept, checked>>
      /\ \/ c = 0 /\ problems' = Append(told, none) /\ wrong' = wrong \cup {sent'} /\ at' = at
         \/ c # 0 /\ problems' = told /\ wrong' = wrong
            /\ at' = [req |-> sent', route |-> c, step |-> 1, seen |-> state]
    BY DEF Receive
<1>2. Len(thrown) \in Nat
    <2>1. Throws(routes, q, state) \in SUBSET (1 .. Len(routes))
        BY DEF Throws, Tried
    <2> QED BY <1>1, <2>1, ServingRoutes, Listed
<1>3. c \in 0 .. Len(routes)
    <2>1. /\ Definitions(loaded) /\ NoConflicts(loaded) /\ routes = Registered(loaded)
        BY <1>1, LoadedTypes DEF MockInv, RoutesChecked
    <2> HIDE DEF thrown, told
    <2> QED BY <2>1, RegisteredRoutes, RouteChosen
<1> HIDE DEF c, thrown
<1>4. /\ sent' \in Nat /\ none \in [kind : Kinds, req : Nat, fixed : BOOLEAN]
      /\ [kind |-> "MatchScriptFailed", req |-> sent', fixed |-> FALSE] \in [kind : Kinds, req : Nat, fixed : BOOLEAN]
    BY <1>1 DEF MockInv, ProblemsTyped, Kinds
<1>5. problems \in Records /\ Len(problems) \in Nat
    BY DEF MockInv, ProblemsTyped, Records
<1>6. /\ told \in Records /\ Len(told) = Len(problems) + Len(thrown)
      /\ \A i \in 1 .. Len(problems) : told[i] = problems[i]
      /\ \A i \in 1 .. Len(told) : i > Len(problems) => ~ told[i].fixed
    <2> DEFINE more == [i \in 1 .. Len(thrown) |-> [kind |-> "MatchScriptFailed", req |-> sent', fixed |-> FALSE]]
    <2>1. more \in Records /\ Len(more) = Len(thrown) /\ \A i \in 1 .. Len(thrown) : ~ more[i].fixed
        BY <1>2, <1>4 DEF Records
    <2>2. told = problems \o more
        OBVIOUS
    <2> HIDE DEF more, told
    <2>3. told \in Records /\ Len(told) = Len(problems) + Len(more)
        BY <1>5, <2>1, <2>2 DEF Records
    <2>4. \A i \in 1 .. Len(told) : told[i] = IF i <= Len(problems) THEN problems[i] ELSE more[i - Len(problems)]
        BY <1>5, <2>1, <2>2, ConcatProperties DEF Records
    <2>5. \A i \in 1 .. Len(problems) : i \in 1 .. Len(told) /\ i <= Len(problems)
        BY <1>2, <1>5, <2>1, <2>3
    <2>6. \A i \in 1 .. Len(told) : i > Len(problems) => i - Len(problems) \in 1 .. Len(thrown) /\ ~ (i <= Len(problems))
        BY <1>2, <1>5, <2>1, <2>3
    <2> QED BY <2>1, <2>3, <2>4, <2>5, <2>6
<1> HIDE DEF told
<1>7. \A i \in 1 .. Len(told) : ~ told[i].fixed
    <2> SUFFICES ASSUME NEW i \in 1 .. Len(told) PROVE ~ told[i].fixed
        OBVIOUS
    <2>1. CASE i <= Len(problems)
        BY <1>2, <1>5, <1>6, <2>1 DEF MockInv, FixedAnswers
    <2>2. CASE i > Len(problems)
        BY <1>6, <2>2
    <2> QED BY <1>5, <2>1, <2>2
<1>8. \A r \in wrong : \E i \in 1 .. Len(told) : told[i].req = r
    <2> SUFFICES ASSUME NEW r \in wrong PROVE \E i \in 1 .. Len(told) : told[i].req = r
        OBVIOUS
    <2>1. PICK i \in 1 .. Len(problems) : problems[i].req = r
        BY DEF MockInv, WrongIsTold
    <2>2. i \in 1 .. Len(told)
        BY <1>2, <1>5, <1>6
    <2> QED BY <1>6, <2>1, <2>2
<1>9. /\ problems' \in Records /\ WrongIsTold' /\ FixedAnswers'
    <2>1. CASE c # 0
        BY <1>1, <1>6, <1>7, <1>8, <2>1 DEF WrongIsTold, FixedAnswers
    <2>2. CASE c = 0
        <3>1. /\ problems' = Append(told, none) /\ wrong' = wrong \cup {sent'}
            BY <1>1, <2>2
        <3>2. none.req = sent' /\ ~ none.fixed
            OBVIOUS
        <3> HIDE DEF none
        <3>3. /\ problems' \in Records /\ Len(told) \in Nat /\ Len(problems') = Len(told) + 1
              /\ \A i \in 1 .. Len(told) : problems'[i] = told[i]
              /\ problems'[Len(problems')] = none
            BY <1>4, <1>6, <3>1 DEF Records
        <3>4. \A i \in 1 .. Len(told) : i \in 1 .. Len(problems')
            BY <3>3
        <3>5. \A i \in 1 .. Len(problems') : i = Len(problems') \/ i \in 1 .. Len(told)
            BY <3>3
        <3>6. Len(problems') \in 1 .. Len(problems')
            BY <3>3
        <3>7. WrongIsTold'
            BY <1>8, <3>1, <3>2, <3>3, <3>4, <3>6 DEF WrongIsTold
        <3>8. FixedAnswers'
            BY <1>7, <3>2, <3>3, <3>5 DEF FixedAnswers
        <3> QED BY <3>3, <3>7, <3>8
    <2> QED BY <2>1, <2>2
<1>10. RequestInPlace'
    <2>1. Len(routes) \in Nat
        BY <1>1, ServingRoutes
    <2>2. CASE c # 0
        BY <1>1, <1>3, <2>1, <2>2 DEF RequestInPlace
    <2>3. CASE c = 0
        BY <1>1, <2>3 DEF MockInv, RequestInPlace, Idle
    <2> QED BY <2>2, <2>3
<1>11. RoutesChecked'
    BY <1>1 DEF MockInv, RoutesChecked
<1>12. DroppedKnew' /\ loaded' \in Cassettes /\ ProblemsTyped'
    BY <1>1, <1>4, <1>9 DEF MockInv, DroppedKnew, ProblemsTyped
<1> QED BY <1>9, <1>10, <1>11, <1>12 DEF MockInv

\* Every step keeps it.
LEMMA MockInvNext ==
    ASSUME MockInv, [MockNext]_mockVars
    PROVE  MockInv'
<1>1. CASE Start
    <2>1. /\ UNCHANGED <<loaded, state, files, problems, at, sent, updates, kept, wrong, checked>>
          /\ phase = "new"
          /\ \/ phase' = "refused"
             \/ phase' = "serving" /\ routes' = Registered(loaded) /\ Starts(loaded, files)
        BY <1>1 DEF Start
    <2>2. at = Idle
        BY <2>1 DEF MockInv, RequestInPlace
    <2>3. RoutesChecked'
        BY <2>1 DEF RoutesChecked, Starts
    <2>4. RequestInPlace'
        BY <2>1, <2>2 DEF RequestInPlace, Idle
    <2> QED BY <2>1, <2>3, <2>4 DEF MockInv, ProblemsTyped, WrongIsTold, DroppedKnew, FixedAnswers
<1>2. CASE RunFixed
    <2>1. Answering /\ IsFixed(Handler) /\ Build(Handler.bodies, Handler.file, files, TRUE)
          /\ UNCHANGED <<phase, loaded, routes, calls, sent, updates, checked, state, files, kept>>
        BY <1>2 DEF RunFixed, Server
    <2>2. phase \notin {"new", "refused"} /\ IsFiniteSet(Handler.bodies) /\ FixedIsSound(Handler, files)
        BY <2>1, HandlerChecked
    <2>3. ~ (Cardinality(Handler.bodies) > 1)
        <3>1. Cardinality(Handler.bodies) \in Nat
            BY <2>2, FS_CardinalityType
        <3>2. Cardinality(Handler.bodies) <= 1
            BY <2>2 DEF FixedIsSound
        <3> QED BY <3>1, <3>2
    <2>4. Answered
        <3>1. ~ ("body_file" \in Handler.bodies /\ ~ KeyExists(Handler.file, files))
            BY <2>2 DEF FixedIsSound
        <3> QED BY <2>1, <2>3, <3>1 DEF Build
    <2>5. at' = Idle /\ problems' = problems /\ wrong' = wrong
        BY <2>4 DEF Answered
    <2>6. RoutesChecked' /\ RequestInPlace'
        BY <2>1, <2>5 DEF MockInv, RoutesChecked, RequestInPlace, Idle
    <2> QED BY <2>1, <2>5, <2>6 DEF MockInv, ProblemsTyped, WrongIsTold, DroppedKnew, FixedAnswers
<1>3. CASE RunScript
    <2> DEFINE h == Handler
    <2>1. /\ Answering /\ files \subseteq files'
          /\ UNCHANGED <<phase, loaded, routes, calls, sent, updates, checked>>
          /\ \/ Unanswered("ScriptFailed", FALSE)
             \/ at' = [at EXCEPT !.step = @ + 1] /\ UNCHANGED <<problems, wrong>>
             \/ Unanswered("InvalidResponse", FALSE)
             \/ Build(h.bodies, h.file, files', FALSE)
        BY <1>3 DEF RunScript, Server
    <2> HIDE DEF h
    <2>2. phase \notin {"new", "refused"} /\ at # Idle
        BY <2>1, HandlerChecked DEF Answering
    <2>3. RoutesChecked'
        BY <2>1, ChecksStay DEF MockInv, RoutesChecked
    <2>4. CASE at' = [at EXCEPT !.step = @ + 1] /\ UNCHANGED <<problems, wrong>>
        <3>1. RequestInPlace'
            BY <2>1, <2>2, <2>4 DEF MockInv, RequestInPlace
        <3>2. DroppedKnew'
            BY <2>1, <2>2, <2>4 DEF MockInv, DroppedKnew
        <3> QED BY <2>1, <2>3, <2>4, <3>1, <3>2 DEF MockInv, ProblemsTyped, WrongIsTold, FixedAnswers
    <2>5. CASE ~ (at' = [at EXCEPT !.step = @ + 1] /\ UNCHANGED <<problems, wrong>>)
        <3>1. ProblemsTyped /\ WrongIsTold /\ FixedAnswers /\ DroppedKnew /\ UNCHANGED <<phase, sent, checked>>
              /\ "ScriptFailed" \in Kinds /\ "InvalidResponse" \in Kinds
            BY <2>1 DEF MockInv, Kinds
        <3>2. ProblemsTyped' /\ WrongIsTold' /\ FixedAnswers' /\ DroppedKnew' /\ at' = Idle
            <4>1. CASE Unanswered("ScriptFailed", FALSE)
                BY <2>2, <3>1, <4>1, Recording
            <4>2. CASE Unanswered("InvalidResponse", FALSE)
                BY <2>2, <3>1, <4>2, Recording
            <4>3. CASE Build(h.bodies, h.file, files', FALSE)
                BY <2>2, <3>1, <4>3, Building
            <4> QED BY <2>1, <2>5, <4>1, <4>2, <4>3
        <3>3. RequestInPlace'
            BY <3>2 DEF RequestInPlace, Idle
        <3> QED BY <2>1, <2>2, <2>3, <3>2, <3>3 DEF MockInv
    <2> QED BY <2>4, <2>5
<1>4. CASE ChainEnds
    <2>1. /\ at # Idle /\ Unanswered("NoResponse", FALSE)
          /\ UNCHANGED <<phase, loaded, routes, calls, sent, updates, checked, state, files, kept>>
        BY <1>4 DEF ChainEnds, Server
    <2>2. "NoResponse" \in Kinds /\ ProblemsTyped /\ WrongIsTold /\ FixedAnswers /\ DroppedKnew
        BY <2>1 DEF Kinds, MockInv, RequestInPlace
    <2>3. ProblemsTyped' /\ WrongIsTold' /\ FixedAnswers' /\ DroppedKnew' /\ at' = Idle
        BY <2>1, <2>2, Recording
    <2>4. RoutesChecked' /\ RequestInPlace'
        BY <2>1, <2>3 DEF MockInv, RoutesChecked, RequestInPlace, Idle
    <2> QED BY <2>1, <2>2, <2>3, <2>4 DEF MockInv
<1>5. CASE UpdateState \/ SetState
    <2>1. /\ UNCHANGED <<phase, loaded, routes, files, problems, calls, at, sent, wrong, checked>>
        BY <1>5 DEF UpdateState, SetState, Serving
    <2> QED BY <2>1, QuietKeeps
<1>6. CASE TakeProblems
    <2>1. /\ phase = "serving" /\ problems' = << >> /\ wrong' = {}
          /\ UNCHANGED <<phase, loaded, routes, files, at, sent, checked>>
        BY <1>6 DEF TakeProblems, Serving
    <2>2. RoutesChecked' /\ RequestInPlace'
        BY <2>1 DEF MockInv, RoutesChecked, RequestInPlace, Idle
    <2> QED BY <2>1, <2>2 DEF MockInv, ProblemsTyped, Records, WrongIsTold, DroppedKnew, FixedAnswers
<1>7. CASE Check
    <2>1. /\ phase = "serving"
          /\ (problems = << >> /\ phase' = "dropped") \/ phase' = "panicked"
          /\ checked' = IF at = Idle THEN sent ELSE sent - 1
          /\ UNCHANGED <<loaded, routes, files, problems, at, sent, wrong>>
        BY <1>7 DEF Check, Serving
    <2>2. RoutesChecked' /\ RequestInPlace'
        BY <2>1 DEF MockInv, RoutesChecked, RequestInPlace, Idle
    <2>3. sent \in Nat /\ checked' \in Int /\ checked' <= sent /\ (at # Idle => checked' < sent)
        BY <2>1 DEF MockInv, ProblemsTyped
    <2>4. phase' = "dropped" => wrong = {}
        \* There are no problems, and what was answered wrongly is among them.
        <3>1. Len(<< >>) = 0
            OBVIOUS
        <3> QED BY <2>1, <3>1 DEF MockInv, WrongIsTold
    <2>5. DroppedKnew'
        BY <2>1, <2>3, <2>4 DEF DroppedKnew, Idle
    <2> QED BY <2>1, <2>2, <2>5 DEF MockInv, ProblemsTyped, WrongIsTold, FixedAnswers
<1>8. ASSUME NEW q, Receive(q) PROVE MockInv'
    BY <1>8, ReceiveKeeps
<1>9. ASSUME NEW p, SetFile(p) PROVE MockInv'
    <2>1. /\ files \subseteq files'
          /\ UNCHANGED <<phase, loaded, routes, problems, at, sent, wrong, checked>>
        BY <1>9 DEF SetFile, Serving
    <2>2. RoutesChecked'
        BY <2>1, ChecksStay DEF MockInv, RoutesChecked
    <2>3. RequestInPlace'
        BY <2>1 DEF MockInv, RequestInPlace, Idle
    <2> QED BY <2>1, <2>2, <2>3 DEF MockInv, ProblemsTyped, WrongIsTold, DroppedKnew, FixedAnswers
<1>10. CASE UNCHANGED mockVars
    BY <1>10, QuietKeeps DEF mockVars
<1> QED BY <1>1, <1>2, <1>3, <1>4, <1>5, <1>6, <1>7, <1>8, <1>9, <1>10 DEF MockNext

\* Whatever is registered, the order in which it was loaded does not decide which route answers.
LEMMA RoutesByRequest ==
    ASSUME MockInv
    PROVE  RouteByRequestAlone
<1> SUFFICES ASSUME phase = "serving", NEW q, NEW s,
                    NEW p \in [1 .. Len(loaded) -> 1 .. Len(loaded)], IsInjective(p)
             PROVE  LET order == Registered([i \in 1 .. Len(loaded) |-> loaded[p[i]]])
                        a == Chosen(routes, q, s)  b == Chosen(order, q, s)
                    IN (a = 0 /\ b = 0) \/ (a # 0 /\ b # 0 /\ routes[a] = order[b])
    BY DEF RouteByRequestAlone
<1> DEFINE other == [i \in 1 .. Len(loaded) |-> loaded[p[i]]]
           order == Registered(other)
           a == Chosen(routes, q, s)
           b == Chosen(order, q, s)
           match == {d \in ToSet(loaded) : Declared(d, q) /\ Scripted(d, s)}
<1>1. Definitions(loaded) /\ NoConflicts(loaded) /\ routes = Registered(loaded)
    BY LoadedTypes DEF MockInv, RoutesChecked
<1>2. Definitions(other) /\ ToSet(other) = ToSet(loaded)
    BY <1>1, Reordered
<1> HIDE DEF other
<1>3. /\ order \in Seq(ToSet(loaded)) /\ ToSet(order) = ToSet(loaded)
      /\ \A k, m \in 1 .. Len(order) : k < m /\ order[m].literal => order[k].literal
    BY <1>2, RegisteredRoutes
<1>4. /\ routes \in Seq(ToSet(loaded)) /\ ToSet(routes) = ToSet(loaded)
      /\ \A k, m \in 1 .. Len(routes) : k < m /\ routes[m].literal => routes[k].literal
    BY <1>1, RegisteredRoutes
<1> HIDE DEF order
<1>5. /\ a = 0 <=> match = {}
      /\ a # 0 => \A d \in match : /\ routes[a] \in match
                                   /\ (d.literal => routes[a].literal)
                                   /\ (d.literal = routes[a].literal => d = routes[a])
    BY <1>1, <1>4, RouteChosen
<1>6. /\ b = 0 <=> match = {}
      /\ b # 0 => \A d \in match : /\ order[b] \in match
                                   /\ (d.literal => order[b].literal)
                                   /\ (d.literal = order[b].literal => d = order[b])
    BY <1>1, <1>3, RouteChosen
<1> HIDE DEF a, b
<1>7. ASSUME match # {} PROVE a # 0 /\ b # 0 /\ routes[a] = order[b]
    <2>1. PICK d \in match : TRUE
        BY <1>7
    <2>2. a # 0 /\ b # 0 /\ routes[a] \in match /\ order[b] \in match
        BY <1>5, <1>6, <2>1
    <2>3. routes[a].literal \in BOOLEAN /\ order[b].literal \in BOOLEAN
        BY <1>1, <2>2 DEF Definitions
    <2> QED BY <1>5, <1>6, <2>2, <2>3
<1>8. (a = 0 /\ b = 0) \/ (a # 0 /\ b # 0 /\ routes[a] = order[b])
    BY <1>5, <1>6, <1>7
<1> QED BY <1>8 DEF a, b, order, other

\* The invariant, for every cassette whose routes are of the types of the code.
LEMMA MockInvariant ==
    MockSpec => []MockInv
<1>1. MockInv /\ [MockNext]_mockVars => MockInv'
    BY MockInvNext
<1> QED BY <1>1, MockInvInit, PTL DEF MockSpec

\* What start checked holds for as long as the mock serves: the order of loading does not decide
\* which route answers, and no fixed response fails for its fields or its file.
THEOREM StartChecksHoldCorrect ==
    MockSpec => []StartChecksHold
<1>1. MockInv => StartChecksHold
    BY RoutesByRequest DEF MockInv, StartChecksHold
<1> QED BY <1>1, MockInvariant, PTL

\* An answer of the mock's own is told until the test takes it, and a mock that is dropped without
\* a panic had given none: what it keeps to itself is what it answers after that.
THEOREM DropTellsCorrect ==
    MockSpec => []DropTells
<1>1. MockInv => DropTells
    BY DEF MockInv, WrongIsTold, DroppedKnew, DropTells
<1> QED BY <1>1, MockInvariant, PTL

\* Scripts and the test change one state in turns, and neither overwrites what the other did.
THEOREM NoUpdateLostCorrect == MockSpec => []NoUpdateLost
<1>1. MockInit => NoUpdateLost
    BY DEF MockInit, NoUpdateLost
<1>2. NoUpdateLost /\ [MockNext]_mockVars => NoUpdateLost'
    <2> SUFFICES ASSUME NoUpdateLost, [MockNext]_mockVars PROVE NoUpdateLost'
        OBVIOUS
    <2> USE DEF NoUpdateLost
    <2>1. CASE Start
        BY <2>1 DEF Start
    <2>2. CASE RunScript
        BY <2>2 DEF RunScript, ScriptState
    <2>3. CASE RunFixed
        BY <2>3 DEF RunFixed
    <2>4. CASE ChainEnds
        BY <2>4 DEF ChainEnds
    <2>5. CASE UpdateState
        BY <2>5 DEF UpdateState
    <2>6. CASE SetState
        BY <2>6 DEF SetState
    <2>7. CASE TakeProblems
        BY <2>7 DEF TakeProblems
    <2>8. CASE Check
        BY <2>8 DEF Check
    <2>9. ASSUME NEW q, Receive(q) PROVE NoUpdateLost'
        BY <2>9 DEF Receive
    <2>10. ASSUME NEW p, SetFile(p) PROVE NoUpdateLost'
        BY <2>10 DEF SetFile
    <2>11. CASE UNCHANGED mockVars
        BY <2>11 DEF mockVars
    <2> QED BY <2>1, <2>2, <2>3, <2>4, <2>5, <2>6, <2>7, <2>8, <2>9, <2>10, <2>11 DEF MockNext
<1> QED BY <1>1, <1>2, PTL DEF MockSpec
=============================================================================

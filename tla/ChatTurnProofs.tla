---------------------------- MODULE ChatTurnProofs ----------------------------
(***************************************************************************)
(* Theorems about ChatTurn for any kinds of messages, any number of        *)
(* attempts and any length of an exchange: types, a retry loses nothing,   *)
(* a response without an error is whole, and the surfaces agree.           *)
(***************************************************************************)
EXTENDS ChatTurn, TLAPS

USE DEF turnVars, attemptVars

\* The instance has the operators on messages of module StreamMessages.
LEMMA SameMessages ==
  /\ Exchange!Message = Message
  /\ Exchange!NoResult = NoResult
  /\ \A m : Exchange!Answerable(m) <=> Answerable(m)
  /\ \A m : Exchange!EndsCleanly(m) <=> EndsCleanly(m)
  /\ \A m : Exchange!EndsInError(m) <=> EndsInError(m)
  /\ \A r, i, m : Exchange!Fold(r, i, m) = Fold(r, i, m)
BY DEF Exchange!Message, Message, Exchange!NoResult, NoResult,
       Exchange!Answerable, Answerable, Exchange!BlobKinds, BlobKinds, Exchange!ExecKinds, ExecKinds,
       Exchange!EndsCleanly, EndsCleanly, Exchange!EndsInError, EndsInError,
       Exchange!EndKinds, EndKinds, Exchange!Fold, Fold, Exchange!IsUpdate, IsUpdate,
       Exchange!UpdateKinds, UpdateKinds, Exchange!IsCaptured, IsCaptured

Result == [updates : SUBSET Nat, toolRequests : SUBSET Nat, checkpoint : Nat]

\* The current attempt, conjunct by conjunct.
AttemptOK ==
  /\ sent \in Seq(Message) /\ Len(sent) <= MaxMessages
  /\ handled \in 0..Len(sent)
  /\ owed \in BOOLEAN
  /\ answered \subseteq Nat
  /\ result \in Result
  /\ outcome \in {"running", "ok", "error"}

\* The turn around it.
TurnOK ==
  /\ phase \in {"exchange", "backoff", "respond", "answered"}
  /\ attempt \in 1..MaxAttempts
  /\ failure \in Failures
  /\ callerDone \in BOOLEAN
  /\ observed \subseteq (1..MaxAttempts) \X (1..MaxMessages)
  /\ response \in Response
  /\ phase = "backoff" => attempt < MaxAttempts

\* The result is what the messages taken so far make of it, and all that the
\* turn has observed.
ResultOK ==
  /\ result.updates = {i \in 1..handled : IsUpdate(sent[i])}
  /\ result.toolRequests = {i \in 1..handled : IsCaptured(sent[i])}
  /\ observed = {<<attempt, i>> : i \in result.updates \cup result.toolRequests}

\* The turn goes on only when the attempt has ended, to another attempt only
\* when it produced nothing, and is answered with what it was.
PhaseOK ==
  /\ phase # "exchange" => outcome # "running"
  /\ phase = "backoff" => ~Produced(result)
  /\ phase = "answered" => response = Respond

Inv == AttemptOK /\ TurnOK /\ ResultOK /\ PhaseOK

LEMMA InvTypeOK == Inv => TypeOK
BY SameMessages DEF Inv, AttemptOK, TurnOK, TypeOK, Exchange!TypeOK, Result

LEMMA NothingYet ==
  /\ NoResult \in Result /\ NoResult.updates = {} /\ NoResult.toolRequests = {}
  /\ NoResponse \in Response
BY DEF NoResult, Result, NoResponse, Response

LEMMA InitInv == Init => Inv
<1> SUFFICES ASSUME Init PROVE Inv
  OBVIOUS
<1>1. AttemptOK
  <2>1. /\ sent = <<>> /\ handled = 0 /\ owed = FALSE /\ answered = {}
        /\ result = NoResult /\ outcome = "running"
    BY SameMessages DEF Init, Exchange!Init
  <2>2. sent \in Seq(Message) /\ Len(sent) = 0 /\ answered \subseteq Nat
    BY <2>1
  <2>3. Len(sent) <= MaxMessages /\ handled \in 0..Len(sent)
    BY <2>1, <2>2, MaxMessagesAssumption
  <2> QED
    BY <2>1, <2>2, <2>3, NothingYet DEF AttemptOK
<1>2. TurnOK
  <2>1. attempt \in 1..MaxAttempts
    BY MaxAttemptsAssumption DEF Init
  <2>2. observed \subseteq (1..MaxAttempts) \X (1..MaxMessages)
    BY DEF Init
  <2>3. response \in Response
    BY NothingYet DEF Init
  <2> QED
    BY <2>1, <2>2, <2>3 DEF Init, TurnOK, Failures
<1>3. ResultOK
  BY SameMessages, NothingYet DEF Init, Exchange!Init, ResultOK
<1>4. PhaseOK
  BY DEF Init, PhaseOK
<1> QED
  BY <1>1, <1>2, <1>3, <1>4 DEF Inv

\* Respond makes a response, and one that failed has no choices.
LEMMA RespondType ==
  ASSUME AttemptOK
  PROVE  /\ Respond \in Response
         /\ Respond.failed => Respond.text = {} /\ Respond.toolCalls = {}
<1>1. Text \subseteq Nat /\ ToolCalls \subseteq Nat
  BY DEF Text, ToolCalls, OfKind, AttemptOK, Result
<1> HIDE DEF Text, ToolCalls, TranslationFailed
<1> QED
  BY <1>1 DEF Respond, Response

LEMMA SendStep ==
  ASSUME Inv, NEW m \in Messages, ServerSends(m)
  PROVE  Inv'
<1>1. m \in Message
  BY DEF Messages
<1>2. /\ sent' = Append(sent, m) /\ Len(sent) < MaxMessages
      /\ UNCHANGED <<handled, owed, answered, result, outcome, turnVars>>
      /\ phase = "exchange"
  BY DEF ServerSends, Exchange!ServerSends
<1>3. /\ sent' \in Seq(Message) /\ Len(sent') = Len(sent) + 1
      /\ \A i \in 1..handled : sent'[i] = sent[i]
  BY <1>1, <1>2 DEF Inv, AttemptOK
<1>4. AttemptOK'
  BY <1>2, <1>3, MaxMessagesAssumption DEF Inv, AttemptOK
<1>5. TurnOK' /\ PhaseOK'
  BY <1>2 DEF Inv, TurnOK, PhaseOK
<1>6. ResultOK'
  BY <1>2, <1>3 DEF Inv, ResultOK
<1> QED
  BY <1>4, <1>5, <1>6 DEF Inv

LEMMA TakeStep == Inv /\ Take => Inv'
<1> SUFFICES ASSUME Inv, Take PROVE Inv'
  OBVIOUS
<1> DEFINE i == handled + 1
           m == sent[i]
<1>1. /\ phase = "exchange" /\ outcome = "running" /\ handled < Len(sent)
      /\ handled' = i /\ result' = Fold(result, i, m)
      /\ owed' = Answerable(m)
      /\ outcome' \in {"running", "ok", "error"}
      /\ failure' = FailureOf(m)
      /\ observed' = IF IsUpdate(m) \/ IsCaptured(m) THEN observed \cup {<<attempt, i>>}
                                                     ELSE observed
      /\ UNCHANGED <<sent, answered, phase, attempt, callerDone, response>>
  <2>1. /\ phase = "exchange" /\ Exchange!Take /\ failure' = FailureOf(m)
        /\ observed' = IF IsUpdate(m) \/ IsCaptured(m) THEN observed \cup {<<attempt, i>>}
                                                       ELSE observed
        /\ UNCHANGED <<phase, attempt, callerDone, response>>
    BY DEF Take
  <2>2. /\ outcome = "running" /\ handled < Len(sent)
        /\ handled' = i /\ result' = Exchange!Fold(result, i, m)
        /\ owed' = Exchange!Answerable(m)
        /\ outcome' \in {"running", "ok", "error"}
        /\ UNCHANGED <<sent, answered>>
    BY <2>1 DEF Exchange!Take
  <2>3. Exchange!Fold(result, i, m) = Fold(result, i, m)
    BY SameMessages
  <2>4. Exchange!Answerable(m) = Answerable(m)
    BY DEF Exchange!Answerable, Answerable, Exchange!BlobKinds, BlobKinds,
           Exchange!ExecKinds, ExecKinds
  <2> QED
    BY <2>1, <2>2, <2>3, <2>4
<1>2. /\ i \in Nat /\ i \in 1..Len(sent) /\ i \in 1..MaxMessages
  BY <1>1, MaxMessagesAssumption DEF Inv, AttemptOK
<1>3. 1..i = (1..handled) \cup {i}
  BY <1>2 DEF Inv, AttemptOK
<1>4. /\ result'.updates = result.updates \cup (IF IsUpdate(m) THEN {i} ELSE {})
      /\ result'.toolRequests = result.toolRequests \cup (IF IsCaptured(m) THEN {i} ELSE {})
      /\ result' \in Result
  BY <1>1, <1>2 DEF Fold, Inv, AttemptOK, Result
<1>5. AttemptOK'
  BY <1>1, <1>2, <1>4 DEF Inv, AttemptOK, Answerable
<1>6. TurnOK'
  BY <1>1, <1>2 DEF Inv, TurnOK, FailureOf, Failures
<1>7. ResultOK'
  <2>1. result'.updates = {k \in 1..i : IsUpdate(sent[k])}
    BY <1>3, <1>4 DEF Inv, ResultOK
  <2>2. result'.toolRequests = {k \in 1..i : IsCaptured(sent[k])}
    BY <1>3, <1>4 DEF Inv, ResultOK
  <2>3. observed' = {<<attempt, k>> : k \in result'.updates \cup result'.toolRequests}
    BY <1>1, <1>4 DEF Inv, ResultOK
  <2> QED
    BY <1>1, <2>1, <2>2, <2>3 DEF ResultOK
<1>8. PhaseOK'
  BY <1>1 DEF PhaseOK
<1> QED
  BY <1>5, <1>6, <1>7, <1>8 DEF Inv

LEMMA NextStep == Inv /\ [Next]_vars => Inv'
<1> SUFFICES ASSUME Inv, [Next]_vars PROVE Inv'
  OBVIOUS
<1>1. ASSUME NEW m \in Messages, ServerSends(m) PROVE Inv'
  BY <1>1, SendStep
<1>2. CASE Take
  BY <1>2, TakeStep
<1>3. CASE Answer
  <2>1. /\ phase = "exchange" /\ owed' = FALSE /\ answered' = answered \cup {handled}
        /\ UNCHANGED <<sent, handled, result, outcome, turnVars>>
    BY <1>3 DEF Answer, Exchange!Answer
  <2>2. handled \in Nat
    BY DEF Inv, AttemptOK
  <2>3. AttemptOK'
    <3>1. answered' \subseteq Nat
      BY <2>1, <2>2 DEF Inv, AttemptOK
    <3> QED
      BY <2>1, <3>1 DEF Inv, AttemptOK
  <2> QED
    BY <2>1, <2>3 DEF Inv, TurnOK, ResultOK, PhaseOK
<1>4. ASSUME NEW why \in Failures \ {"none"}, Break(why) PROVE Inv'
  <2>1. /\ phase = "exchange" /\ outcome' = "error" /\ owed' = FALSE /\ failure' = why
        /\ UNCHANGED <<sent, handled, answered, result, phase, attempt, callerDone, observed,
                       response>>
    BY <1>4 DEF Break, Exchange!Break
  <2> QED
    BY <2>1 DEF Inv, AttemptOK, TurnOK, ResultOK, PhaseOK
<1>5. CASE CallerGivesUp
  <2>1. AttemptOK' /\ TurnOK' /\ ResultOK'
    BY <1>5 DEF CallerGivesUp, Inv, AttemptOK, TurnOK, ResultOK
  <2>2. PhaseOK'
    BY <1>5 DEF CallerGivesUp, Inv, PhaseOK
  <2> QED
    BY <2>1, <2>2 DEF Inv
<1>6. CASE AttemptEnds
  <2>1. /\ phase = "exchange" /\ outcome # "running" /\ phase' \in {"backoff", "respond"}
        /\ phase' = "backoff" => ~Produced(result) /\ attempt < MaxAttempts
        /\ UNCHANGED <<attempt, failure, callerDone, observed, response, attemptVars>>
    BY <1>6 DEF AttemptEnds, AttemptsLeft
  <2> QED
    BY <2>1 DEF Inv, AttemptOK, TurnOK, ResultOK, PhaseOK
<1>7. CASE NextAttempt
  <2>1. observed = {}
    BY <1>7 DEF NextAttempt, Inv, ResultOK, PhaseOK, Produced
  <2>2. AttemptOK'
    <3>1. /\ sent' = <<>> /\ handled' = 0 /\ owed' = FALSE /\ answered' = {}
          /\ result' = NoResult /\ outcome' = "running"
      BY <1>7 DEF NextAttempt
    <3>2. sent' \in Seq(Message) /\ Len(sent') = 0 /\ answered' \subseteq Nat
      BY <3>1
    <3>3. Len(sent') <= MaxMessages /\ handled' \in 0..Len(sent')
      BY <3>1, <3>2, MaxMessagesAssumption
    <3> QED
      BY <3>1, <3>2, <3>3, NothingYet DEF AttemptOK
  <2>3. TurnOK'
    BY <1>7, MaxAttemptsAssumption DEF NextAttempt, Inv, TurnOK, Failures
  <2>4. ResultOK'
    BY <1>7, <2>1, NothingYet DEF NextAttempt, ResultOK
  <2>5. PhaseOK'
    BY <1>7 DEF NextAttempt, PhaseOK
  <2> QED
    BY <2>2, <2>3, <2>4, <2>5 DEF Inv
<1>8. CASE AbandonBackoff
  <2>1. phase = "backoff" /\ phase' = "respond"
        /\ UNCHANGED <<attempt, failure, callerDone, observed, response, attemptVars>>
    BY <1>8 DEF AbandonBackoff
  <2> QED
    BY <2>1 DEF Inv, AttemptOK, TurnOK, ResultOK, PhaseOK
<1>9. CASE Run
  <2>1. /\ phase = "respond" /\ phase' = "answered" /\ response' = Respond
        /\ UNCHANGED <<attempt, failure, callerDone, observed, attemptVars>>
    BY <1>9 DEF Run
  <2>2. Respond' = Respond
    BY <2>1 DEF Respond, Text, ToolCalls, TranslationFailed, OfKind
  <2>3. TurnOK'
    BY <2>1, RespondType DEF Inv, TurnOK
  <2> QED
    BY <2>1, <2>2, <2>3 DEF Inv, AttemptOK, ResultOK, PhaseOK
<1>10. CASE UNCHANGED vars
  <2>1. Respond' = Respond
    BY <1>10 DEF vars, Respond, Text, ToolCalls, TranslationFailed, OfKind
  <2> QED
    BY <1>10, <2>1 DEF vars, Inv, AttemptOK, TurnOK, ResultOK, PhaseOK
<1> QED
  BY <1>1, <1>2, <1>3, <1>4, <1>5, <1>6, <1>7, <1>8, <1>9, <1>10 DEF Next, Answered

LEMMA Invariance == Spec => []Inv
BY InitInv, NextStep, PTL DEF Spec
-----------------------------------------------------------------------------
\* The turn and its current attempt keep their types.
THEOREM TypeCorrect == Spec => []TypeOK
BY InvTypeOK, Invariance, PTL

\* "a retry can never duplicate emitted content" (stream.go:169-172), nor
\* lose it, however many attempts there are.
THEOREM RetriesLoseNothing == Spec => []RetryLosesNothing
<1>1. Inv => RetryLosesNothing
  BY DEF Inv, ResultOK, RetryLosesNothing
<1> QED
  BY <1>1, Invariance, PTL

\* A response without an error is the whole of a turn that ended cleanly
\* (executor.go:58-64, 184-187).
THEOREM NothingIsTruncated == Spec => []NoSilentTruncation
<1>1. ASSUME Inv PROVE NoSilentTruncation
  <2> SUFFICES ASSUME phase = "answered", ~response.failed, response.error = "none"
               PROVE  /\ outcome = "ok"
                      /\ response.text = {i \in 1..handled : sent[i].kind = "text"}
                      /\ response.toolCalls =
                           {i \in 1..handled : sent[i].kind \in {"toolCall", "mcp", "native"}}
    BY DEF NoSilentTruncation
  <2>1. response = Respond /\ outcome \in {"ok", "error"}
    BY <1>1 DEF Inv, PhaseOK, AttemptOK
  <2>2. outcome = "ok" /\ ~TranslationFailed
    BY <2>1 DEF Respond
  <2>3. response.text = Text /\ response.toolCalls = ToolCalls
    BY <2>1, <2>2 DEF Respond
  <2>4. Text = {i \in 1..handled : sent[i].kind = "text"}
    BY <1>1 DEF Inv, ResultOK, Text, OfKind, IsUpdate, UpdateKinds
  <2>5. ToolCalls = {i \in 1..handled : sent[i].kind \in {"toolCall", "mcp", "native"}}
    BY <1>1 DEF Inv, ResultOK, ToolCalls, OfKind, IsUpdate, UpdateKinds, IsCaptured
  <2> QED
    BY <2>2, <2>3, <2>4, <2>5
<1> QED
  BY <1>1, Invariance, PTL

\* The chunks of a response carry all of it.
LEMMA ChunksCarry ==
  ASSUME NEW r \in Response, r.failed => r.text = {} /\ r.toolCalls = {}
  PROVE  LET chunks == Chunks(r)
             dom == DOMAIN chunks
         IN /\ UNION {chunks[k].text : k \in dom} = r.text
            /\ UNION {chunks[k].toolCalls : k \in dom} = r.toolCalls
            /\ {chunks[k].error : k \in dom} \cup {"none"} = {r.error, "none"}
            /\ (\E k \in dom : chunks[k].finish = "tool_calls") <=> r.toolCalls # {}
<1> DEFINE chunks == Chunks(r)
<1>1. CASE r.failed
  <2>1. /\ DOMAIN chunks = {1}
        /\ chunks[1] = [text |-> {}, toolCalls |-> {}, error |-> r.error, finish |-> "none"]
    BY <1>1 DEF Chunks
  <2> HIDE DEF chunks
  <2>2. /\ UNION {chunks[k].text : k \in DOMAIN chunks} = r.text
        /\ UNION {chunks[k].toolCalls : k \in DOMAIN chunks} = r.toolCalls
    BY <1>1, <2>1
  <2>3. /\ {chunks[k].error : k \in DOMAIN chunks} \cup {"none"} = {r.error, "none"}
        /\ (\E k \in DOMAIN chunks : chunks[k].finish = "tool_calls") <=> r.toolCalls # {}
    BY <1>1, <2>1
  <2> QED
    BY <2>2, <2>3 DEF chunks
<1>2. CASE ~r.failed
  <2>1. /\ DOMAIN chunks = {1, 2}
        /\ chunks[1] = [text |-> r.text, toolCalls |-> r.toolCalls, error |-> r.error,
                        finish |-> "none"]
        /\ chunks[2] = [text |-> {}, toolCalls |-> {}, error |-> "none",
                        finish |-> IF r.toolCalls # {} THEN "tool_calls" ELSE "stop"]
    BY <1>2 DEF Chunks
  <2> HIDE DEF chunks
  <2>2. /\ UNION {chunks[k].text : k \in DOMAIN chunks} = r.text
        /\ UNION {chunks[k].toolCalls : k \in DOMAIN chunks} = r.toolCalls
    BY <2>1
  <2>3. /\ {chunks[k].error : k \in DOMAIN chunks} \cup {"none"} = {r.error, "none"}
        /\ (\E k \in DOMAIN chunks : chunks[k].finish = "tool_calls") <=> r.toolCalls # {}
    BY <2>1
  <2> QED
    BY <2>2, <2>3 DEF chunks
<1> QED
  BY <1>1, <1>2

\* The streaming surface tells what the other one does (executor.go:51-64,
\* chatformat.go:199-205).
THEOREM SurfacesStayInAgreement == Spec => []SurfacesAgree
<1>1. ASSUME Inv PROVE SurfacesAgree
  <2> SUFFICES ASSUME phase = "answered" PROVE SurfacesAgree
    BY DEF SurfacesAgree
  <2>1. response \in Response /\ (response.failed => response.text = {} /\ response.toolCalls = {})
    BY <1>1, RespondType DEF Inv, PhaseOK, TurnOK
  <2> QED
    BY <2>1, ChunksCarry DEF SurfacesAgree
<1> QED
  BY <1>1, Invariance, PTL
=============================================================================

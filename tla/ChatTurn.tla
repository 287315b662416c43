------------------------------ MODULE ChatTurn ------------------------------
(***************************************************************************)
(* One chat-completions turn, from Executor.run to what the client gets:   *)
(* runCursorStream repeats the Run exchange while it dies of the           *)
(* connection before anything was produced (stream.go:173-225), the        *)
(* result is folded into a response (executor.go:148-193,                  *)
(* translate_response.go:38-124, 360-398) and, on the streaming surface,   *)
(* cut into chunks (chatformat.go:206-233).  Each attempt is an exchange   *)
(* as module StreamExchange promises it and RunExchange implements it.     *)
(***************************************************************************)
EXTENDS StreamMessages

CONSTANTS
  MaxMessages,   \* bound on the messages the server sends in one attempt
  MaxAttempts    \* maxStreamAttempts

ASSUME MaxMessagesAssumption == MaxMessages \in Nat
ASSUME MaxAttemptsAssumption == MaxAttempts \in Nat \ {0}

VARIABLES
  phase,      \* "exchange", "backoff", "respond" or "answered"
  attempt,    \* 1..MaxAttempts
  failure,    \* why the attempt ended in an error
  callerDone, \* the caller's context is done
  observed,   \* every update or tool request any attempt has received
  response,   \* what run returned
  sent, handled, owed, answered, result, outcome  \* the current attempt

turnVars == <<phase, attempt, failure, callerDone, observed, response>>
attemptVars == <<sent, handled, owed, answered, result, outcome>>
vars == <<turnVars, attemptVars>>

Exchange == INSTANCE StreamExchange

Failures == {"none", "connection", "other"}

\* A response: a hard error, or choices with the positions of the text and
\* of the tool calls they carry, and the error attached to them.
Response == [failed : BOOLEAN, text : SUBSET Nat, toolCalls : SUBSET Nat,
             error : {"none", "stream", "translation"}]

NoResponse == [failed |-> FALSE, text |-> {}, toolCalls |-> {}, error |-> "none"]

TypeOK ==
  /\ Exchange!TypeOK
  /\ phase \in {"exchange", "backoff", "respond", "answered"}
  /\ attempt \in 1..MaxAttempts
  /\ failure \in Failures
  /\ callerDone \in BOOLEAN
  /\ observed \subseteq (1..MaxAttempts) \X (1..MaxMessages)
  /\ response \in Response

Init ==
  /\ Exchange!Init
  /\ phase = "exchange"
  /\ attempt = 1
  /\ failure = "none"
  /\ callerDone = FALSE
  /\ observed = {}
  /\ response = NoResponse
-----------------------------------------------------------------------------
(* The current attempt.                                                    *)

ServerSends(m) ==
  /\ phase = "exchange"
  /\ outcome = "running"
  /\ Exchange!ServerSends(m)
  /\ UNCHANGED turnVars

\* isRetryableStreamError looks for connection-level signatures anywhere in
\* the text of the error, and so finds one that a Connect error quotes.
FailureOf(m) == CASE m.kind = "endErrQuoting" -> "connection"
                  [] EndsInError(m) -> "other"
                  [] OTHER -> "none"

Take ==
  /\ phase = "exchange"
  /\ Exchange!Take
  /\ LET m == sent[handled + 1] IN
       /\ failure' = FailureOf(m)
       /\ observed' = IF IsUpdate(m) \/ IsCaptured(m)
                        THEN observed \cup {<<attempt, handled + 1>>} ELSE observed
  /\ UNCHANGED <<phase, attempt, callerDone, response>>

Answer ==
  /\ phase = "exchange"
  /\ Exchange!Answer
  /\ UNCHANGED turnVars

\* The connection dies (a GOAWAY, a reset, an unexpected EOF, ...), or the
\* exchange ends for a reason a fresh connection does not cure.
Break(why) ==
  /\ phase = "exchange"
  /\ Exchange!Break
  /\ failure' = why
  /\ UNCHANGED <<phase, attempt, callerDone, observed, response>>

CallerGivesUp ==
  /\ ~callerDone
  /\ phase # "answered"
  /\ callerDone' = TRUE
  /\ UNCHANGED <<phase, attempt, failure, observed, response, attemptVars>>
-----------------------------------------------------------------------------
(* runCursorStream.                                                        *)

Retryable == failure = "connection"

AttemptsLeftPlusOne == attempt <= MaxAttempts
AttemptsLeft == attempt < MaxAttempts

AttemptEnds ==
  /\ phase = "exchange"
  /\ outcome # "running"
  /\ phase' = IF outcome = "error" /\ ~Produced(result) /\ AttemptsLeft /\ Retryable
                THEN "backoff" ELSE "respond"
  /\ UNCHANGED <<attempt, failure, callerDone, observed, response, attemptVars>>

BackoffNeverElapses == FALSE
\* The timer of the backoff may fire at any moment, even when the caller's
\* context is done as well: select picks among the ready cases.
BackoffElapses == TRUE

\* The exchange is rebuilt from the same request.
NextAttempt ==
  /\ phase = "backoff"
  /\ BackoffElapses
  /\ phase' = "exchange"
  /\ attempt' = attempt + 1
  /\ failure' = "none"
  /\ sent' = <<>>
  /\ handled' = 0
  /\ owed' = FALSE
  /\ answered' = {}
  /\ result' = NoResult
  /\ outcome' = "running"
  /\ UNCHANGED <<callerDone, observed, response>>

AbandonBackoff ==
  /\ phase = "backoff"
  /\ callerDone
  /\ phase' = "respond"
  /\ UNCHANGED <<attempt, failure, callerDone, observed, response, attemptVars>>
-----------------------------------------------------------------------------
(* Executor.run after the exchange.                                        *)

OfKind(positions, kinds) == {i \in positions : sent[i].kind \in kinds}

\* The accumulator: text, the tool calls that translated and the captured
\* ones the client can dispatch, and whether one failed to translate.
Text == OfKind(result.updates, {"text"})
ToolCalls == OfKind(result.updates, {"toolCall"})
               \cup OfKind(result.toolRequests, {"mcp", "native"})
TranslationFailed == OfKind(result.updates, {"badToolCall"}) # {}

RespondTruncated ==
  IF outcome = "error" /\ Text \cup ToolCalls = {}
    THEN [failed |-> TRUE, text |-> {}, toolCalls |-> {}, error |-> "stream"]
    ELSE [failed |-> FALSE,
          text |-> IF TranslationFailed THEN {} ELSE Text,
          toolCalls |-> IF TranslationFailed THEN {} ELSE ToolCalls,
          error |-> IF TranslationFailed THEN "translation" ELSE "none"]

\* Choices are left out of a response whose translation failed; the error of
\* the stream replaces that of the translation.
Respond ==
  IF outcome = "error" /\ Text \cup ToolCalls = {}
    THEN [failed |-> TRUE, text |-> {}, toolCalls |-> {}, error |-> "stream"]
    ELSE [failed |-> FALSE,
          text |-> IF TranslationFailed THEN {} ELSE Text,
          toolCalls |-> IF TranslationFailed THEN {} ELSE ToolCalls,
          error |-> IF outcome = "error" THEN "stream"
                    ELSE IF TranslationFailed THEN "translation" ELSE "none"]

Run ==
  /\ phase = "respond"
  /\ phase' = "answered"
  /\ response' = Respond
  /\ UNCHANGED <<attempt, failure, callerDone, observed, attemptVars>>

\* toStreamChunks, and the single error chunk of a turn that failed.  The
\* error travels on the content chunk, the finish reason on the last one.
ChunksWithoutError(r) ==
  <<[text |-> r.text, toolCalls |-> r.toolCalls, error |-> "none", finish |-> "none"],
    [text |-> {}, toolCalls |-> {}, error |-> "none", finish |-> "stop"]>>

Chunks(r) ==
  IF r.failed
    THEN <<[text |-> {}, toolCalls |-> {}, error |-> r.error, finish |-> "none"]>>
    ELSE <<[text |-> r.text, toolCalls |-> r.toolCalls, error |-> r.error,
            finish |-> "none"],
           [text |-> {}, toolCalls |-> {}, error |-> "none",
            finish |-> IF r.toolCalls # {} THEN "tool_calls" ELSE "stop"]>>

Answered == phase = "answered" /\ UNCHANGED vars

Next ==
  \/ \E m \in Messages : ServerSends(m)
  \/ Take
  \/ Answer
  \/ \E why \in Failures \ {"none"} : Break(why)
  \/ CallerGivesUp
  \/ AttemptEnds
  \/ NextAttempt
  \/ AbandonBackoff
  \/ Run
  \/ Answered

(***************************************************************************)
(* Every attempt ends (RunExchange!CallReturns), timers fire and the       *)
(* goroutine of the call runs.                                             *)
(***************************************************************************)
Fairness ==
  /\ WF_vars(\E why \in Failures \ {"none"} : Break(why))
  /\ WF_vars(AttemptEnds)
  /\ WF_vars(NextAttempt \/ AbandonBackoff)
  /\ WF_vars(Run)

Spec == Init /\ [][Next]_vars /\ Fairness
-----------------------------------------------------------------------------
(* Properties.                                                             *)

\* "a retry can never duplicate emitted content" (stream.go:169-172), nor
\* lose it: whatever any attempt received is in the one result that is
\* returned, or nothing was received before it.
RetryLosesNothing ==
  phase \in {"respond", "answered"} =>
    observed = {<<attempt, i>> : i \in result.updates \cup result.toolRequests}

\* A response without an error is the whole of a turn that ended cleanly;
\* otherwise the client is told (executor.go:58-64, 184-187).
NoSilentTruncation ==
  phase = "answered" /\ ~response.failed /\ response.error = "none" =>
    /\ outcome = "ok"
    /\ response.text = {i \in 1..handled : sent[i].kind = "text"}
    /\ response.toolCalls = {i \in 1..handled : sent[i].kind \in {"toolCall", "mcp", "native"}}

\* The streaming surface tells the client what the other one does: its
\* chunks together carry the text, the tool calls and the error of the
\* response, and "tool_calls" as the finish reason exactly when there are
\* any (executor.go:51-64, chatformat.go:199-205).
SurfacesAgree ==
  phase = "answered" =>
    LET chunks == Chunks(response)
        dom == DOMAIN chunks
    IN /\ UNION {chunks[k].text : k \in dom} = response.text
       /\ UNION {chunks[k].toolCalls : k \in dom} = response.toolCalls
       /\ {chunks[k].error : k \in dom} \cup {"none"} = {response.error, "none"}
       /\ (\E k \in dom : chunks[k].finish = "tool_calls") <=> response.toolCalls # {}

\* Whatever the server and the caller do, the turn is answered.
TurnIsAnswered == <>(phase = "answered")
=============================================================================

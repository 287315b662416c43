------------------------------ MODULE AgentLoop ------------------------------
(***************************************************************************)
(* A well-behaved client in its agent loop: it asks a question, runs the   *)
(* tools the model calls for, and sends the grown chat until the model     *)
(* answers.  Every request is built by buildAgentRunRequest on what Cursor *)
(* acknowledged last (executor.go:126-193).  The model behind Cursor is    *)
(* external: it needs some tools for a question, calls for those whose     *)
(* results it cannot read in its prompt, and answers when it reads all.    *)
(***************************************************************************)
EXTENDS RequestTranslation

CONSTANTS
  Tools,         \* what the model may need
  MaxQuestions,  \* bound on the questions of the client
  MaxFailures,   \* bound on the exchanges that fail
  MaxMessages    \* bound on the chat, which only a loop without end reaches

ASSUME BoundsAssumption ==
  MaxQuestions \in Nat /\ MaxFailures \in Nat /\ MaxMessages \in Nat

VARIABLES
  phase,       \* "idle", "send", "exchange" or "tools"
  messages,    \* the chat of the client; the text of a message is its position
  needed,      \* the tools the model needs for the current question
  request,     \* the last request, with the id of its conversation
  checkpoint,  \* the state Cursor acknowledged last, with its conversation's id
  failures     \* exchanges that failed

vars == <<phase, messages, needed, request, checkpoint, failures>>

NoRequest == [id |-> NoOpening, action |-> "none", msg |-> 0, turns |-> <<>>, prompt |-> <<>>]
NoCall == <<0, 0>>
NoCheckpoint == [id |-> NoOpening, turns |-> <<>>, prompt |-> <<>>]

Questions == {i \in DOMAIN messages : messages[i].role = "user"}
Question == Max(Questions)

\* The calls of the chat, by the position of the message and of the call.
Calls == UNION {{i} \X DOMAIN messages[i].calls : i \in DOMAIN messages}
CallOf(c) == messages[c[1]].calls[c[2]]
CallWithId(id) == CHOOSE c \in Calls : CallOf(c).id = id

Unanswered == {c \in Calls : \A i \in DOMAIN messages : messages[i].answers # CallOf(c).id}

\* What the model is given to read, in order.
Reads == IF request.action = "userMessage" THEN Append(request.prompt, request.msg)
                                           ELSE request.prompt

\* The tools whose results for the current question the model can read.
Known == {CallOf(CallWithId(messages[i].answers)).tool :
            i \in {j \in ToSet(Reads) : j > Question /\ messages[j].role = "tool"}}

Message(role, text, calls, answers) ==
  [role |-> role, text |-> text, calls |-> calls, answers |-> answers]

\* An agent opens its chat with a system message.
Init ==
  /\ phase = "idle"
  /\ messages = <<Message("system", 1, <<>>, NoCall)>>
  /\ needed = {}
  /\ request = NoRequest
  /\ checkpoint = NoCheckpoint
  /\ failures = 0
-----------------------------------------------------------------------------
(* The client.                                                             *)

Ask ==
  /\ phase = "idle"
  /\ Cardinality(Questions) < MaxQuestions
  /\ messages' = Append(messages, Message("user", Len(messages) + 1, <<>>, NoCall))
  /\ \E tools \in SUBSET Tools : needed' = tools
  /\ phase' = "send"
  /\ UNCHANGED <<request, checkpoint, failures>>

\* Tools run side by side and finish in any order, each with some output.
RunTool(c) ==
  /\ phase = "tools"
  /\ c \in Unanswered
  /\ messages' = Append(messages, Message("tool", Len(messages) + 1, <<>>, CallOf(c).id))
  /\ phase' = IF Unanswered = {c} THEN "send" ELSE "tools"
  /\ UNCHANGED <<needed, request, checkpoint, failures>>
-----------------------------------------------------------------------------
(* The plugin.                                                             *)

Send ==
  /\ phase = "send"
  /\ LET id == conversationIDFor(messages)
     IN request' = [id |-> id] @@ buildAgentRunRequest(messages, FALSE, Found(id, checkpoint))
  /\ phase' = "exchange"
  /\ UNCHANGED <<messages, needed, checkpoint, failures>>

\* storeCheckpoint after the exchange, if it brought one.
Acknowledge ==
  checkpoint' \in {checkpoint, [id |-> request.id, turns |-> request.turns, prompt |-> request.prompt]}
-----------------------------------------------------------------------------
(* The model.                                                              *)

Wanted == needed \ Known

Call(tool, k) == [id |-> <<Len(messages) + 1, k>>, parses |-> TRUE, tool |-> tool]

\* It calls for one of the tools it wants, or for all of them at once.
ModelCalls ==
  /\ phase = "exchange"
  /\ Len(messages) < MaxMessages
  /\ \E order \in SetToSeqs(Wanted) \cup {<<tool>> : tool \in Wanted} :
       /\ order # <<>>
       /\ \E text \in {Len(messages) + 1, NoText} :
            messages' = Append(messages,
              Message("assistant", text, [k \in DOMAIN order |-> Call(order[k], k)], NoCall))
  /\ Acknowledge
  /\ phase' = "tools"
  /\ UNCHANGED <<needed, request, failures>>

ModelAnswers ==
  /\ phase = "exchange"
  /\ Wanted = {}
  /\ messages' = Append(messages, Message("assistant", Len(messages) + 1, <<>>, NoCall))
  /\ Acknowledge
  /\ phase' = "idle"
  /\ UNCHANGED <<needed, request, failures>>

\* An exchange that fails before anything arrived: the client tries again.
ExchangeFails ==
  /\ phase = "exchange"
  /\ failures < MaxFailures
  /\ failures' = failures + 1
  /\ Acknowledge
  /\ phase' = "send"
  /\ UNCHANGED <<messages, needed, request>>

\* Nothing is asked, or the chat has grown past the bound.
Rests == (phase = "idle" \/ Len(messages) >= MaxMessages) /\ UNCHANGED vars

Next ==
  \/ Ask
  \/ \E c \in Calls : RunTool(c)
  \/ Send
  \/ ModelCalls
  \/ ModelAnswers
  \/ ExchangeFails
  \/ Rests

(***************************************************************************)
(* The client runs its tools and sends, and every exchange ends, well in   *)
(* the end: ChatTurn!TurnIsAnswered, and a bound on the failures.  Send is *)
(* the one step from "send" to "exchange", and its fairness says so: TLC   *)
(* need not build a request to see that one can be sent.                   *)
(***************************************************************************)
Fairness ==
  /\ WF_vars(\E c \in Calls : RunTool(c))
  /\ WF_phase(phase = "send" /\ phase' = "exchange")
  /\ WF_vars(ModelCalls \/ ModelAnswers)

Spec == Init /\ [][Next]_vars /\ Fairness
-----------------------------------------------------------------------------
(* Properties.                                                             *)

\* The loop converges: with the results outside the history it ran "23 turns
\* over 9 minutes ... without ever converging" (translate_request.go:71-77).
EveryQuestionIsAnswered == phase = "send" ~> phase = "idle"
=============================================================================

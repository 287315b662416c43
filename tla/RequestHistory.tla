---------------------------- MODULE RequestHistory ----------------------------
(***************************************************************************)
(* A client whose chat grows by any message it likes, well formed or not,  *)
(* and who sends the whole of it now and then.  Every request is what      *)
(* module RequestTranslation makes of the chat so far, under the id that   *)
(* conversationIDFor gives it, on the state it had under that id           *)
(* (executor.go:139-146).                                                  *)
(*                                                                         *)
(* The names of its specification are its own, so that SequenceProofs can  *)
(* extend it next to FrameCodec.                                           *)
(***************************************************************************)
EXTENDS RequestTranslation

CONSTANTS
  Shapes,        \* the messages a client may send, with "some" text, the
                 \* Instruction or NoText
  MaxMessages    \* bound on the length of a chat

ASSUME ShapesAssumption == \A shape \in Shapes : IsMessage(shape)
ASSUME BoundAssumption == MaxMessages \in Nat

VARIABLES
  messages,  \* the chat; the text of a message is its position
  request    \* the last request

chatVars == <<messages, request>>

NoRequest == [upTo |-> 0, tools |-> FALSE, failed |-> FALSE, id |-> NoOpening,
              action |-> "none", msg |-> 0, turns |-> <<>>, prompt |-> <<>>]

Sent == SubSeq(messages, 1, request.upTo)
HistorySent == IF request.action = "userMessage" THEN Front(Sent) ELSE Sent

ChatInit == messages = <<>> /\ request = NoRequest

Write(shape) ==
  /\ Len(messages) < MaxMessages
  /\ messages' = Append(messages, IF shape.text = "some" THEN [shape EXCEPT !.text = Len(messages) + 1]
                                                         ELSE shape)
  /\ UNCHANGED request

\* An empty chat is refused (line 60).
Submit(tools) ==
  /\ messages # <<>>
  /\ LET id == conversationIDFor(messages) IN
     IF BuildFails(Split(messages).history)
       THEN request' = [NoRequest EXCEPT !.upTo = Len(messages), !.id = id, !.failed = TRUE]
       ELSE \E built \in {buildAgentRunRequest(messages, tools, Found(id, request))} :
              request' = [upTo |-> Len(messages), tools |-> tools, failed |-> FALSE, id |-> id,
                          action |-> built.action, msg |-> built.msg,
                          turns |-> built.turns, prompt |-> built.prompt]
  /\ UNCHANGED messages

ChatNext == (\E shape \in Shapes : Write(shape)) \/ (\E tools \in BOOLEAN : Submit(tools))

ChatSpec == ChatInit /\ [][ChatNext]_chatVars
-----------------------------------------------------------------------------
(* Properties.                                                             *)

Built == request.upTo > 0 /\ ~request.failed

\* What the model is given to read, in order.
Reads == IF request.action = "userMessage" THEN Append(request.prompt, request.msg)
                                           ELSE request.prompt

\* The model reads every message that has a text, once and in the order of
\* the chat: selecting the last user message instead would place "everything
\* after it outside history" (translate_request.go:66-77), and keeping what
\* was acknowledged before would repeat it (lines 137-142).  With tools it is
\* told about them once, by the client's system message or by the plugin's
\* (lines 420-425).
ModelReadsTheChat ==
  Built =>
    LET instructions == {i \in DOMAIN Reads : Reads[i] = InstructionEntry}
        theirs == {i \in DOMAIN Sent : Sent[i].role = "system" /\ Sent[i].text = Instruction}
    IN /\ ToSet(Reads) \ {InstructionEntry} = {i \in DOMAIN Sent : InPrompt(Sent[i])}
       /\ \A i, j \in DOMAIN Reads :
            i < j /\ Reads[j] # InstructionEntry => Reads[i] < Reads[j]
       /\ Cardinality(instructions) = (IF request.tools /\ theirs = {} THEN 1 ELSE 0)

\* The position a step has among the steps of all turns.
StepPlaces == UNION {{t} \X DOMAIN request.turns[t].steps : t \in DOMAIN request.turns}
StepAt(p) == request.turns[p[1]].steps[p[2]]
Before(p, q) == p[1] < q[1] \/ (p[1] = q[1] /\ p[2] < q[2])

\* A result is put to the call it answers: one that was recorded before it,
\* with the same id and with no other result (translate_request.go:315-347).
ResultFollowsItsCall ==
  Built => \A p \in StepPlaces : StepAt(p).kind = "result" =>
    LET c == StepAt(p).call IN
    /\ Sent[c[1]].calls[c[2]].id = Sent[StepAt(p).msg].answers
    /\ \E q \in StepPlaces : Before(q, p) /\ StepAt(q).kind = "call" /\ StepAt(q).call = c
    /\ \A q \in StepPlaces \ {p} : StepAt(q).kind = "result" => StepAt(q).call # c

OpenersBefore(i) == {j \in 1..(i - 1) : OpensTurn(Sent[j])}

\* The steps a reply should leave: its text, its calls, or the result.
StepsDue(i) ==
  IF Sent[i].role = "tool" THEN 1
  ELSE Len(Sent[i].calls) + (IF HasText(Sent[i]) THEN 1 ELSE 0)

StepsOf(t, i) == {s \in DOMAIN request.turns[t].steps : request.turns[t].steps[s].msg = i}

\* "one turn per user message, with every assistant reply and tool result
\* that follows it recorded as that turn's steps" (translate_request.go:251-253),
\* for the messages that have a text.
TurnsAreExchanges ==
  Built =>
    /\ {request.turns[t].opener : t \in DOMAIN request.turns}
         = {i \in DOMAIN HistorySent : OpensTurn(Sent[i]) /\ OpenerHasText(Sent[i])}
    /\ \A t \in DOMAIN request.turns : \A i \in DOMAIN HistorySent :
         /\ Cardinality(StepsOf(t, i)) =
              IF /\ Sent[i].role \in {"assistant", "tool"}
                 /\ OpenersBefore(i) # {} /\ Max(OpenersBefore(i)) = request.turns[t].opener
                THEN StepsDue(i) ELSE 0
         /\ \A s, u \in DOMAIN request.turns[t].steps : s < u =>
              request.turns[t].steps[s].msg <= request.turns[t].steps[u].msg
=============================================================================

-------------------------- MODULE RequestTranslation --------------------------
(***************************************************************************)
(* buildAgentRunRequest (internal/executor/translate_request.go): how the  *)
(* messages of a chat become a Run request.  The history is encoded twice: *)
(* as turns with steps, the view of Cursor's user interface, and as the    *)
(* root prompt, what reaches the model (lines 48-55).  An entry of either  *)
(* is named by the position of its message, so that one lost, doubled or   *)
(* out of place shows.                                                     *)
(*                                                                         *)
(* A message is [role, text, calls, answers]: calls holds the ids of an    *)
(* assistant's tool calls with whether their arguments parse, answers the  *)
(* id a tool result is for.  Images carry no text (chatformat.go:85-117).  *)
(***************************************************************************)
EXTENDS Naturals, Sequences, FiniteSets, SequencesExt

CONSTANTS
  NoText,       \* the empty text
  Instruction   \* a text that has nativeToolsOnlyMcpSystemPrompt in it

HasText(msg) == msg.text # NoText

IsMessage(msg) ==
  /\ DOMAIN msg = {"role", "text", "calls", "answers"}
  /\ msg.role \in {"system", "user", "assistant", "tool", "other"}
  /\ msg.calls \in Seq(ToSet(msg.calls))

\* The members of S up to n, in order: what a loop over them appends.
Positions(S, n) == FlattenSeq([i \in 1..n |-> IF i \in S THEN <<i>> ELSE <<>>])
-----------------------------------------------------------------------------
(* The action to run now, and what is history (lines 97-120).              *)

\* The defect that the comment of lines 66-77 recalls.
LastUserIsAction(messages) ==
  LET users == {i \in DOMAIN messages : messages[i].role = "user" /\ HasText(messages[i])}
  IN IF users # {}
       THEN [kind |-> "userMessage", msg |-> Max(users), history |-> SubSeq(messages, 1, Max(users) - 1)]
       ELSE [kind |-> "resume", msg |-> 0, history |-> messages]

\* A user message with text at the end is the action and the rest history;
\* anything else resumes, with all of it as history.
Split(messages) ==
  IF Last(messages).role = "user" /\ HasText(Last(messages))
    THEN [kind |-> "userMessage", msg |-> Len(messages), history |-> Front(messages)]
    ELSE [kind |-> "resume", msg |-> 0, history |-> messages]
-----------------------------------------------------------------------------
(* buildHistoryTurnBlobIDs.                                                *)

OpensTurn(msg) == msg.role \in {"user", "system"}

\* A system message gets a prefix and so always has a text.
OpenerHasText(msg) == msg.role = "system" \/ HasText(msg)

TextStep(i) == [kind |-> "text", msg |-> i, call |-> <<>>]
CallStep(i, k) == [kind |-> "call", msg |-> i, call |-> <<i, k>>]
ResultStep(i, call) == [kind |-> "result", msg |-> i, call |-> call]

\* The message that opened the stretch a reply is in; one without text opens
\* no turn, and what follows it is skipped, as is what no opener precedes.
Opener(history, i) == Max({0} \cup {j \in 1..(i - 1) : OpensTurn(history[j])})

InTurn(history, i) == Opener(history, i) # 0 /\ OpenerHasText(history[Opener(history, i)])

\* pendingToolCallsByID, across turns: a call puts its id there, and a result
\* takes it out again.
Asks(msg, id) == msg.role = "assistant" /\ \E k \in DOMAIN msg.calls : msg.calls[k].id = id

NeverTakes(msg, id) == FALSE
Takes(msg, id) == msg.role = "tool" /\ msg.answers = id

\* The call the result at i finds there.  Of two with one id it is the later.
Waiting(history, i) ==
  LET id == history[i].answers
      touched == {j \in 1..(i - 1) : /\ Asks(history[j], id) \/ Takes(history[j], id)
                                     /\ InTurn(history, j)}
      with(j) == {k \in DOMAIN history[j].calls : history[j].calls[k].id = id}
  IN {<<j, Max(with(j))>> : j \in {a \in touched : Asks(history[a], id) /\ a = Max(touched)}}

AssistantStepsTextOrCalls(i, msg) ==
  IF HasText(msg) THEN <<TextStep(i)>> ELSE [k \in DOMAIN msg.calls |-> CallStep(i, k)]

AssistantSteps(i, msg) ==
  (IF HasText(msg) THEN <<TextStep(i)>> ELSE <<>>)
    \o [k \in DOMAIN msg.calls |-> CallStep(i, k)]

\* A result nobody waits for is kept as a text step.
ResultSteps(history, i) ==
  LET waiting == Waiting(history, i)
  IN IF waiting = {} THEN <<TextStep(i)>> ELSE <<ResultStep(i, CHOOSE call \in waiting : TRUE)>>

StepsFor(history, i) ==
  CASE history[i].role = "assistant" /\ InTurn(history, i) -> AssistantSteps(i, history[i])
    [] history[i].role = "tool" /\ InTurn(history, i) -> ResultSteps(history, i)
    [] OTHER -> <<>>

TurnOf(history, opener) ==
  [opener |-> opener,
   steps |-> FlattenSeq([i \in DOMAIN history |->
               IF Opener(history, i) = opener THEN StepsFor(history, i) ELSE <<>>])]

\* One turn per opener with text, up to the next opener.
buildHistoryTurnBlobIDs(history) ==
  LET opens == {i \in DOMAIN history : OpensTurn(history[i]) /\ OpenerHasText(history[i])}
      openers == Positions(opens, Len(history))
  IN [t \in DOMAIN openers |-> TurnOf(history, openers[t])]

\* A call whose arguments do not parse fails the whole request, unless the
\* name was mapped onto a tool of Cursor's.
BuildFails(history) ==
  \E i \in DOMAIN history :
    /\ history[i].role = "assistant" /\ InTurn(history, i)
    /\ \E k \in DOMAIN history[i].calls : ~history[i].calls[k].parses
-----------------------------------------------------------------------------
(* buildRootPromptMessageBlobIDs.                                          *)

PromptRoles == {"system", "user", "assistant", "tool"}

\* The prompt entry of nativeToolsOnlyMcpSystemPrompt.
InstructionEntry == 0

InPrompt(msg) == msg.role \in PromptRoles /\ HasText(msg)

HasInstruction(history) ==
  \E i \in DOMAIN history : history[i].role = "system" /\ history[i].text = Instruction

\* With tools the instruction is the last entry, unless the chat has it.
rootPrompt(history, tools) ==
  Positions({i \in DOMAIN history : InPrompt(history[i])}, Len(history))
    \o (IF tools /\ ~HasInstruction(history) THEN <<InstructionEntry>> ELSE <<>>)

\* The state of the request: the acknowledged one with its history replaced.
StateAppended(base, turns, prompt) == [turns |-> turns, prompt |-> base.prompt \o prompt]
State(base, turns, prompt) == [turns |-> turns, prompt |-> prompt]

buildAgentRunRequest(messages, tools, base) ==
  LET split == Split(messages)
      state == State(base, buildHistoryTurnBlobIDs(split.history), rootPrompt(split.history, tools))
  IN [action |-> split.kind, msg |-> split.msg, turns |-> state.turns, prompt |-> state.prompt]

OpeningOf(messages, role) ==
  LET i == SelectInSeq(messages, LAMBDA m : m.role = role /\ HasText(m))
  IN IF i = 0 THEN NoText ELSE messages[i].text

\* The first system and the first user message with text.
conversationIDFor(messages) == <<OpeningOf(messages, "system"), OpeningOf(messages, "user")>>

\* A chat with neither gets a random id, which finds no state again.
NoOpening == <<NoText, NoText>>
Found(id, checkpoint) ==
  IF id = checkpoint.id /\ id # NoOpening THEN checkpoint
                                         ELSE [id |-> id, turns |-> <<>>, prompt |-> <<>>]
=============================================================================

---------------------------- MODULE ToolRoundTrip ----------------------------
(***************************************************************************)
(* The tool calls of one turn and their way back: Cursor's model asks for  *)
(* tools, the plugin captures and declines them inline, the executor turns *)
(* what it collected into the tool_calls of the response, the client       *)
(* answers them, and the next request rebuilds calls and results for       *)
(* Cursor (execmessage.go:40-105, translate_response.go:45-57 and 197-282,  *)
(* 345-416, translate_request.go:178-222 and 496-597).  The model behind   *)
(* Cursor is free to ask for anything it was given.                        *)
(***************************************************************************)
EXTENDS ToolMap, ExecDecline

CONSTANTS
  ClientTools,   \* names a client may declare, Unnamed among them
  MaxTools,      \* bound on the tools a client declares
  Natives,       \* tools of Cursor the model asks to have executed inline
  Completed,     \* tools Cursor runs itself and reports as completed calls
  MaxRequests    \* bound on the requests of the turn

\* "none" marks what is no tool (ToolMap).  A client may give a tool the name
\* of a field of Cursor's.
ASSUME ClientToolsAssumption ==
  \A tool \in ClientTools : /\ tool.spelling # "none"
                            /\ IsRaw(tool) => tool.spelling \in ToolCallVariants
ASSUME NativesAssumption == Natives \subseteq ExecBases
ASSUME CompletedAssumption == Completed \subseteq ToolCallVariants \ {"mcp"}
ASSUME BoundsAssumption == MaxTools \in Nat /\ MaxRequests \in Nat

VARIABLES
  phase,      \* "turn", "response", "responded" or "returned"
  declared,   \* tools[] of the request, the same one in the next request
  requests,   \* what the model asked for, in order
  updates,    \* the ToolCallCompleted updates, by the request they are of
  captured,   \* the requests captured from the exec channel
  answers,    \* the answers on the exec channel, each with its request
  echoes,     \* requests whose decline Cursor has yet to report back
  toolCalls,  \* tool_calls of the response, each with its request
  folded,     \* how many of the updates were accumulated
  added,      \* how many of the captured requests were added
  rebuilt     \* for each, what its call and its result are in the next
              \* request's history

vars == <<phase, declared, requests, updates, captured, answers, echoes, toolCalls, folded, added,
          rebuilt>>

\* A request of the model: for a native tool, for a tool of the client, for
\* the context of the workspace, or a call Cursor completes on its own.
Request == [kind : {"native", "completed"}, base : ExecBases \cup ToolCallVariants]
             \cup [kind : {"mcp"}, tool : ClientTools] \cup [kind : {"context"}]

Init ==
  /\ phase = "turn"
  /\ declared \in UNION {[1..n -> ClientTools] : n \in 0..MaxTools}
  /\ requests = <<>> /\ updates = <<>> /\ captured = <<>> /\ answers = <<>>
  /\ echoes = {}
  /\ toolCalls = <<>> /\ folded = 0 /\ added = 0 /\ rebuilt = <<>>

response == <<toolCalls, folded, added, rebuilt>>

Offered == buildMcpTools(declared)
-----------------------------------------------------------------------------
(* The turn.                                                               *)

Ask(r) ==
  /\ phase = "turn"
  /\ Len(requests) < MaxRequests
  /\ requests' = Append(requests, r)

\* The answer to the request that is being made, if one can be given.
Answer(base) ==
  LET given == ExecAnswer(base)
  IN answers' = answers \o [i \in DOMAIN given |-> [request |-> Len(requests'), given |-> given[i]]]

\* A native tool or a tool of the client, to be executed inline: captured,
\* declined, and reported back by Cursor afterwards as a call without args.
Capture(base) ==
  /\ captured' = Append(captured, Len(requests'))
  /\ echoes' = echoes \cup {Len(requests')}
  /\ Answer(base)
  /\ UNCHANGED <<phase, declared, updates, response>>

AskNative(base) == Ask([kind |-> "native", base |-> base]) /\ Capture(base)

\* By any name but the empty one: it is not compared with those offered.
AskMcp(tool) ==
  /\ tool # Unnamed
  /\ Ask([kind |-> "mcp", tool |-> tool])
  /\ Capture("mcp")

AskContext ==
  /\ Ask([kind |-> "context"])
  /\ Answer("request_context")
  /\ UNCHANGED <<phase, declared, updates, captured, echoes, response>>

Complete(base) ==
  /\ Ask([kind |-> "completed", base |-> base])
  /\ updates' = Append(updates, [request |-> Len(requests'), args |-> TRUE])
  /\ UNCHANGED <<phase, declared, captured, answers, echoes, response>>

Echo(k) ==
  /\ phase = "turn"
  /\ k \in echoes
  /\ echoes' = echoes \ {k}
  /\ updates' = Append(updates, [request |-> k, args |-> FALSE])
  /\ UNCHANGED <<phase, declared, requests, captured, answers, response>>
-----------------------------------------------------------------------------
(* The response.                                                           *)

\* The name of the call a completed update carries.  An echo of a declined
\* tool of the client has no name.
NameInUpdate(u) ==
  LET r == requests[u.request] IN IF r.kind = "mcp" THEN NoTool ELSE Raw(r.base)

NotAnEcho(u) == TRUE

\* toChatToolCall gives no call for an echo.
IsCall(u) == u.args

CapturedTool(k) ==
  LET r == requests[k] IN
  IF r.kind = "mcp" THEN r.tool
  ELSE resolveClientTool(newClientToolIndex(declared), r.base)

\* Cursor may end the turn before it has reported every decline.
EndTurn ==
  /\ phase = "turn"
  /\ phase' = "response"
  /\ UNCHANGED <<declared, requests, updates, captured, answers, echoes, response>>

\* accumulate of the next update.
Accumulate ==
  /\ phase = "response"
  /\ folded < Len(updates)
  /\ folded' = folded + 1
  /\ LET u == updates[folded + 1] IN
     toolCalls' = IF IsCall(u) THEN Append(toolCalls, [tool |-> NameInUpdate(u), request |-> u.request])
                               ELSE toolCalls
  /\ UNCHANGED <<phase, declared, requests, updates, captured, answers, echoes, added, rebuilt>>

\* The loop body of addCapturedToolRequests, which stops at nothing: an
\* unmapped native is skipped.
AddCaptured ==
  /\ phase = "response"
  /\ folded = Len(updates) /\ added < Len(captured)
  /\ added' = added + 1
  /\ LET k == captured[added + 1]
         tool == CapturedTool(k)
     IN toolCalls' = IF tool # NoTool THEN Append(toolCalls, [tool |-> tool, request |-> k])
                                      ELSE toolCalls
  /\ UNCHANGED <<phase, declared, requests, updates, captured, answers, echoes, folded, rebuilt>>

Respond ==
  /\ phase = "response"
  /\ folded = Len(updates) /\ added = Len(captured)
  /\ phase' = "responded"
  /\ UNCHANGED <<declared, requests, updates, captured, answers, echoes, response>>

\* The client answers every call with some text, be it that it has no such
\* tool, and the history of its next request carries calls and answers.  The
\* step of a call and the step of its result are rebuilt one after the other,
\* each with a walk of its own through the table.
ClientReturns ==
  /\ phase = "responded"
  /\ phase' = "returned"
  /\ LET variants == UNION {RebuiltVariants(toolCalls[i].tool) : i \in DOMAIN toolCalls}
     IN \E way \in [DOMAIN toolCalls -> [call : variants, result : variants]] :
          /\ \A i \in DOMAIN toolCalls : {way[i].call, way[i].result} \subseteq RebuiltVariants(toolCalls[i].tool)
          /\ rebuilt' = way
  /\ UNCHANGED <<declared, requests, updates, captured, answers, echoes, toolCalls, folded, added>>

Returned == phase = "returned" /\ UNCHANGED vars

Next ==
  \/ \E base \in Natives : AskNative(base)
  \/ \E tool \in ClientTools : AskMcp(tool)
  \/ AskContext
  \/ \E base \in Completed : Complete(base)
  \/ \E k \in DOMAIN requests : Echo(k)
  \/ EndTurn
  \/ Accumulate
  \/ AddCaptured
  \/ Respond
  \/ ClientReturns
  \/ Returned

Spec == Init /\ [][Next]_vars
-----------------------------------------------------------------------------
(* Properties.                                                             *)

CallsOf(k) == {i \in DOMAIN toolCalls : toolCalls[i].request = k}

\* The declared tools that may stand for a tool of Cursor.
DeclaredFor(base) == {i \in Named(declared) : declared[i].norm \in Equivalents(base)}

Surfaceable(k) ==
  LET r == requests[k] IN
  r.kind \in {"mcp", "completed"} \/ (r.kind = "native" /\ DeclaredFor(r.base) # {})

\* Cursor "terminates cleanly (never hangs waiting for a reply that never
\* comes)" (execmessage.go:26-27): every request to execute something has one
\* answer, in the field declared for it, and "always carries a genuine
\* terminal decline signal" (execmessage.go:175-176) unless it asks about the
\* context; what the client is asked to do later has been refused here.
EveryAskIsAnswered ==
  \A k \in DOMAIN requests :
    LET r == requests[k]
        own == {i \in DOMAIN answers : answers[i].request = k}
    IN /\ Cardinality(own) = (IF r.kind = "completed" THEN 0 ELSE 1)
       /\ \A i \in own :
            /\ answers[i].given.field \in ClientFields
            /\ answers[i].given.outcome \in
                 IF r.kind = "context" THEN {"success"} ELSE {"rejected", "error", "failure"}
       /\ (\E i \in DOMAIN toolCalls : toolCalls[i].request = k) /\ r.kind # "completed" => own # {}

\* A call for a tool of Cursor's reaches the client under a name it declared,
\* spelled as it declared it, and one that stands for what the model asked for:
\* "never silently redirect one to the wrong tool" (toolmap.go:20-24), in the
\* order of preference of the table (toolmap.go:34-36).  A call of a tool of
\* the client's keeps the name Cursor gave it, declared or not.
CallsAreDispatchable ==
  \A i \in DOMAIN toolCalls :
    LET r == requests[toolCalls[i].request]
        tool == toolCalls[i].tool
    IN /\ r.kind = "mcp" => tool = r.tool
       /\ r.kind = "native" =>
            /\ tool \in {declared[j] : j \in Named(declared)}
            /\ \E n \in DOMAIN Tried(r.base) :
                 /\ Tried(r.base)[n] = tool.norm
                 /\ \A m \in 1..(n - 1) : \A j \in Named(declared) :
                      declared[j].norm # Tried(r.base)[m]

\* Captures, declines and the reports of the declines reach the client as one
\* call for each request it can serve, and none for the others, whatever the
\* order they came in (translate_response.go:231-239, 345-359).
EachRequestIsOneCall ==
  phase \in {"responded", "returned"} =>
    \A k \in DOMAIN requests : Cardinality(CallsOf(k)) = (IF Surfaceable(k) THEN 1 ELSE 0)

\* In the history of the next request neither a call nor its result is put to
\* a tool of the client that was not offered and that Cursor did not ask for,
\* "inventing an MCP tool Cursor never offered" (translate_request.go:507-512).
\* What was offered stays with the tool, in call and result, unless it has the
\* name of a field of Cursor's; what stands for a tool of Cursor's goes to one
\* of those the name is an alias for, and a completed call to its own.
RebuiltAsOffered ==
  \A i \in DOMAIN rebuilt : \A variant \in {rebuilt[i].call, rebuilt[i].result} :
    LET r == requests[toolCalls[i].request]
        tool == toolCalls[i].tool
    IN /\ variant = "client" => r.kind = "mcp" \/ tool \in Offered
       /\ r.kind = "mcp" /\ tool \in Offered /\ ~IsRaw(tool) => variant = "client"
       /\ r.kind = "native" /\ variant # "client" => tool.norm \in Equivalents(variant)
       /\ r.kind = "completed" => variant = r.base
=============================================================================

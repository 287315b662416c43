--------------------------- MODULE StreamMessages ---------------------------
(***************************************************************************)
(* What Cursor may send on one Run stream, and what the read loop of       *)
(* internal/executor/stream.go keeps of it.  A message is reduced to the   *)
(* branch the loop's switch takes (stream.go:371-416) and, for the blob    *)
(* handshake, the blob it names; the text of an update and the arguments   *)
(* of a tool are irrelevant to the loop, which never looks at them.        *)
(***************************************************************************)
EXTENDS Naturals, Sequences

CONSTANTS
  Kinds,   \* the branches the server exercises, a subset of AllKinds
  Blobs    \* blob ids of the KV handshake

\* The InteractionUpdates: text, a completed tool call that translates and
\* one that does not, the end of the turn, and all that a chat client never
\* sees (thinking, summaries, the echo of a declined call, ...).
UpdateKinds == {"text", "toolCall", "badToolCall", "turnEnded", "bookkeeping"}

\* The exec requests: a client tool with and without its name, a native
\* Cursor tool for which the client has and has not an equivalent, and the
\* informational request_context_args.
ExecKinds == {"mcp", "mcpUnnamed", "native", "nativeUnmapped", "context"}

BlobKinds == {"kvGet", "kvSet"}

\* The ends: the Connect end-of-stream frame without and with an error, the
\* latter perhaps quoting a connection-level failure in its text, and a
\* frame that does not decode.
EndKinds == {"endOk", "endErr", "endErrQuoting", "garbled"}

\* ignored stands for the messages of no known variant.
AllKinds == UpdateKinds \cup ExecKinds \cup BlobKinds \cup EndKinds
              \cup {"checkpoint", "ignored"}

ASSUME KindsAssumption == Kinds \subseteq AllKinds
ASSUME BlobsAssumption == Blobs # {}

\* A message: only the two blob requests are told apart by their blob.
Message == [kind : Kinds, blob : Blobs]

\* The messages worth enumerating: one blob for the kinds that ignore it.
Messages == {m \in Message : \/ m.kind \in BlobKinds
                             \/ m.blob = CHOOSE b \in Blobs : TRUE}

AnswerableIfNamed(m) == m.kind \in BlobKinds \cup (ExecKinds \ {"mcpUnnamed"})

\* Exactly these get one reply frame on the request body before the loop
\* goes on: handleKvServerMessage and handleExecServerMessage.
Answerable(m) == m.kind \in BlobKinds \cup ExecKinds

\* The two ways an exchange succeeds.
EndsCleanly(m) == m.kind \in {"turnEnded", "endOk"}

\* The messages that are errors in themselves.
EndsInError(m) == m.kind \in EndKinds \ {"endOk"}

IsUpdate(m) == m.kind \in UpdateKinds

\* A declined tool call is remembered: the client is the one who runs tools.
IsCaptured(m) == m.kind \in {"mcp", "native", "nativeUnmapped"}

\* runStreamResult: each message is named by its position in the stream, and
\* since the loop appends in stream order a set of positions is the slice.
NoResult == [updates |-> {}, toolRequests |-> {}, checkpoint |-> 0]

\* The loop's effect on the result of receiving m as the i-th message.
Fold(result, i, m) ==
  [updates      |-> result.updates \cup (IF IsUpdate(m) THEN {i} ELSE {}),
   toolRequests |-> result.toolRequests \cup (IF IsCaptured(m) THEN {i} ELSE {}),
   checkpoint   |-> IF m.kind = "checkpoint" THEN i ELSE result.checkpoint]

\* produced, as runCursorStream reads it: a retry would duplicate these.
ProducedText(result) == result.updates # {}
Produced(result) == result.updates # {} \/ result.toolRequests # {}
=============================================================================

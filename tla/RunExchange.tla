----------------------------- MODULE RunExchange -----------------------------
(***************************************************************************)
(* One call of runCursorStreamOnce (internal/executor/stream.go): the      *)
(* read loop, which is the calling goroutine, the writer goroutine that    *)
(* sends the initial frame, the heartbeat goroutine, and the HTTP          *)
(* transport they share through an io.Pipe.  The three goroutines meet at  *)
(* two locks, the mutex of kvWriter and the write lock inside the pipe,    *)
(* and the call ends through a stack of deferred steps whose order the     *)
(* source argues about at length.                                          *)
(*                                                                         *)
(* Abstracted: frames are whole (their reassembly is a matter of bytes),   *)
(* and time is the freedom to expire at any moment (ExpireContext stands   *)
(* for the idle watchdog, the overall deadline and the caller's cancel).   *)
(***************************************************************************)
EXTENDS StreamMessages

CONSTANTS
  MaxMessages,   \* bound on the messages the server sends
  MaxTicks       \* bound on the heartbeat ticks

ASSUME MaxMessagesAssumption == MaxMessages \in Nat
ASSUME MaxTicksAssumption == MaxTicks \in Nat

VARIABLES
  pc,            \* where each goroutine stands
  kvLock,        \* holder of kvWriter.mu, or "free"
  kvClosed,      \* kvWriter.closed
  lastWriteErr,  \* kvWriter.lastWriteErr: whose write failed last
  pipeLock,      \* holder of the pipe's write lock, or "free"
  pipeClosed,    \* either end of the io.Pipe was closed
  wire,          \* frames the transport read from the pipe, in order
  sent,          \* every message the server sent, in order
  arrived,       \* how many of them Body.Read has delivered
  handled,       \* how many of them the loop has processed
  readErr,       \* Body.Read returned an error with the last bytes
  dropped,       \* the connection is lost: no further message arrives
  ctxDone,       \* the exchange's context is done
  released,      \* the release channel is closed
  heartbeatDone, \* the heartbeatDone channel is closed
  ticks,         \* heartbeat ticks so far
  blobs,         \* ids in the conversation's blobStore
  reply,         \* the answer the loop is about to write
  result,        \* runStreamResult
  outcome        \* "running" until a return statement has run

exchangeVars == <<sent, arrived, handled, readErr, blobs, reply, result, outcome>>
writeVars == <<kvLock, kvClosed, lastWriteErr, pipeLock, pipeClosed, wire>>
signalVars == <<dropped, ctxDone, released, heartbeatDone, ticks>>
vars == <<pc, exchangeVars, writeVars, signalVars>>

Threads == {"loop", "writer", "heartbeat"}

\* The deferred steps, in the order they run (last registered, first run):
\* resp.Body.Close, close(release), pr.Close, <-writerExited, kv.close,
\* close(heartbeatDone), and idleTimer.Stop with cancelStream.
AfterDeferNoKvClose == [closeBody |-> "release", release |-> "closePipe",
  closePipe |-> "join", join |-> "stopHeartbeat", closeKv |-> "stopHeartbeat",
  stopHeartbeat |-> "cancel", cancel |-> "done"]

AfterDeferNoPipeClose == [closeBody |-> "release", release |-> "join",
  closePipe |-> "join", join |-> "closeKv", closeKv |-> "stopHeartbeat",
  stopHeartbeat |-> "cancel", cancel |-> "done"]

AfterDefer == [closeBody |-> "release", release |-> "closePipe",
  closePipe |-> "join", join |-> "closeKv", closeKv |-> "stopHeartbeat",
  stopHeartbeat |-> "cancel", cancel |-> "done"]

\* The loop is between Do and its return: the transport owns the pipe's read end.
Exchanging == {"do", "read", "process", "lock", "write"}

LoopStates == Exchanging \cup DOMAIN AfterDefer \cup {"done"}
WriterStates == {"write", "parked", "recordErr", "closing", "exited"}
HeartbeatStates == {"select", "lock", "write", "exited"}

RunFrame == [type |-> "run", to |-> 0, data |-> FALSE]
HeartbeatFrame == [type |-> "heartbeat", to |-> 0, data |-> FALSE]
ReplyFrame(i, data) == [type |-> "reply", to |-> i, data |-> data]
Frame == [type : {"run", "heartbeat", "reply"}, to : Nat, data : BOOLEAN]

TypeOK ==
  /\ pc \in [Threads -> LoopStates \cup WriterStates \cup HeartbeatStates]
  /\ pc["loop"] \in LoopStates
  /\ pc["writer"] \in WriterStates
  /\ pc["heartbeat"] \in HeartbeatStates
  /\ kvLock \in {"free", "loop", "heartbeat"}
  /\ kvClosed \in BOOLEAN
  /\ lastWriteErr \in Threads \cup {"none"}
  /\ pipeLock \in Threads \cup {"free"}
  /\ pipeClosed \in BOOLEAN
  /\ wire \in Seq(Frame)
  /\ sent \in Seq(Message)
  /\ arrived \in 0..Len(sent)
  /\ handled \in 0..arrived
  /\ readErr \in BOOLEAN
  /\ dropped \in BOOLEAN
  /\ ctxDone \in BOOLEAN
  /\ released \in BOOLEAN
  /\ heartbeatDone \in BOOLEAN
  /\ ticks \in 0..MaxTicks
  /\ blobs \subseteq Blobs
  /\ reply \in Frame
  /\ result \in [updates : SUBSET Nat, toolRequests : SUBSET Nat, checkpoint : Nat]
  /\ outcome \in {"running", "ok", "error"}

\* Both goroutines have been started and Do is about to be called: the writer
\* has pw.Write before it and no lock of the pipe yet.  The blob store is
\* whatever buildAgentRunRequest and earlier turns left in it.
Init ==
  /\ pc = [loop |-> "do", writer |-> "write", heartbeat |-> "select"]
  /\ kvLock = "free"
  /\ kvClosed = FALSE
  /\ lastWriteErr = "none"
  /\ pipeLock = "free"
  /\ pipeClosed = FALSE
  /\ wire = <<>>
  /\ sent = <<>>
  /\ arrived = 0
  /\ handled = 0
  /\ readErr = FALSE
  /\ dropped = FALSE
  /\ ctxDone = FALSE
  /\ released = FALSE
  /\ heartbeatDone = FALSE
  /\ ticks = 0
  /\ blobs \in SUBSET Blobs
  /\ reply = RunFrame
  /\ result = NoResult
  /\ outcome = "running"

Goto(t, state) == pc' = [pc EXCEPT ![t] = state]
-----------------------------------------------------------------------------
(* The server, the connection and the clock.                               *)

ServerSends(m) ==
  /\ pc["loop"] \in Exchanging \ {"do"}
  /\ ~dropped
  /\ Len(sent) < MaxMessages
  /\ sent' = Append(sent, m)
  /\ UNCHANGED <<pc, arrived, handled, readErr, blobs, reply, result, outcome,
                 writeVars, signalVars>>

DropConnection ==
  /\ pc["loop"] \in Exchanging
  /\ ~dropped
  /\ dropped' = TRUE
  /\ UNCHANGED <<pc, exchangeVars, writeVars, ctxDone, released, heartbeatDone, ticks>>

\* The idle watchdog, the overall deadline or the caller.
ExpireContext ==
  /\ ~ctxDone
  /\ ctxDone' = TRUE
  /\ UNCHANGED <<pc, exchangeVars, writeVars, dropped, released, heartbeatDone, ticks>>

\* The transport closes the request body: the stream is over for it, or its
\* context is done.
TransportClosesPipe ==
  /\ pc["loop"] \in Exchanging \cup {"closeBody"}
  /\ ~pipeClosed
  /\ pipeClosed' = TRUE
  /\ UNCHANGED <<pc, exchangeVars, kvLock, kvClosed, lastWriteErr, pipeLock, wire,
                 signalVars>>
-----------------------------------------------------------------------------
(* io.Pipe and kvWriter, common to the goroutines.                         *)

\* The goroutines whose write is the kvWriter's: they hold its mutex.
KvThreads == {"loop", "heartbeat"}

AfterWriteAgain == [loop |-> "lock", writer |-> "parked", heartbeat |-> "select"]
AfterWrite == [loop |-> "process", writer |-> "parked", heartbeat |-> "select"]

FrameOf(t) == CASE t = "loop"      -> reply
                [] t = "writer"    -> RunFrame
                [] t = "heartbeat" -> HeartbeatFrame

KvLockFree == kvLock = "free"

Unlock(t) == kvLock' = IF t \in KvThreads THEN "free" ELSE kvLock

\* pw.Write has the pipe's write lock: its frame will be read whole.
EnterPipe(t) ==
  /\ pc[t] = "write"
  /\ pipeLock = "free"
  /\ ~pipeClosed
  /\ pipeLock' = t
  /\ UNCHANGED <<pc, exchangeVars, kvLock, kvClosed, lastWriteErr, pipeClosed, wire,
                 signalVars>>

\* The transport reads the frame, and the write returns.
TransportReads(t) ==
  /\ pc["loop"] \in Exchanging \cup {"closeBody"}
  /\ pc[t] = "write"
  /\ pipeLock = t
  /\ ~pipeClosed
  /\ wire' = Append(wire, FrameOf(t))
  /\ pipeLock' = "free"
  /\ Unlock(t)
  /\ Goto(t, AfterWrite[t])
  /\ UNCHANGED <<exchangeVars, kvClosed, lastWriteErr, pipeClosed, signalVars>>

LeavePipe(t) == pipeLock' = IF pipeLock = t THEN "free" ELSE pipeLock
-----------------------------------------------------------------------------
(* The writer goroutine (stream.go:313-323).                               *)

WriterWriteFails ==
  /\ pc["writer"] = "write"
  /\ pipeClosed
  /\ LeavePipe("writer")
  /\ Goto("writer", "recordErr")
  /\ UNCHANGED <<exchangeVars, kvLock, kvClosed, lastWriteErr, pipeClosed, wire,
                 signalVars>>

\* kv.recordWriteErr takes the mutex for the assignment.
WriterRecordsErr ==
  /\ pc["writer"] = "recordErr"
  /\ KvLockFree
  /\ lastWriteErr' = "writer"
  /\ Goto("writer", "closing")
  /\ UNCHANGED <<exchangeVars, kvLock, kvClosed, pipeLock, pipeClosed, wire, signalVars>>

\* The writer waits for this call's own channel, not for a context of the
\* caller that commonly never ends.
WriterMayStopNever == FALSE
WriterMayStop == released

WriterReleased ==
  /\ pc["writer"] = "parked"
  /\ WriterMayStop
  /\ Goto("writer", "closing")
  /\ UNCHANGED <<exchangeVars, writeVars, signalVars>>

\* The writer's deferred pw.Close and close(writerExited).
WriterExits ==
  /\ pc["writer"] = "closing"
  /\ pipeClosed' = TRUE
  /\ Goto("writer", "exited")
  /\ UNCHANGED <<exchangeVars, kvLock, kvClosed, lastWriteErr, pipeLock, wire, signalVars>>

Writer == WriterWriteFails \/ WriterRecordsErr \/ WriterReleased \/ WriterExits
-----------------------------------------------------------------------------
(* The heartbeat goroutine (stream.go:282-300).                            *)

\* select picks at random among the ready cases, so a tick may still be
\* taken after the channels that end the goroutine are closed.
HeartbeatTicks ==
  /\ pc["heartbeat"] = "select"
  /\ ticks < MaxTicks
  /\ ticks' = ticks + 1
  /\ Goto("heartbeat", "lock")
  /\ UNCHANGED <<exchangeVars, writeVars, dropped, ctxDone, released, heartbeatDone>>

HeartbeatMayWrite == ~kvClosed

HeartbeatLocks ==
  /\ pc["heartbeat"] = "lock"
  /\ KvLockFree
  /\ IF HeartbeatMayWrite
       THEN kvLock' = "heartbeat" /\ Goto("heartbeat", "write")
       ELSE kvLock' = kvLock /\ Goto("heartbeat", "exited")
  /\ UNCHANGED <<exchangeVars, kvClosed, lastWriteErr, pipeLock, pipeClosed, wire,
                 signalVars>>

HeartbeatWriteFails ==
  /\ pc["heartbeat"] = "write"
  /\ pipeClosed
  /\ LeavePipe("heartbeat")
  /\ Unlock("heartbeat")
  /\ lastWriteErr' = "heartbeat"
  /\ Goto("heartbeat", "exited")
  /\ UNCHANGED <<exchangeVars, kvClosed, pipeClosed, wire, signalVars>>

HeartbeatStops ==
  /\ pc["heartbeat"] = "select"
  /\ heartbeatDone \/ ctxDone
  /\ Goto("heartbeat", "exited")
  /\ UNCHANGED <<exchangeVars, writeVars, signalVars>>

Heartbeat == HeartbeatTicks \/ HeartbeatLocks \/ HeartbeatWriteFails \/ HeartbeatStops
-----------------------------------------------------------------------------
(* The read loop, the calling goroutine (stream.go:341-433).               *)

Return(how, state) ==
  /\ outcome' = how
  /\ Goto("loop", state)

DoSucceeds ==
  /\ pc["loop"] = "do"
  /\ Goto("loop", "read")
  /\ UNCHANGED <<exchangeVars, writeVars, signalVars>>

\* A status other than 200: the response body is there to be closed.
DoRefused ==
  /\ pc["loop"] = "do"
  /\ Return("error", "closeBody")
  /\ UNCHANGED <<sent, arrived, handled, readErr, blobs, reply, result, writeVars, signalVars>>

\* No response: the deferred Body.Close was never registered, and nobody is
\* bound to have read or closed the request body.
DoFails ==
  /\ pc["loop"] = "do"
  /\ Return("error", "release")
  /\ UNCHANGED <<sent, arrived, handled, readErr, blobs, reply, result, writeVars, signalVars>>

\* Body.Read delivers some whole frames, the last of them perhaps together
\* with the error that ends a lost connection.
Reads(n) ==
  /\ pc["loop"] = "read"
  /\ n > arrived
  /\ arrived' = n
  /\ readErr' \in (IF dropped /\ n = Len(sent) THEN BOOLEAN ELSE {FALSE})
  /\ Goto("loop", "process")
  /\ UNCHANGED <<sent, handled, blobs, reply, result, outcome, writeVars, signalVars>>

ReadFails ==
  /\ pc["loop"] = "read"
  /\ ctxDone \/ (dropped /\ arrived = Len(sent))
  /\ readErr' = TRUE
  /\ Goto("loop", "process")
  /\ UNCHANGED <<sent, arrived, handled, blobs, reply, result, outcome, writeVars, signalVars>>

\* The next frame of the buffer: a clean end, an error, an answer to write
\* first, or just more to fold into the result.
NextMessage == sent[handled + 1]

StoresBlobNever(m) == blobs' = blobs
StoresBlob(m) == blobs' = IF m.kind = "kvSet" THEN blobs \cup {m.blob} ELSE blobs

FramesLeftUnlessErr == handled < arrived /\ ~readErr
FramesLeft == handled < arrived

Processes ==
  /\ pc["loop"] = "process"
  /\ FramesLeft
  /\ handled' = handled + 1
  /\ result' = Fold(result, handled + 1, NextMessage)
  /\ StoresBlob(NextMessage)
  /\ IF Answerable(NextMessage)
       THEN /\ reply' = ReplyFrame(handled + 1, /\ NextMessage.kind = "kvGet"
                                                /\ NextMessage.blob \in blobs)
            /\ outcome' = outcome
            /\ Goto("loop", "lock")
       ELSE /\ reply' = reply
            /\ IF EndsCleanly(NextMessage) THEN Return("ok", "closeBody")
               ELSE IF EndsInError(NextMessage) THEN Return("error", "closeBody")
               ELSE Return(outcome, "process")
  /\ UNCHANGED <<sent, arrived, readErr, writeVars, signalVars>>

\* A stream that ends without its end-of-stream frame is a dropped stream.
OutcomeOfReadErrOk == "ok"
OutcomeOfReadErr == "error"

BatchDone ==
  /\ pc["loop"] = "process"
  /\ ~FramesLeft
  /\ IF readErr THEN Return(OutcomeOfReadErr, "closeBody") ELSE Return(outcome, "read")
  /\ UNCHANGED <<sent, arrived, handled, readErr, blobs, reply, result, writeVars, signalVars>>

LoopLocks ==
  /\ pc["loop"] = "lock"
  /\ KvLockFree
  /\ kvLock' = "loop"
  /\ Goto("loop", "write")
  /\ UNCHANGED <<exchangeVars, kvClosed, lastWriteErr, pipeLock, pipeClosed, wire, signalVars>>

LoopIgnoresWriteErr ==
  /\ pc["loop"] = "write"
  /\ pipeClosed
  /\ LeavePipe("loop")
  /\ Unlock("loop")
  /\ lastWriteErr' = "loop"
  /\ Return(outcome, "process")
  /\ UNCHANGED <<sent, arrived, handled, readErr, blobs, reply, result, kvClosed,
                 pipeClosed, wire, signalVars>>

LoopWriteFails ==
  /\ pc["loop"] = "write"
  /\ pipeClosed
  /\ LeavePipe("loop")
  /\ Unlock("loop")
  /\ lastWriteErr' = "loop"
  /\ Return("error", "closeBody")
  /\ UNCHANGED <<sent, arrived, handled, readErr, blobs, reply, result, kvClosed,
                 pipeClosed, wire, signalVars>>
-----------------------------------------------------------------------------
(* The deferred steps of the call.                                         *)

Defer(step) ==
  /\ pc["loop"] = step
  /\ Goto("loop", AfterDefer[step])
  /\ UNCHANGED exchangeVars

\* Closing the response body makes the transport give up the request body.
CloseBody ==
  /\ Defer("closeBody")
  /\ pipeClosed' = TRUE
  /\ UNCHANGED <<kvLock, kvClosed, lastWriteErr, pipeLock, wire, signalVars>>

Release ==
  /\ Defer("release")
  /\ released' = TRUE
  /\ UNCHANGED <<writeVars, dropped, ctxDone, heartbeatDone, ticks>>

ClosePipe ==
  /\ Defer("closePipe")
  /\ pipeClosed' = TRUE
  /\ UNCHANGED <<kvLock, kvClosed, lastWriteErr, pipeLock, wire, signalVars>>

MayJoin == pc["writer"] = "exited"

Join ==
  /\ Defer("join")
  /\ MayJoin
  /\ UNCHANGED <<writeVars, signalVars>>

CloseKv ==
  /\ Defer("closeKv")
  /\ KvLockFree
  /\ kvClosed' = TRUE
  /\ UNCHANGED <<kvLock, lastWriteErr, pipeLock, pipeClosed, wire, signalVars>>

StopHeartbeat ==
  /\ Defer("stopHeartbeat")
  /\ heartbeatDone' = TRUE
  /\ UNCHANGED <<writeVars, dropped, ctxDone, released, ticks>>

Cancel ==
  /\ Defer("cancel")
  /\ ctxDone' = TRUE
  /\ UNCHANGED <<writeVars, dropped, released, heartbeatDone, ticks>>

Unwind == CloseBody \/ Release \/ ClosePipe \/ Join \/ CloseKv \/ StopHeartbeat \/ Cancel

\* The steps of the loop that wait for nobody outside the process.
Loop == \/ \E n \in 1..Len(sent) : Reads(n)
        \/ ReadFails \/ Processes \/ BatchDone
        \/ LoopLocks \/ LoopWriteFails \/ Unwind

\* Nothing is left to run; the call has returned and both goroutines ended.
Ended == pc = [loop |-> "done", writer |-> "exited", heartbeat |-> "exited"]
Terminated == Ended /\ UNCHANGED vars

Next ==
  \/ \E m \in Messages : ServerSends(m)
  \/ DropConnection \/ ExpireContext \/ TransportClosesPipe
  \/ \E t \in Threads : EnterPipe(t) \/ TransportReads(t)
  \/ Writer \/ Heartbeat
  \/ DoSucceeds \/ DoRefused \/ DoFails \/ Loop
  \/ Terminated

(***************************************************************************)
(* Runnable goroutines run.  The deadline passes, and a transport whose    *)
(* context is done fails Do and closes the request body; nothing else is   *)
(* asked of the network: the server may never speak, and the transport may *)
(* never read a frame of the pipe.                                         *)
(***************************************************************************)
Fairness ==
  /\ WF_vars(Loop)
  /\ WF_vars(Writer)
  /\ WF_vars(Heartbeat)
  /\ WF_vars(HeartbeatStops)
  /\ WF_vars(ExpireContext)
  /\ WF_vars(ctxDone /\ TransportClosesPipe)
  /\ WF_vars(ctxDone /\ DoFails)

Spec == Init /\ [][Next]_vars /\ Fairness
-----------------------------------------------------------------------------
(* Properties.                                                             *)

IsReply(f) == f.type = "reply"

\* What Cursor waits for an answer to, and what it counts as a finished turn.
Questions == {"kvGet", "kvSet", "mcp", "mcpUnnamed", "native", "nativeUnmapped", "context"}
CleanEnds == {"turnEnded", "endOk"}
Ends == CleanEnds \cup {"endErr", "endErrQuoting", "garbled"}

\* Every reply on the wire answers a message that asked for one, replies
\* are in the order of the questions and none is sent twice: the handshake
\* "is answered ... before continuing to read" (stream.go:229-233).
RepliesInOrder ==
  /\ \A j \in DOMAIN wire : IsReply(wire[j]) =>
       wire[j].to \in 1..handled /\ sent[wire[j].to].kind \in Questions
  /\ \A j, k \in DOMAIN wire :
       j < k /\ IsReply(wire[j]) /\ IsReply(wire[k]) => wire[j].to < wire[k].to

Unanswered == IF pc["loop"] \in {"lock", "write"} \/ outcome = "error" THEN {handled} ELSE {}

\* No question is skipped: whatever the loop has moved past is answered.
\* Cursor stalls the turn on an exec request nobody answers
\* (stream.go:397-406).
NoQuestionSkipped ==
  \A i \in (1..handled) \ Unanswered : sent[i].kind \in Questions =>
    \E j \in DOMAIN wire : IsReply(wire[j]) /\ wire[j].to = i

\* Success is a clean terminator and the first terminator of the stream: a
\* lost connection, an error frame or an unwritable reply is never reported
\* as a complete turn (stream.go:418-431, "never silently truncate").
SuccessIsACompleteTurn ==
  /\ outcome = "ok" => handled > 0 /\ sent[handled].kind \in CleanEnds
  /\ \A i \in 1..handled : sent[i].kind \in Ends => i = handled /\ outcome # "running"

\* The result is exactly the fold of what was processed, whatever ends the
\* exchange, and frames delivered together with the read error are not lost.
ResultIsFoldOfHandled ==
  /\ result.updates = {i \in 1..handled : IsUpdate(sent[i])}
  /\ result.toolRequests = {i \in 1..handled : IsCaptured(sent[i])}
  /\ LET cps == {i \in 1..handled : sent[i].kind = "checkpoint"}
     IN result.checkpoint = IF cps = {} THEN 0
                            ELSE CHOOSE i \in cps : \A k \in cps : k <= i
  /\ outcome = "error" /\ handled < arrived =>
       handled > 0 /\ sent[handled].kind \in Ends \cup Questions

\* A blob the server stored in this exchange is found when it asks again.
StoredBlobIsFound ==
  \A j \in DOMAIN wire : \A i \in 1..handled :
    /\ IsReply(wire[j])
    /\ sent[wire[j].to].kind = "kvGet"
    /\ i < wire[j].to
    /\ sent[i].kind = "kvSet"
    /\ sent[i].blob = sent[wire[j].to].blob
    => wire[j].data

\* When the call has returned, the writer goroutine is gone and a late
\* heartbeat tick finds the writer closed: it never enters the pipe
\* (stream.go:280-281, 506-507).
NothingWritesAfterReturn ==
  pc["loop"] = "done" =>
    /\ pc["writer"] = "exited"
    /\ pc["heartbeat"] # "write"
    /\ kvLock = "free"

\* The kvWriter mutex admits one goroutine to the pipe (stream.go:479-481).
OneKvWriter == ~(pc["loop"] = "write" /\ pc["heartbeat"] = "write")

\* The call returns, however the network and the server behave.
CallReturns == <>(pc["loop"] = "done")

\* No goroutine is leaked (stream.go:236-243).
NoGoroutineLeak == <>[]Ended

\* The exchange is the sequential loop of StreamExchange to its caller.
AnsweredOnWire == {wire[j].to : j \in {k \in DOMAIN wire : IsReply(wire[k])}}

Promise == INSTANCE StreamExchange WITH
  owed <- pc["loop"] \in {"lock", "write"},
  answered <- AnsweredOnWire

KeepsPromise == Promise!Spec
=============================================================================

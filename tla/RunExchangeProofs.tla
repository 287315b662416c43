-------------------------- MODULE RunExchangeProofs --------------------------
(***************************************************************************)
(* Theorems about RunExchange for every set of kinds and blobs and every   *)
(* bound: types, the two locks' discipline, the order of the deferred      *)
(* steps, the order of the replies, the meaning of success, and that the   *)
(* exchange implements the sequential one of StreamExchange.               *)
(***************************************************************************)
EXTENDS RunExchange, TLAPS

\* The operators that say where a goroutine stands and what it may go to.
USE DEF Goto, Return, KvLockFree, Unlock, LeavePipe, Defer

LEMMA MessagesAreMessage == Messages \subseteq Message
BY DEF Messages

LEMMA FoldType ==
  ASSUME NEW r \in [updates : SUBSET Nat, toolRequests : SUBSET Nat, checkpoint : Nat],
         NEW i \in Nat, NEW m
  PROVE  Fold(r, i, m) \in [updates : SUBSET Nat, toolRequests : SUBSET Nat, checkpoint : Nat]
BY DEF Fold

LEMMA FramesAreFrame ==
  /\ RunFrame \in Frame
  /\ HeartbeatFrame \in Frame
  /\ \A i \in Nat, data \in BOOLEAN : ReplyFrame(i, data) \in Frame
BY DEF RunFrame, HeartbeatFrame, ReplyFrame, Frame

LEMMA InitTypeOK == Init => TypeOK
<1> SUFFICES ASSUME Init PROVE TypeOK
  OBVIOUS
<1> USE DEF Init
<1>1. pc \in [Threads -> LoopStates \cup WriterStates \cup HeartbeatStates]
  BY DEF Threads, LoopStates, WriterStates, HeartbeatStates, Exchanging, AfterDefer
<1>2. /\ pc["loop"] \in LoopStates
      /\ pc["writer"] \in WriterStates
      /\ pc["heartbeat"] \in HeartbeatStates
  BY DEF Threads, LoopStates, WriterStates, HeartbeatStates, Exchanging, AfterDefer
<1>3. reply \in Frame
  BY FramesAreFrame
<1>4. ticks \in 0..MaxTicks
  BY MaxTicksAssumption
<1>5. result \in [updates : SUBSET Nat, toolRequests : SUBSET Nat, checkpoint : Nat]
  BY DEF NoResult
<1>6. sent \in Seq(Message) /\ wire \in Seq(Frame) /\ arrived \in 0..Len(sent) /\ handled \in 0..arrived
  OBVIOUS
<1> QED
  BY <1>1, <1>2, <1>3, <1>4, <1>5, <1>6 DEF TypeOK, Threads

\* One step per action; a step that only moves a goroutine, takes a lock or
\* sets a flag needs no more than its definition.
LEMMA NextTypeOK == TypeOK /\ [Next]_vars => TypeOK'
<1> SUFFICES ASSUME TypeOK, [Next]_vars PROVE TypeOK'
  OBVIOUS
<1> USE DEF TypeOK, Threads, LoopStates, WriterStates, HeartbeatStates, Exchanging,
            AfterDefer, exchangeVars, writeVars, signalVars
<1>1. ASSUME NEW m \in Messages, ServerSends(m) PROVE TypeOK'
  <2>1. sent' \in Seq(Message) /\ Len(sent') = Len(sent) + 1
    BY <1>1, MessagesAreMessage DEF ServerSends
  <2> QED
    BY <1>1, <2>1 DEF ServerSends
<1>2. CASE DropConnection \/ ExpireContext \/ TransportClosesPipe
  <2>1. CASE DropConnection
    BY <2>1 DEF DropConnection
  <2>2. CASE ExpireContext
    BY <2>2 DEF ExpireContext
  <2>3. CASE TransportClosesPipe
    BY <2>3 DEF TransportClosesPipe
  <2> QED
    BY <1>2, <2>1, <2>2, <2>3
<1>3. ASSUME NEW t \in Threads, EnterPipe(t) PROVE TypeOK'
  BY <1>3 DEF EnterPipe
<1>4. ASSUME NEW t \in Threads, TransportReads(t) PROVE TypeOK'
  <2>1. FrameOf(t) \in Frame
    BY FramesAreFrame DEF FrameOf
  <2>2. wire' \in Seq(Frame)
    BY <1>4, <2>1 DEF TransportReads
  <2>3. /\ pc' \in [Threads -> LoopStates \cup WriterStates \cup HeartbeatStates]
        /\ pc'["loop"] \in LoopStates
        /\ pc'["writer"] \in WriterStates
        /\ pc'["heartbeat"] \in HeartbeatStates
    BY <1>4 DEF TransportReads, AfterWrite
  <2> QED
    BY <1>4, <2>2, <2>3 DEF TransportReads
<1>5. CASE Writer
  <2>1. CASE WriterWriteFails
    BY <2>1 DEF WriterWriteFails
  <2>2. CASE WriterRecordsErr
    BY <2>2 DEF WriterRecordsErr
  <2>3. CASE WriterReleased
    BY <2>3 DEF WriterReleased
  <2>4. CASE WriterExits
    BY <2>4 DEF WriterExits
  <2> QED
    BY <1>5, <2>1, <2>2, <2>3, <2>4 DEF Writer
<1>6. CASE Heartbeat
  <2>1. CASE HeartbeatTicks
    BY <2>1, MaxTicksAssumption DEF HeartbeatTicks
  <2>2. CASE HeartbeatLocks
    BY <2>2 DEF HeartbeatLocks
  <2>3. CASE HeartbeatWriteFails
    BY <2>3 DEF HeartbeatWriteFails
  <2>4. CASE HeartbeatStops
    BY <2>4 DEF HeartbeatStops
  <2> QED
    BY <1>6, <2>1, <2>2, <2>3, <2>4 DEF Heartbeat
<1>7. CASE DoSucceeds \/ DoRefused \/ DoFails
  BY <1>7 DEF DoSucceeds, DoRefused, DoFails
<1>8. ASSUME NEW n \in 1..Len(sent), Reads(n) PROVE TypeOK'
  <2>1. readErr' \in BOOLEAN
    BY <1>8 DEF Reads
  <2>2. arrived' \in 0..Len(sent) /\ handled \in 0..arrived'
    BY <1>8 DEF Reads
  <2> QED
    BY <1>8, <2>1, <2>2 DEF Reads
<1>9. CASE ReadFails
  BY <1>9 DEF ReadFails
<1>10. CASE Processes
  <2>1. handled + 1 \in Nat /\ handled + 1 \in 1..arrived
    BY <1>10 DEF Processes, FramesLeft
  <2>2. result' \in [updates : SUBSET Nat, toolRequests : SUBSET Nat, checkpoint : Nat]
    BY <1>10, <2>1, FoldType DEF Processes
  <2>3. reply' \in Frame
    BY <1>10, <2>1, FramesAreFrame DEF Processes
  <2>4. blobs' \subseteq Blobs
    <3>1. NextMessage \in Message
      BY <2>1 DEF NextMessage
    <3>2. NextMessage.blob \in Blobs
      BY <3>1 DEF Message
    <3> QED
      BY <1>10, <3>2 DEF Processes, StoresBlob
  <2>5. /\ pc' \in [Threads -> LoopStates \cup WriterStates \cup HeartbeatStates]
        /\ pc'["loop"] \in LoopStates
        /\ pc'["writer"] \in WriterStates
        /\ pc'["heartbeat"] \in HeartbeatStates
        /\ outcome' \in {"running", "ok", "error"}
    <3>1. \E to \in {"lock", "process", "closeBody"}, o \in {"running", "ok", "error"} :
            pc' = [pc EXCEPT !["loop"] = to] /\ outcome' = o
      BY <1>10 DEF Processes
    <3> QED
      BY <3>1
  <2> QED
    BY <1>10, <2>1, <2>2, <2>3, <2>4, <2>5 DEF Processes
<1>11. CASE BatchDone
  BY <1>11 DEF BatchDone, OutcomeOfReadErr
<1>12. CASE LoopLocks \/ LoopWriteFails
  BY <1>12 DEF LoopLocks, LoopWriteFails
<1>13. CASE Unwind
  <2>1. CASE CloseBody
    BY <2>1 DEF CloseBody
  <2>2. CASE Release
    BY <2>2 DEF Release
  <2>3. CASE ClosePipe
    BY <2>3 DEF ClosePipe
  <2>4. CASE Join
    BY <2>4 DEF Join
  <2>5. CASE CloseKv
    BY <2>5 DEF CloseKv
  <2>6. CASE StopHeartbeat
    BY <2>6 DEF StopHeartbeat
  <2>7. CASE Cancel
    BY <2>7 DEF Cancel
  <2> QED
    BY <1>13, <2>1, <2>2, <2>3, <2>4, <2>5, <2>6, <2>7 DEF Unwind
<1>14. CASE UNCHANGED vars
  BY <1>14 DEF vars
<1> QED
  BY <1>1, <1>2, <1>3, <1>4, <1>5, <1>6, <1>7, <1>8, <1>9, <1>10, <1>11, <1>12, <1>13,
     <1>14 DEF Next, Loop, Terminated

\* Every variable keeps its type, for every instance of the constants.
THEOREM TypeCorrect == Spec => []TypeOK
BY InitTypeOK, NextTypeOK, PTL DEF Spec
-----------------------------------------------------------------------------
(* The locks and the deferred steps.                                       *)

\* The mutex of kvWriter is held exactly by the goroutine at its write.
LocksHeld ==
  /\ kvLock = "loop" <=> pc["loop"] = "write"
  /\ kvLock = "heartbeat" <=> pc["heartbeat"] = "write"

\* What the deferred steps behind the loop have achieved: the writer is gone
\* once the loop is past the join, the kvWriter is closed once it is past
\* its close, and a closed kvWriter has no writer.
UnwindOrder ==
  /\ pc["loop"] \in {"closeKv", "stopHeartbeat", "cancel", "done"} => pc["writer"] = "exited"
  /\ pc["loop"] \in {"stopHeartbeat", "cancel", "done"} => kvClosed
  /\ kvClosed => pc["heartbeat"] # "write"

LEMMA LocksHeldStep == TypeOK /\ LocksHeld /\ [Next]_vars => LocksHeld'
<1> SUFFICES ASSUME TypeOK, LocksHeld, [Next]_vars PROVE LocksHeld'
  OBVIOUS
<1> USE DEF TypeOK, LocksHeld, Threads, exchangeVars, writeVars, signalVars
<1>1. ASSUME NEW m \in Messages, ServerSends(m) PROVE LocksHeld'
  BY <1>1 DEF ServerSends
<1>2. CASE DropConnection \/ ExpireContext \/ TransportClosesPipe
  BY <1>2 DEF DropConnection, ExpireContext, TransportClosesPipe
<1>3. ASSUME NEW t \in Threads, EnterPipe(t) PROVE LocksHeld'
  BY <1>3 DEF EnterPipe
<1>4. ASSUME NEW t \in Threads, TransportReads(t) PROVE LocksHeld'
  BY <1>4 DEF TransportReads, AfterWrite, KvThreads
<1>5. CASE Writer
  BY <1>5 DEF Writer, WriterWriteFails, WriterRecordsErr, WriterReleased,
              WriterExits
<1>6. CASE Heartbeat
  BY <1>6 DEF Heartbeat, HeartbeatTicks, HeartbeatLocks, HeartbeatWriteFails,
              HeartbeatStops, KvThreads
<1>7. CASE DoSucceeds \/ DoRefused \/ DoFails
  BY <1>7 DEF DoSucceeds, DoRefused, DoFails
<1>8. ASSUME NEW n \in 1..Len(sent), Reads(n) PROVE LocksHeld'
  BY <1>8 DEF Reads
<1>9. CASE ReadFails
  BY <1>9 DEF ReadFails
<1>10. CASE Processes
  BY <1>10 DEF Processes
<1>11. CASE BatchDone
  BY <1>11 DEF BatchDone
<1>12. CASE LoopLocks \/ LoopWriteFails
  BY <1>12 DEF LoopLocks, LoopWriteFails, KvThreads
<1>13. CASE Unwind
  BY <1>13 DEF Unwind, CloseBody, Release, ClosePipe, Join, CloseKv, StopHeartbeat, Cancel,
               AfterDefer
<1>14. CASE UNCHANGED vars
  BY <1>14 DEF vars
<1> QED
  BY <1>1, <1>2, <1>3, <1>4, <1>5, <1>6, <1>7, <1>8, <1>9, <1>10, <1>11, <1>12, <1>13,
     <1>14 DEF Next, Loop, Terminated

LEMMA UnwindOrderStep == TypeOK /\ LocksHeld /\ UnwindOrder /\ [Next]_vars => UnwindOrder'
<1> SUFFICES ASSUME TypeOK, LocksHeld, UnwindOrder, [Next]_vars PROVE UnwindOrder'
  OBVIOUS
<1> USE DEF TypeOK, UnwindOrder, Threads, exchangeVars, writeVars, signalVars
<1>1. ASSUME NEW m \in Messages, ServerSends(m) PROVE UnwindOrder'
  BY <1>1 DEF ServerSends
<1>2. CASE DropConnection \/ ExpireContext \/ TransportClosesPipe
  BY <1>2 DEF DropConnection, ExpireContext, TransportClosesPipe
<1>3. ASSUME NEW t \in Threads, EnterPipe(t) PROVE UnwindOrder'
  BY <1>3 DEF EnterPipe
<1>4. ASSUME NEW t \in Threads, TransportReads(t) PROVE UnwindOrder'
  BY <1>4 DEF TransportReads, AfterWrite, Exchanging
<1>5. CASE Writer
  BY <1>5 DEF Writer, WriterWriteFails, WriterRecordsErr, WriterReleased,
              WriterExits
<1>6. CASE Heartbeat
  BY <1>6 DEF Heartbeat, HeartbeatTicks, HeartbeatLocks, HeartbeatWriteFails,
              HeartbeatStops, HeartbeatMayWrite
<1>7. CASE DoSucceeds \/ DoRefused \/ DoFails
  BY <1>7 DEF DoSucceeds, DoRefused, DoFails
<1>8. ASSUME NEW n \in 1..Len(sent), Reads(n) PROVE UnwindOrder'
  BY <1>8 DEF Reads
<1>9. CASE ReadFails
  BY <1>9 DEF ReadFails
<1>10. CASE Processes
  BY <1>10 DEF Processes
<1>11. CASE BatchDone
  BY <1>11 DEF BatchDone
<1>12. CASE LoopLocks \/ LoopWriteFails
  BY <1>12 DEF LoopLocks, LoopWriteFails
<1>13. CASE Unwind
  BY <1>13 DEF Unwind, CloseBody, Release, ClosePipe, Join, CloseKv, StopHeartbeat, Cancel,
               AfterDefer, MayJoin, LocksHeld
<1>14. CASE UNCHANGED vars
  BY <1>14 DEF vars
<1> QED
  BY <1>1, <1>2, <1>3, <1>4, <1>5, <1>6, <1>7, <1>8, <1>9, <1>10, <1>11, <1>12, <1>13,
     <1>14 DEF Next, Loop, Terminated

LEMMA Unwinding == Spec => [](TypeOK /\ LocksHeld /\ UnwindOrder)
<1>1. Init => TypeOK /\ LocksHeld /\ UnwindOrder
  BY InitTypeOK DEF Init, LocksHeld, UnwindOrder
<1> QED
  BY <1>1, NextTypeOK, LocksHeldStep, UnwindOrderStep, PTL DEF Spec

\* The mutex of kvWriter admits one goroutine to the pipe.
THEOREM KvWriterIsExclusive == Spec => []OneKvWriter
<1>1. LocksHeld => OneKvWriter
  BY DEF LocksHeld, OneKvWriter
<1> QED
  BY <1>1, Unwinding, PTL

\* Nothing of the call outlives it: when it has returned, the writer has
\* exited and the heartbeat cannot be within a write.
THEOREM ReturnIsFinal == Spec => []NothingWritesAfterReturn
<1>1. TypeOK /\ LocksHeld /\ UnwindOrder => NothingWritesAfterReturn
  BY DEF TypeOK, LocksHeld, UnwindOrder, NothingWritesAfterReturn
<1> QED
  BY <1>1, Unwinding, PTL
-----------------------------------------------------------------------------
(* What the steps of the other goroutines and of the deferred calls leave  *)
(* to the invariants of the read loop.                                     *)

\* A step of the environment, the writer or the heartbeat: the loop stands
\* still, the stream may grow at its end and the wire by a frame that is no
\* reply.
Aside ==
  /\ pc'["loop"] = pc["loop"]
  /\ UNCHANGED <<arrived, handled, readErr, blobs, reply, result, outcome>>
  /\ Len(sent') >= Len(sent)
  /\ \A i \in 1..Len(sent) : sent'[i] = sent[i]
  /\ DOMAIN wire \subseteq DOMAIN wire'
  /\ \A j \in DOMAIN wire : wire'[j] = wire[j]
  /\ \A j \in DOMAIN wire' \ DOMAIN wire : ~IsReply(wire'[j])

\* A deferred step: the exchange is over, and the loop never goes back.
Unwinds ==
  /\ pc["loop"] \notin Exchanging
  /\ pc'["loop"] \notin Exchanging
  /\ UNCHANGED <<exchangeVars, wire>>

LEMMA AppendExtends ==
  ASSUME NEW S, NEW s \in Seq(S), NEW x \in S
  PROVE  /\ DOMAIN s = 1..Len(s)
         /\ DOMAIN Append(s, x) = 1..(Len(s) + 1)
         /\ \A j \in 1..Len(s) : Append(s, x)[j] = s[j]
         /\ Append(s, x)[Len(s) + 1] = x
OBVIOUS

LEMMA WriteAside ==
  ASSUME TypeOK, NEW t \in {"writer", "heartbeat"}, TransportReads(t)
  PROVE  Aside
<1> USE DEF TypeOK, Threads
<1>1. FrameOf(t) \in {RunFrame, HeartbeatFrame}
  BY DEF FrameOf
<1>2. FrameOf(t) \in Frame /\ ~IsReply(FrameOf(t))
  <2>1. ~IsReply(RunFrame) /\ ~IsReply(HeartbeatFrame)
    BY DEF RunFrame, HeartbeatFrame, IsReply
  <2> QED
    BY <1>1, <2>1, FramesAreFrame
<1>3. wire \in Seq(Frame) /\ wire' = Append(wire, FrameOf(t))
  BY DEF TransportReads
<1>4. /\ DOMAIN wire = 1..Len(wire)
      /\ DOMAIN wire' = 1..(Len(wire) + 1)
      /\ \A j \in 1..Len(wire) : wire'[j] = wire[j]
      /\ wire'[Len(wire) + 1] = FrameOf(t)
  BY <1>2, <1>3, AppendExtends
<1>5. /\ DOMAIN wire \subseteq DOMAIN wire'
      /\ \A j \in DOMAIN wire : wire'[j] = wire[j]
      /\ \A j \in DOMAIN wire' \ DOMAIN wire : wire'[j] = FrameOf(t)
  BY <1>3, <1>4
<1> QED
  BY <1>2, <1>5 DEF TransportReads, Aside, exchangeVars

LEMMA StepCases ==
  ASSUME TypeOK, [Next]_vars
  PROVE  \/ Aside \/ Unwinds
         \/ DoSucceeds \/ DoRefused \/ DoFails
         \/ \E n \in 1..Len(sent) : Reads(n)
         \/ ReadFails \/ Processes \/ BatchDone
         \/ LoopLocks \/ LoopWriteFails \/ TransportReads("loop")
<1> USE DEF TypeOK, Threads, exchangeVars, writeVars, signalVars
<1>1. ASSUME NEW m \in Messages, ServerSends(m) PROVE Aside
  BY <1>1, MessagesAreMessage DEF ServerSends, Aside
<1>2. CASE DropConnection \/ ExpireContext \/ TransportClosesPipe
  BY <1>2 DEF DropConnection, ExpireContext, TransportClosesPipe, Aside
<1>3. ASSUME NEW t \in Threads, EnterPipe(t) PROVE Aside
  BY <1>3 DEF EnterPipe, Aside
<1>4. ASSUME NEW t \in Threads, TransportReads(t) PROVE Aside \/ TransportReads("loop")
  BY <1>4, WriteAside
<1>5. CASE Writer
  BY <1>5 DEF Writer, WriterWriteFails, WriterRecordsErr, WriterReleased,
              WriterExits, Aside
<1>6. CASE Heartbeat
  BY <1>6 DEF Heartbeat, HeartbeatTicks, HeartbeatLocks, HeartbeatWriteFails,
              HeartbeatStops, Aside
<1>7. CASE Unwind
  BY <1>7 DEF Unwind, CloseBody, Release, ClosePipe, Join, CloseKv, StopHeartbeat, Cancel,
              AfterDefer, Unwinds, Exchanging
<1>8. CASE UNCHANGED vars
  BY <1>8 DEF vars, Aside
<1> QED
  BY <1>1, <1>2, <1>3, <1>4, <1>5, <1>6, <1>7, <1>8 DEF Next, Loop, Terminated
-----------------------------------------------------------------------------
(* Success.                                                                *)

\* The outcome is decided by the step that leaves the exchange.
OutcomeDecided == outcome = "running" <=> pc["loop"] \in Exchanging

Success == OutcomeDecided /\ SuccessIsACompleteTurn

LEMMA SuccessStep == TypeOK /\ Success /\ [Next]_vars => Success'
<1> SUFFICES ASSUME TypeOK, Success, [Next]_vars PROVE Success'
  OBVIOUS
<1> USE DEF TypeOK, Threads, Success, OutcomeDecided, SuccessIsACompleteTurn, Exchanging
<1>1. CASE Aside
  <2>1. \A i \in 1..handled : i \in 1..Len(sent) /\ sent'[i] = sent[i]
    BY <1>1 DEF Aside
  <2>2. outcome' = outcome /\ handled' = handled /\ pc'["loop"] = pc["loop"]
    BY <1>1 DEF Aside
  <2>3. handled > 0 => handled \in 1..handled
    OBVIOUS
  <2> QED
    BY <2>1, <2>2, <2>3
<1>2. CASE Unwinds
  BY <1>2 DEF Unwinds, exchangeVars
<1>3. CASE DoSucceeds \/ LoopLocks
  BY <1>3 DEF DoSucceeds, LoopLocks, exchangeVars
<1>4. CASE DoRefused \/ DoFails \/ LoopWriteFails
  BY <1>4 DEF DoRefused, DoFails, LoopWriteFails
<1>5. ASSUME NEW n \in 1..Len(sent), Reads(n) PROVE Success'
  BY <1>5 DEF Reads
<1>6. CASE ReadFails
  BY <1>6 DEF ReadFails
<1>7. CASE Processes
  <2>1. /\ pc["loop"] = "process"
        /\ handled + 1 \in 1..Len(sent)
        /\ handled' = handled + 1
        /\ sent' = sent
        /\ NextMessage = sent[handled + 1]
    BY <1>7 DEF Processes, FramesLeft, NextMessage
  <2>2. outcome = "running" /\ \A i \in 1..handled : sent[i].kind \notin Ends
    BY <2>1
  <2>3. CASE Answerable(NextMessage)
    <3>1. NextMessage.kind \notin Ends
      BY <2>3 DEF Answerable, BlobKinds, ExecKinds, Ends, CleanEnds
    <3> QED
      BY <1>7, <2>1, <2>2, <2>3, <3>1 DEF Processes
  <2>4. CASE ~Answerable(NextMessage)
    <3>1. /\ EndsCleanly(NextMessage) <=> NextMessage.kind \in CleanEnds
          /\ EndsCleanly(NextMessage) \/ EndsInError(NextMessage)
               <=> NextMessage.kind \in Ends
      BY DEF EndsCleanly, EndsInError, EndKinds, Ends, CleanEnds
    <3>2. CASE EndsCleanly(NextMessage)
      BY <1>7, <2>1, <2>2, <2>4, <3>1, <3>2 DEF Processes
    <3>3. CASE ~EndsCleanly(NextMessage) /\ EndsInError(NextMessage)
      BY <1>7, <2>1, <2>2, <2>4, <3>1, <3>3 DEF Processes
    <3>4. CASE ~EndsCleanly(NextMessage) /\ ~EndsInError(NextMessage)
      BY <1>7, <2>1, <2>2, <2>4, <3>1, <3>4 DEF Processes
    <3> QED
      BY <3>2, <3>3, <3>4
  <2> QED
    BY <2>3, <2>4
<1>8. CASE BatchDone
  BY <1>8 DEF BatchDone, OutcomeOfReadErr
<1>9. CASE TransportReads("loop")
  BY <1>9 DEF TransportReads, AfterWrite, exchangeVars
<1> QED
  BY <1>1, <1>2, <1>3, <1>4, <1>5, <1>6, <1>7, <1>8, <1>9, StepCases

LEMMA Outcomes == Spec => [](TypeOK /\ Success)
<1>1. Init => TypeOK /\ Success
  BY InitTypeOK DEF Init, Success, OutcomeDecided, SuccessIsACompleteTurn, Exchanging
<1> QED
  BY <1>1, NextTypeOK, SuccessStep, PTL DEF Spec

\* A call succeeds only at the first terminator of the stream, and only when
\* that is a clean one.
THEOREM SuccessIsComplete == Spec => []SuccessIsACompleteTurn
<1>1. Success => SuccessIsACompleteTurn
  BY DEF Success
<1> QED
  BY <1>1, Outcomes, PTL
-----------------------------------------------------------------------------
(* The replies.                                                            *)

\* From its lock to the end of its write the loop holds the reply to the
\* last message it took, a question, and every reply before it is older.
ReplyPrepared ==
  pc["loop"] \in {"lock", "write"} =>
    /\ IsReply(reply)
    /\ reply.to = handled
    /\ handled \in 1..Len(sent)
    /\ sent[handled].kind \in Questions
    /\ \A j \in DOMAIN wire : IsReply(wire[j]) => wire[j].to < handled

Replies == ReplyPrepared /\ RepliesInOrder

LEMMA AnswerableIsQuestion ==
  ASSUME NEW m
  PROVE  Answerable(m) <=> m.kind \in Questions
BY DEF Answerable, BlobKinds, ExecKinds, Questions

\* A step that moves neither the wire nor the place in the stream.
LEMMA RepliesUntouched ==
  ASSUME Replies, UNCHANGED <<sent, handled, wire, reply>>,
         pc'["loop"] \in {"lock", "write"} => pc["loop"] \in {"lock", "write"}
  PROVE  Replies'
BY DEF Replies, ReplyPrepared, RepliesInOrder, IsReply

LEMMA RepliesStep == TypeOK /\ Replies /\ [Next]_vars => Replies'
<1> SUFFICES ASSUME TypeOK, Replies, [Next]_vars PROVE Replies'
  OBVIOUS
<1> USE DEF TypeOK, Threads, exchangeVars
<1>1. CASE Aside
  <2>1. \A j \in DOMAIN wire' : IsReply(wire'[j]) => j \in DOMAIN wire /\ wire'[j] = wire[j]
    BY <1>1 DEF Aside
  <2>2. /\ handled' = handled /\ reply' = reply /\ pc'["loop"] = pc["loop"]
        /\ Len(sent') >= Len(sent)
        /\ \A i \in 1..handled : i \in 1..Len(sent') /\ sent'[i] = sent[i]
    BY <1>1 DEF Aside
  <2>3. ReplyPrepared'
    <3> SUFFICES ASSUME pc["loop"] \in {"lock", "write"} PROVE ReplyPrepared'
      BY <2>2 DEF ReplyPrepared
    <3>1. /\ IsReply(reply) /\ reply.to = handled
          /\ handled \in 1..handled
          /\ sent[handled].kind \in Questions
          /\ \A j \in DOMAIN wire : IsReply(wire[j]) => wire[j].to < handled
      BY DEF Replies, ReplyPrepared
    <3> QED
      BY <2>1, <2>2, <3>1 DEF ReplyPrepared, IsReply
  <2>4. RepliesInOrder'
    <3>1. \A j \in DOMAIN wire' : IsReply(wire'[j]) =>
            wire'[j].to \in 1..handled' /\ sent'[wire'[j].to].kind \in Questions
      BY <2>1, <2>2 DEF Replies, RepliesInOrder
    <3>2. \A j, k \in DOMAIN wire' :
            j < k /\ IsReply(wire'[j]) /\ IsReply(wire'[k]) => wire'[j].to < wire'[k].to
      BY <2>1 DEF Replies, RepliesInOrder
    <3> QED
      BY <3>1, <3>2 DEF RepliesInOrder, IsReply
  <2> QED
    BY <2>3, <2>4 DEF Replies
<1>2. CASE Unwinds
  BY <1>2, RepliesUntouched DEF Unwinds, Exchanging
<1>3. CASE DoSucceeds \/ DoRefused \/ DoFails
  BY <1>3, RepliesUntouched DEF DoSucceeds, DoRefused, DoFails, writeVars
<1>4. ASSUME NEW n \in 1..Len(sent), Reads(n) PROVE Replies'
  BY <1>4, RepliesUntouched DEF Reads, writeVars
<1>5. CASE ReadFails \/ BatchDone
  BY <1>5, RepliesUntouched DEF ReadFails, BatchDone, writeVars
<1>6. CASE LoopLocks \/ LoopWriteFails
  BY <1>6, RepliesUntouched DEF LoopLocks, LoopWriteFails
<1>7. CASE Processes
  <2>1. /\ handled + 1 \in 1..Len(sent)
        /\ handled' = handled + 1
        /\ UNCHANGED <<sent, wire>>
        /\ NextMessage = sent[handled + 1]
    BY <1>7 DEF Processes, FramesLeft, NextMessage, writeVars
  <2>2. RepliesInOrder'
    BY <2>1 DEF Replies, RepliesInOrder, IsReply
  <2>3. \A j \in DOMAIN wire : IsReply(wire[j]) => wire[j].to < handled + 1
    BY DEF Replies, RepliesInOrder
  <2>4. CASE Answerable(NextMessage)
    <3>1. IsReply(reply') /\ reply'.to = handled + 1
      BY <1>7, <2>4 DEF Processes, ReplyFrame, IsReply
    <3>2. sent[handled + 1].kind \in Questions
      BY <2>1, <2>4, AnswerableIsQuestion
    <3> QED
      BY <2>1, <2>2, <2>3, <3>1, <3>2 DEF Replies, ReplyPrepared, IsReply
  <2>5. CASE ~Answerable(NextMessage)
    <3>1. pc'["loop"] \in {"process", "closeBody"}
      BY <1>7, <2>5 DEF Processes
    <3> QED
      BY <2>2, <3>1 DEF Replies, ReplyPrepared
  <2> QED
    BY <2>4, <2>5
<1>8. CASE TransportReads("loop")
  <2>1. /\ pc["loop"] = "write"
        /\ pc'["loop"] = "process"
        /\ wire' = Append(wire, reply)
        /\ UNCHANGED <<sent, handled>>
    BY <1>8 DEF TransportReads, AfterWrite, FrameOf
  <2>2. /\ reply.to = handled
        /\ handled \in 1..handled
        /\ sent[handled].kind \in Questions
        /\ \A j \in DOMAIN wire : IsReply(wire[j]) => wire[j].to < handled
    BY <2>1 DEF Replies, ReplyPrepared
  <2>3. /\ DOMAIN wire = 1..Len(wire)
        /\ DOMAIN wire' = 1..(Len(wire) + 1)
        /\ wire'[Len(wire) + 1] = reply
        /\ \A j \in 1..Len(wire) : wire'[j] = wire[j]
    BY <2>1
  <2>4. \A j \in DOMAIN wire' : IsReply(wire'[j]) =>
          wire'[j].to \in 1..handled' /\ sent'[wire'[j].to].kind \in Questions
    <3> SUFFICES ASSUME NEW j \in DOMAIN wire', IsReply(wire'[j])
                 PROVE  wire'[j].to \in 1..handled' /\ sent'[wire'[j].to].kind \in Questions
      OBVIOUS
    <3>1. CASE j = Len(wire) + 1
      BY <2>1, <2>2, <2>3, <3>1
    <3>2. CASE j \in 1..Len(wire)
      BY <2>1, <2>3, <3>2 DEF Replies, RepliesInOrder
    <3> QED
      BY <2>3, <3>1, <3>2
  <2>5. \A j, k \in DOMAIN wire' :
          j < k /\ IsReply(wire'[j]) /\ IsReply(wire'[k]) => wire'[j].to < wire'[k].to
    <3> SUFFICES ASSUME NEW j \in DOMAIN wire', NEW k \in DOMAIN wire', j < k,
                        IsReply(wire'[j]), IsReply(wire'[k])
                 PROVE  wire'[j].to < wire'[k].to
      OBVIOUS
    <3>1. j \in 1..Len(wire)
      BY <2>3
    <3>2. CASE k = Len(wire) + 1
      BY <2>2, <2>3, <3>1, <3>2
    <3>3. CASE k \in 1..Len(wire)
      BY <2>3, <3>1, <3>3 DEF Replies, RepliesInOrder
    <3> QED
      BY <2>3, <3>2, <3>3
  <2>6. RepliesInOrder'
    BY <2>4, <2>5 DEF RepliesInOrder, IsReply
  <2> QED
    BY <2>1, <2>6 DEF Replies, ReplyPrepared
<1> QED
  BY <1>1, <1>2, <1>3, <1>4, <1>5, <1>6, <1>7, <1>8, StepCases

LEMMA ReplyOrder == Spec => [](TypeOK /\ Replies)
<1>1. Init => TypeOK /\ Replies
  BY InitTypeOK DEF Init, Replies, ReplyPrepared, RepliesInOrder
<1> QED
  BY <1>1, NextTypeOK, RepliesStep, PTL DEF Spec

\* Replies are on the wire in the order of the questions, each to a question
\* the loop has taken and none twice.
THEOREM RepliesOrdered == Spec => []RepliesInOrder
<1>1. Replies => RepliesInOrder
  BY DEF Replies
<1> QED
  BY <1>1, ReplyOrder, PTL

\* NoQuestionSkipped for one message; the quantifiers are set apart so that
\* each step can be argued for one message at a time.
IsAnswered(i) == \E j \in DOMAIN wire : IsReply(wire[j]) /\ wire[j].to = i

LEMMA AnswersStay ==
  ASSUME NEW i, IsAnswered(i),
         \A j \in DOMAIN wire : j \in DOMAIN wire' /\ wire'[j] = wire[j]
  PROVE  IsAnswered(i)'
BY DEF IsAnswered, IsReply

LEMMA NoQuestionSkippedStep ==
  TypeOK /\ Success /\ Replies /\ NoQuestionSkipped /\ [Next]_vars => NoQuestionSkipped'
<1> SUFFICES ASSUME TypeOK, Success, Replies, NoQuestionSkipped, [Next]_vars,
                    NEW i \in 1..handled', i \notin Unanswered', sent'[i].kind \in Questions
             PROVE  IsAnswered(i)'
  BY DEF NoQuestionSkipped, IsAnswered
<1> USE DEF TypeOK, Threads, Exchanging
<1>0. ASSUME i \in 1..handled, i \notin Unanswered, sent[i].kind \in Questions
      PROVE  IsAnswered(i)
  BY <1>0 DEF NoQuestionSkipped, IsAnswered
<1>a. ASSUME UNCHANGED <<sent, handled>>,
             \A j \in DOMAIN wire : j \in DOMAIN wire' /\ wire'[j] = wire[j],
             i \notin Unanswered
      PROVE  IsAnswered(i)'
  BY <1>0, <1>a, AnswersStay
<1>1. CASE Aside
  <2>1. i \in 1..handled /\ i \notin Unanswered /\ sent[i].kind \in Questions
    BY <1>1 DEF Aside, Unanswered
  <2> QED
    BY <1>0, <1>1, <2>1, AnswersStay DEF Aside
<1>2. CASE Unwinds
  BY <1>2, <1>a DEF Unwinds, exchangeVars, Unanswered
<1>3. CASE DoSucceeds \/ LoopLocks
  BY <1>3, <1>a DEF DoSucceeds, LoopLocks, exchangeVars, writeVars, Unanswered
<1>4. CASE DoRefused \/ DoFails \/ LoopWriteFails
  BY <1>4, <1>a DEF DoRefused, DoFails, LoopWriteFails, writeVars, Unanswered, Success,
                    OutcomeDecided
<1>5. ASSUME NEW n \in 1..Len(sent), Reads(n) PROVE IsAnswered(i)'
  BY <1>5, <1>a DEF Reads, writeVars, Unanswered
<1>6. CASE ReadFails
  BY <1>6, <1>a DEF ReadFails, writeVars, Unanswered
<1>7. CASE Processes
  <2>1. /\ pc["loop"] = "process"
        /\ handled + 1 \in 1..Len(sent)
        /\ handled' = handled + 1
        /\ UNCHANGED <<sent, wire>>
        /\ NextMessage = sent[handled + 1]
    BY <1>7 DEF Processes, FramesLeft, NextMessage, writeVars
  <2>2. Unanswered = {}
    BY <2>1 DEF Unanswered, Success, OutcomeDecided
  <2>3. CASE i = handled + 1
    <3>1. Answerable(NextMessage)
      BY <2>1, <2>3, AnswerableIsQuestion
    <3>2. pc'["loop"] = "lock"
      BY <1>7, <3>1 DEF Processes
    <3> QED
      BY <2>1, <2>3, <3>2 DEF Unanswered
  <2>4. CASE i # handled + 1
    BY <1>0, <2>1, <2>2, <2>4, AnswersStay
  <2> QED
    BY <2>3, <2>4
<1>8. CASE BatchDone
  BY <1>8, <1>a DEF BatchDone, writeVars, Unanswered, Success, OutcomeDecided
<1>9. CASE TransportReads("loop")
  <2>1. /\ pc["loop"] = "write"
        /\ wire' = Append(wire, reply)
        /\ UNCHANGED <<sent, handled>>
    BY <1>9 DEF TransportReads, FrameOf, exchangeVars
  <2>2. IsReply(reply) /\ reply.to = handled
    BY <2>1 DEF Replies, ReplyPrepared
  <2>3. /\ DOMAIN wire = 1..Len(wire)
        /\ DOMAIN wire' = 1..(Len(wire) + 1)
        /\ \A j \in 1..Len(wire) : wire'[j] = wire[j]
        /\ wire'[Len(wire) + 1] = reply
    BY <2>1, AppendExtends
  <2>4. CASE i = handled
    <3>1. /\ Len(wire) + 1 \in DOMAIN wire'
          /\ IsReply(wire'[Len(wire) + 1]) /\ wire'[Len(wire) + 1].to = i
      BY <2>2, <2>3, <2>4 DEF IsReply
    <3> QED
      BY <3>1 DEF IsAnswered, IsReply
  <2>5. CASE i # handled
    <3>1. i \notin Unanswered
      BY <2>1, <2>5 DEF Unanswered
    <3> QED
      BY <1>a, <2>1, <2>3, <3>1
  <2> QED
    BY <2>4, <2>5
<1> QED
  BY <1>1, <1>2, <1>3, <1>4, <1>5, <1>6, <1>7, <1>8, <1>9, StepCases

\* Every question the loop has moved past has its answer on the wire.
THEOREM QuestionsAnswered == Spec => []NoQuestionSkipped
<1>1. Init => NoQuestionSkipped
  BY DEF Init, NoQuestionSkipped
<1> QED
  BY <1>1, Outcomes, ReplyOrder, NoQuestionSkippedStep, PTL DEF Spec
-----------------------------------------------------------------------------
(* The result.                                                             *)

Largest(S) == CHOOSE i \in S : \A k \in S : k <= i
Checkpoints == {i \in 1..handled : sent[i].kind = "checkpoint"}

\* The parts of ResultIsFoldOfHandled.
Folded ==
  /\ result.updates = {i \in 1..handled : IsUpdate(sent[i])}
  /\ result.toolRequests = {i \in 1..handled : IsCaptured(sent[i])}
  /\ result.checkpoint = IF Checkpoints = {} THEN 0 ELSE Largest(Checkpoints)

\* An error leaves received messages unprocessed only behind a message that
\* is the error, or a question whose answer could not be written.
NothingHeldBack ==
  /\ pc["loop"] = "do" => arrived = 0
  /\ outcome = "error" /\ handled < arrived =>
       handled > 0 /\ sent[handled].kind \in Ends \cup Questions

LEMMA LargestIs ==
  ASSUME NEW S \in SUBSET Nat, NEW m \in S, \A k \in S : k <= m
  PROVE  Largest(S) = m
<1>1. Largest(S) \in S /\ \A k \in S : k <= Largest(S)
  BY DEF Largest
<1>2. m \in Nat /\ Largest(S) \in Nat /\ Largest(S) <= m /\ m <= Largest(S)
  BY <1>1
<1> QED
  BY <1>1, <1>2

\* Folding the next message is what the definition of Folded asks for.
LEMMA FoldedTakes ==
  ASSUME TypeOK, Folded, handled + 1 \in 1..Len(sent), handled' = handled + 1,
         sent' = sent, result' = Fold(result, handled + 1, sent[handled + 1])
  PROVE  Folded'
<1> USE DEF TypeOK
<1>1. 1..(handled + 1) = (1..handled) \cup {handled + 1}
  OBVIOUS
<1>2. result'.updates = {i \in 1..handled' : IsUpdate(sent'[i])}
  <2>1. result'.updates = result.updates \cup (IF IsUpdate(sent[handled + 1]) THEN {handled + 1} ELSE {})
    BY DEF Fold
  <2> QED
    BY <1>1, <2>1 DEF Folded
<1>3. result'.toolRequests = {i \in 1..handled' : IsCaptured(sent'[i])}
  <2>1. result'.toolRequests
          = result.toolRequests \cup (IF IsCaptured(sent[handled + 1]) THEN {handled + 1} ELSE {})
    BY DEF Fold
  <2> QED
    BY <1>1, <2>1 DEF Folded
<1>4. result'.checkpoint = IF Checkpoints' = {} THEN 0 ELSE Largest(Checkpoints')
  <2>1. Checkpoints' = Checkpoints \cup (IF sent[handled + 1].kind = "checkpoint" THEN {handled + 1} ELSE {})
    BY <1>1 DEF Checkpoints
  <2>2. CASE sent[handled + 1].kind = "checkpoint"
    <3>1. result'.checkpoint = handled + 1
      BY <2>2 DEF Fold
    <3>2. /\ Checkpoints' \in SUBSET Nat
          /\ handled + 1 \in Checkpoints'
          /\ \A k \in Checkpoints' : k <= handled + 1
      BY <2>1, <2>2 DEF Checkpoints
    <3>3. Largest(Checkpoints') = handled + 1
      BY <3>2, LargestIs
    <3> QED
      BY <3>1, <3>2, <3>3
  <2>3. CASE sent[handled + 1].kind # "checkpoint"
    <3>1. Checkpoints' = Checkpoints
      BY <2>1, <2>3
    <3>2. result'.checkpoint = result.checkpoint
      BY <2>3 DEF Fold
    <3> QED
      BY <3>1, <3>2 DEF Folded
  <2> QED
    BY <2>2, <2>3
<1> QED
  BY <1>2, <1>3, <1>4 DEF Folded

\* Folded speaks of the messages taken, which never change.
LEMMA FoldedStays ==
  ASSUME TypeOK, Folded, UNCHANGED <<handled, result>>,
         \A i \in 1..handled : sent'[i] = sent[i]
  PROVE  Folded'
<1>1. Checkpoints' = Checkpoints
  BY DEF Checkpoints
<1>2. {i \in 1..handled : IsUpdate(sent[i])}' = {i \in 1..handled : IsUpdate(sent[i])}
  BY DEF IsUpdate
<1>3. {i \in 1..handled : IsCaptured(sent[i])}' = {i \in 1..handled : IsCaptured(sent[i])}
  BY DEF IsCaptured
<1> QED
  BY <1>1, <1>2, <1>3 DEF Folded

LEMMA FoldedStep == TypeOK /\ Folded /\ [Next]_vars => Folded'
<1> SUFFICES ASSUME TypeOK, Folded, [Next]_vars PROVE Folded'
  OBVIOUS
<1> USE DEF exchangeVars
<1>1. CASE Aside
  <2>1. \A i \in 1..handled : sent'[i] = sent[i]
    BY <1>1 DEF Aside, TypeOK
  <2> QED
    BY <1>1, <2>1, FoldedStays DEF Aside
<1>2. CASE Unwinds
  BY <1>2, FoldedStays DEF Unwinds
<1>3. CASE DoSucceeds \/ DoRefused \/ DoFails
  BY <1>3, FoldedStays DEF DoSucceeds, DoRefused, DoFails
<1>4. ASSUME NEW n \in 1..Len(sent), Reads(n) PROVE Folded'
  BY <1>4, FoldedStays DEF Reads
<1>5. CASE ReadFails \/ BatchDone
  BY <1>5, FoldedStays DEF ReadFails, BatchDone
<1>6. CASE LoopLocks \/ LoopWriteFails \/ TransportReads("loop")
  BY <1>6, FoldedStays DEF LoopLocks, LoopWriteFails, TransportReads
<1>7. CASE Processes
  BY <1>7, FoldedTakes DEF Processes, FramesLeft, NextMessage, TypeOK
<1> QED
  BY <1>1, <1>2, <1>3, <1>4, <1>5, <1>6, <1>7, StepCases

LEMMA NothingHeldBackStep ==
  TypeOK /\ Success /\ Replies /\ NothingHeldBack /\ [Next]_vars => NothingHeldBack'
<1> SUFFICES ASSUME TypeOK, Success, Replies, NothingHeldBack, [Next]_vars
             PROVE  NothingHeldBack'
  OBVIOUS
<1> USE DEF TypeOK, Threads, NothingHeldBack, exchangeVars
<1>1. CASE Aside
  <2>1. handled > 0 => handled \in 1..Len(sent)
    OBVIOUS
  <2> QED
    BY <1>1, <2>1 DEF Aside
<1>2. CASE Unwinds
  BY <1>2 DEF Unwinds, Exchanging
<1>3. CASE DoSucceeds \/ DoRefused \/ DoFails
  BY <1>3 DEF DoSucceeds, DoRefused, DoFails
<1>4. ASSUME NEW n \in 1..Len(sent), Reads(n) PROVE NothingHeldBack'
  BY <1>4 DEF Reads, Success, OutcomeDecided, Exchanging
<1>5. CASE ReadFails
  BY <1>5 DEF ReadFails
<1>6. CASE Processes
  <2>1. /\ pc["loop"] = "process"
        /\ handled' = handled + 1
        /\ sent' = sent
        /\ NextMessage = sent[handled + 1]
        /\ outcome = "running"
    BY <1>6 DEF Processes, NextMessage, Success, OutcomeDecided, Exchanging
  <2>2. pc'["loop"] # "do"
    BY <1>6 DEF Processes
  <2>3. outcome' = "error" => NextMessage.kind \in Ends
    <3>1. outcome' = "error" => EndsInError(NextMessage)
      BY <1>6, <2>1 DEF Processes
    <3> QED
      BY <3>1 DEF EndsInError, EndKinds, Ends, CleanEnds
  <2> QED
    BY <2>1, <2>2, <2>3
<1>7. CASE BatchDone
  BY <1>7 DEF BatchDone, FramesLeft
<1>8. CASE LoopLocks
  BY <1>8 DEF LoopLocks
<1>9. CASE TransportReads("loop")
  BY <1>9 DEF TransportReads, AfterWrite
<1>10. CASE LoopWriteFails
  BY <1>10 DEF LoopWriteFails, Replies, ReplyPrepared
<1> QED
  BY <1>1, <1>2, <1>3, <1>4, <1>5, <1>6, <1>7, <1>8, <1>9, <1>10, StepCases

\* The result is the fold of the messages taken, and what was received is
\* taken unless a message before it ended the exchange.
THEOREM ResultIsFold == Spec => []ResultIsFoldOfHandled
<1>1. Init => Folded /\ NothingHeldBack
  <2> SUFFICES ASSUME Init PROVE Folded /\ NothingHeldBack
    OBVIOUS
  <2>1. 1..handled = {}
    BY DEF Init
  <2>2. Checkpoints = {}
    BY <2>1 DEF Checkpoints
  <2>3. result.updates = {} /\ result.toolRequests = {} /\ result.checkpoint = 0
    BY DEF Init, NoResult
  <2>4. Folded
    BY <2>1, <2>2, <2>3 DEF Folded
  <2> QED
    BY <2>4 DEF Init, NothingHeldBack
<1>2. Folded /\ NothingHeldBack => ResultIsFoldOfHandled
  BY DEF Folded, NothingHeldBack, ResultIsFoldOfHandled, Checkpoints, Largest
<1> QED
  BY <1>1, <1>2, TypeCorrect, Outcomes, ReplyOrder, FoldedStep, NothingHeldBackStep, PTL
     DEF Spec
-----------------------------------------------------------------------------
(* The blob handshake.                                                     *)

\* Message i stored the blob that message k asks for, and came before it.
StoredFor(i, k) ==
  /\ i < k
  /\ sent[i].kind = "kvSet"
  /\ sent[k].kind = "kvGet"
  /\ sent[i].blob = sent[k].blob

\* What the server stored is in the store, and the reply the loop is about
\* to write was looked up after all that.
BlobsKept ==
  /\ \A i \in 1..handled : sent[i].kind = "kvSet" => sent[i].blob \in blobs
  /\ pc["loop"] \in {"lock", "write"} =>
       \A i \in 1..handled : StoredFor(i, handled) => reply.data

\* StoredBlobIsFound with its conjunction named.
BlobsFound ==
  \A j \in DOMAIN wire : \A i \in 1..handled :
    IsReply(wire[j]) /\ StoredFor(i, wire[j].to) => wire[j].data

BlobsServed == BlobsKept /\ BlobsFound

LEMMA BlobsUntouched ==
  ASSUME BlobsServed, UNCHANGED <<sent, handled, wire, reply, blobs>>,
         pc'["loop"] \in {"lock", "write"} => pc["loop"] \in {"lock", "write"}
  PROVE  BlobsServed'
BY DEF BlobsServed, BlobsKept, BlobsFound, StoredFor, IsReply

LEMMA BlobsServedStep ==
  TypeOK /\ Replies /\ BlobsServed /\ [Next]_vars => BlobsServed'
<1> SUFFICES ASSUME TypeOK, Replies, BlobsServed, [Next]_vars PROVE BlobsServed'
  OBVIOUS
<1> USE DEF TypeOK, Threads, exchangeVars
<1>0. \A j \in DOMAIN wire : IsReply(wire[j]) => wire[j].to \in 1..handled
  BY DEF Replies, RepliesInOrder
<1>1. CASE Aside
  <2>1. /\ handled' = handled /\ blobs' = blobs /\ reply' = reply
        /\ \A i \in 1..handled : sent'[i] = sent[i]
        /\ handled > 0 => handled \in 1..handled
        /\ pc'["loop"] = pc["loop"]
    BY <1>1 DEF Aside
  <2>2. \A i, k \in 1..handled : StoredFor(i, k)' <=> StoredFor(i, k)
    BY <2>1 DEF StoredFor
  <2>3. BlobsKept'
    BY <2>1, <2>2 DEF BlobsServed, BlobsKept, Replies, ReplyPrepared
  <2>4. \A j \in DOMAIN wire' : IsReply(wire'[j]) => j \in DOMAIN wire /\ wire'[j] = wire[j]
    BY <1>1 DEF Aside
  <2>5. BlobsFound'
    <3> SUFFICES ASSUME NEW j \in DOMAIN wire', NEW i \in 1..handled',
                        IsReply(wire'[j]), StoredFor(i, wire[j].to)'
                 PROVE  wire'[j].data
      BY <2>4 DEF BlobsFound, IsReply
    <3>1. j \in DOMAIN wire /\ wire'[j] = wire[j] /\ IsReply(wire[j])
      BY <2>4 DEF IsReply
    <3>2. wire[j].to \in 1..handled /\ i \in 1..handled
      BY <1>0, <2>1, <3>1
    <3>3. StoredFor(i, wire[j].to)
      BY <2>1, <3>1, <3>2 DEF StoredFor
    <3> QED
      BY <3>1, <3>2, <3>3 DEF BlobsServed, BlobsFound
  <2> QED
    BY <2>3, <2>5 DEF BlobsServed
<1>2. CASE Unwinds
  BY <1>2, BlobsUntouched DEF Unwinds, Exchanging
<1>3. CASE DoSucceeds \/ DoRefused \/ DoFails
  BY <1>3, BlobsUntouched DEF DoSucceeds, DoRefused, DoFails, writeVars
<1>4. ASSUME NEW n \in 1..Len(sent), Reads(n) PROVE BlobsServed'
  BY <1>4, BlobsUntouched DEF Reads, writeVars
<1>5. CASE ReadFails \/ BatchDone
  BY <1>5, BlobsUntouched DEF ReadFails, BatchDone, writeVars
<1>6. CASE LoopLocks \/ LoopWriteFails
  BY <1>6, BlobsUntouched DEF LoopLocks, LoopWriteFails
<1>7. CASE Processes
  <2>1. /\ handled + 1 \in 1..Len(sent)
        /\ handled' = handled + 1
        /\ UNCHANGED <<sent, wire>>
        /\ NextMessage = sent[handled + 1]
        /\ blobs' = IF NextMessage.kind = "kvSet" THEN blobs \cup {NextMessage.blob} ELSE blobs
    BY <1>7 DEF Processes, FramesLeft, NextMessage, writeVars, StoresBlob
  <2>2. \A i \in 1..(handled + 1) : sent[i].kind = "kvSet" => sent[i].blob \in blobs'
    BY <2>1 DEF BlobsServed, BlobsKept
  <2>3. BlobsFound'
    <3> SUFFICES ASSUME NEW j \in DOMAIN wire, NEW i \in 1..(handled + 1),
                        IsReply(wire[j]), StoredFor(i, wire[j].to)
                 PROVE  wire[j].data
      BY <2>1 DEF BlobsFound, StoredFor, IsReply
    <3>1. i \in 1..handled
      BY <1>0 DEF StoredFor
    <3> QED
      BY <3>1 DEF BlobsServed, BlobsFound
  <2>4. ASSUME pc'["loop"] \in {"lock", "write"}, NEW i \in 1..(handled + 1),
               StoredFor(i, handled + 1)
        PROVE  reply'.data
    <3>1. Answerable(NextMessage)
      BY <1>7, <2>4 DEF Processes
    <3>2. i \in 1..handled /\ sent[i].blob \in blobs
      BY <2>4 DEF StoredFor, BlobsServed, BlobsKept
    <3>3. NextMessage.kind = "kvGet" /\ NextMessage.blob \in blobs
      BY <2>1, <2>4, <3>2 DEF StoredFor
    <3>4. reply' = ReplyFrame(handled + 1, NextMessage.kind = "kvGet" /\ NextMessage.blob \in blobs)
      BY <1>7, <3>1, Zenon DEF Processes
    <3>5. (NextMessage.kind = "kvGet" /\ NextMessage.blob \in blobs) = TRUE
      BY <3>3
    <3> QED
      BY <3>4, <3>5, Zenon DEF ReplyFrame
  <2>5. BlobsKept'
    BY <2>1, <2>2, <2>4 DEF BlobsKept, StoredFor
  <2> QED
    BY <2>3, <2>5 DEF BlobsServed
<1>8. CASE TransportReads("loop")
  <2>1. /\ pc["loop"] = "write"
        /\ pc'["loop"] = "process"
        /\ wire' = Append(wire, reply)
        /\ UNCHANGED <<sent, handled, blobs>>
    BY <1>8 DEF TransportReads, AfterWrite, FrameOf
  <2>2. /\ DOMAIN wire = 1..Len(wire)
        /\ DOMAIN wire' = 1..(Len(wire) + 1)
        /\ \A j \in 1..Len(wire) : wire'[j] = wire[j]
        /\ wire'[Len(wire) + 1] = reply
    BY <2>1, AppendExtends
  <2>3. reply.to = handled /\ \A i \in 1..handled : StoredFor(i, handled) => reply.data
    BY <2>1 DEF Replies, ReplyPrepared, BlobsServed, BlobsKept
  <2>4. BlobsKept'
    BY <2>1 DEF BlobsServed, BlobsKept
  <2>5. BlobsFound'
    <3> SUFFICES ASSUME NEW j \in DOMAIN wire', NEW i \in 1..handled,
                        IsReply(wire'[j]), StoredFor(i, wire'[j].to)
                 PROVE  wire'[j].data
      BY <2>1 DEF BlobsFound, StoredFor, IsReply
    <3>1. CASE j = Len(wire) + 1
      BY <2>2, <2>3, <3>1
    <3>2. CASE j # Len(wire) + 1
      BY <2>2, <3>2 DEF BlobsServed, BlobsFound, IsReply
    <3> QED
      BY <3>1, <3>2
  <2> QED
    BY <2>4, <2>5 DEF BlobsServed
<1> QED
  BY <1>1, <1>2, <1>3, <1>4, <1>5, <1>6, <1>7, <1>8, StepCases

\* A blob the server stored is served when it asks for it later.
THEOREM BlobsAreFound == Spec => []StoredBlobIsFound
<1>1. Init => BlobsServed
  BY DEF Init, BlobsServed, BlobsKept, BlobsFound
<1>2. BlobsServed => StoredBlobIsFound
  BY DEF BlobsServed, BlobsFound, StoredBlobIsFound, StoredFor
<1> QED
  BY <1>1, <1>2, ReplyOrder, BlobsServedStep, PTL DEF Spec
-----------------------------------------------------------------------------
(***************************************************************************)
(* RunExchange implements the sequential exchange of StreamExchange: its   *)
(* initial state is one of StreamExchange, and every step of a goroutine,  *)
(* of the network or of the deferred calls is a step of the sequential     *)
(* loop or none.                                                           *)
(***************************************************************************)

\* The loop is between taking a question and the end of its answer.
Owed == pc["loop"] \in {"lock", "write"}

\* The instance has the operators on messages of module StreamMessages.
LEMMA SameMessages ==
  /\ Promise!Messages = Messages
  /\ Promise!NoResult = NoResult
  /\ \A m : Promise!Answerable(m) <=> Answerable(m)
  /\ \A m : Promise!EndsCleanly(m) <=> EndsCleanly(m)
  /\ \A m : Promise!EndsInError(m) <=> EndsInError(m)
  /\ \A r, i, m : Promise!Fold(r, i, m) = Fold(r, i, m)
BY DEF Promise!Messages, Messages, Promise!Message, Message, Promise!NoResult, NoResult,
       Promise!Answerable, Answerable, Promise!BlobKinds, BlobKinds,
       Promise!ExecKinds, ExecKinds, Promise!EndsCleanly, EndsCleanly,
       Promise!EndsInError, EndsInError, Promise!EndKinds, EndKinds,
       Promise!Fold, Fold, Promise!IsUpdate, IsUpdate, Promise!UpdateKinds, UpdateKinds,
       Promise!IsCaptured, IsCaptured

\* No question ends the stream.
LEMMA QuestionsGoOn ==
  ASSUME NEW m, Answerable(m)
  PROVE  ~EndsCleanly(m) /\ ~EndsInError(m)
BY DEF Answerable, BlobKinds, ExecKinds, EndsCleanly, EndsInError, EndKinds

\* Frames that are no replies answer nothing.
LEMMA AnsweredStays ==
  ASSUME DOMAIN wire \subseteq DOMAIN wire', \A j \in DOMAIN wire : wire'[j] = wire[j],
         \A j \in DOMAIN wire' \ DOMAIN wire : ~IsReply(wire'[j])
  PROVE  AnsweredOnWire' = AnsweredOnWire
<1>1. \A j : j \in DOMAIN wire' /\ IsReply(wire'[j]) <=> j \in DOMAIN wire /\ IsReply(wire[j])
  OBVIOUS
<1>2. \A x : x \in AnsweredOnWire' <=>
               \E j : j \in DOMAIN wire' /\ IsReply(wire'[j]) /\ x = wire'[j].to
  BY DEF AnsweredOnWire, IsReply
<1>3. \A x : x \in AnsweredOnWire <=>
               \E j : j \in DOMAIN wire /\ IsReply(wire[j]) /\ x = wire[j].to
  BY DEF AnsweredOnWire
<1>4. \A x : x \in AnsweredOnWire' <=> x \in AnsweredOnWire
  BY <1>1, <1>2, <1>3
<1> QED
  BY <1>4

\* Only the server's step adds to what it has sent.
LEMMA SentGrows ==
  ASSUME [Next]_vars
  PROVE  (\E m \in Messages : ServerSends(m)) \/ sent' = sent
<1> USE DEF exchangeVars, writeVars, signalVars
<1>1. ASSUME NEW t \in Threads, EnterPipe(t) \/ TransportReads(t) PROVE sent' = sent
  BY <1>1 DEF EnterPipe, TransportReads
<1>2. CASE DropConnection \/ ExpireContext \/ TransportClosesPipe
  BY <1>2 DEF DropConnection, ExpireContext, TransportClosesPipe
<1>3. CASE Writer
  BY <1>3 DEF Writer, WriterWriteFails, WriterRecordsErr, WriterReleased,
              WriterExits
<1>4. CASE Heartbeat
  BY <1>4 DEF Heartbeat, HeartbeatTicks, HeartbeatLocks, HeartbeatWriteFails, HeartbeatStops
<1>5. CASE DoSucceeds \/ DoRefused \/ DoFails \/ (\E n \in 1..Len(sent) : Reads(n)) \/ ReadFails
  BY <1>5 DEF DoSucceeds, DoRefused, DoFails, Reads, ReadFails
<1>6. CASE Processes \/ BatchDone \/ LoopLocks \/ LoopWriteFails
  BY <1>6 DEF Processes, BatchDone, LoopLocks, LoopWriteFails
<1>8. CASE Unwind
  BY <1>8 DEF Unwind, CloseBody, Release, ClosePipe, Join, CloseKv, StopHeartbeat, Cancel
<1>7. CASE Terminated \/ UNCHANGED vars
  BY <1>7 DEF Terminated, vars
<1> QED
  BY <1>1, <1>2, <1>3, <1>4, <1>5, <1>6, <1>7, <1>8 DEF Next, Loop

LEMMA PromiseInit == Init => Promise!Init
<1> SUFFICES ASSUME Init PROVE Promise!Init
  OBVIOUS
<1>1. AnsweredOnWire = {}
  BY DEF Init, AnsweredOnWire
<1>2. (pc["loop"] \in {"lock", "write"}) = FALSE
  BY DEF Init
<1> QED
  BY <1>1, <1>2, SameMessages DEF Init, Promise!Init

\* A step that the sequential loop does not take.
LEMMA Stutters ==
  ASSUME UNCHANGED <<sent, handled, result, outcome>>, AnsweredOnWire' = AnsweredOnWire,
         Owed' <=> Owed
  PROVE  UNCHANGED Promise!vars
BY DEF Promise!vars, Owed

\* A return with an error before the answer, if one was owed, is written.
LEMMA Breaks ==
  ASSUME UNCHANGED <<sent, handled, result>>, AnsweredOnWire' = AnsweredOnWire,
         outcome = "running", outcome' = "error", ~Owed'
  PROVE  Promise!Break
BY DEF Promise!Break, Owed

LEMMA ProcessesIsTake ==
  ASSUME TypeOK, Success, Processes
  PROVE  Promise!Take
<1> USE DEF TypeOK, Threads
<1>1. /\ pc["loop"] = "process"
      /\ handled < Len(sent) /\ handled' = handled + 1
      /\ NextMessage = sent[handled + 1]
      /\ result' = Fold(result, handled + 1, sent[handled + 1])
      /\ sent' = sent /\ wire' = wire
  BY DEF Processes, FramesLeft, NextMessage, writeVars
<1>2. outcome = "running"
  BY <1>1 DEF Success, OutcomeDecided, Exchanging
<1>3. AnsweredOnWire' = AnsweredOnWire
  BY <1>1 DEF AnsweredOnWire, IsReply
<1>4. (pc["loop"] \in {"lock", "write"}) = FALSE
  BY <1>1
<1>5. Owed' <=> Answerable(sent[handled + 1])
  BY <1>1 DEF Processes, Owed
<1>6. outcome' = IF EndsCleanly(sent[handled + 1]) THEN "ok"
                 ELSE IF EndsInError(sent[handled + 1]) THEN "error" ELSE "running"
  <2>1. CASE Answerable(NextMessage)
    BY <1>1, <1>2, <2>1, QuestionsGoOn DEF Processes
  <2>2. CASE ~Answerable(NextMessage)
    BY <1>1, <1>2, <2>2 DEF Processes
  <2> QED
    BY <2>1, <2>2
<1>7. Promise!Fold(result, handled + 1, sent[handled + 1])
        = Fold(result, handled + 1, sent[handled + 1])
  BY SameMessages
<1>8. /\ Promise!Answerable(sent[handled + 1]) <=> Answerable(sent[handled + 1])
      /\ Promise!EndsCleanly(sent[handled + 1]) <=> EndsCleanly(sent[handled + 1])
      /\ Promise!EndsInError(sent[handled + 1]) <=> EndsInError(sent[handled + 1])
  BY SameMessages
<1>9. (pc'["loop"] \in {"lock", "write"}) = Promise!Answerable(sent[handled + 1])
  BY <1>5, <1>8 DEF Owed, Promise!Answerable
<1> QED
  BY <1>1, <1>2, <1>3, <1>4, <1>6, <1>7, <1>8, <1>9 DEF Promise!Take

\* The reply the transport has read is the one to the last message taken.
LEMMA ReplyIsAnswer ==
  ASSUME TypeOK, Success, Replies, TransportReads("loop")
  PROVE  Promise!Answer
<1> USE DEF TypeOK, Threads
<1>1. /\ pc["loop"] = "write" /\ pc'["loop"] = "process"
      /\ wire' = Append(wire, reply)
      /\ UNCHANGED <<sent, handled, result, outcome>>
  BY DEF TransportReads, AfterWrite, FrameOf, exchangeVars
<1>2. outcome = "running"
  BY <1>1 DEF Success, OutcomeDecided, Exchanging
<1>3. IsReply(reply) /\ reply.to = handled
  BY <1>1 DEF Replies, ReplyPrepared
<1>4. /\ DOMAIN wire = 1..Len(wire)
      /\ DOMAIN wire' = 1..(Len(wire) + 1)
      /\ \A j \in 1..Len(wire) : wire'[j] = wire[j]
      /\ wire'[Len(wire) + 1] = reply
      /\ Len(wire) \in Nat
  BY <1>1, AppendExtends
<1>5. AnsweredOnWire' = AnsweredOnWire \cup {handled}
  <2>1. \A x : x \in AnsweredOnWire' <=>
                 \E j : j \in 1..(Len(wire) + 1) /\ IsReply(wire'[j]) /\ x = wire'[j].to
    BY <1>4 DEF AnsweredOnWire, IsReply
  <2>2. \A x : x \in AnsweredOnWire <=>
                 \E j : j \in 1..Len(wire) /\ IsReply(wire[j]) /\ x = wire[j].to
    BY <1>4 DEF AnsweredOnWire
  <2>3. 1..(Len(wire) + 1) = 1..Len(wire) \cup {Len(wire) + 1}
    BY <1>4
  <2>4. \A x : x \in AnsweredOnWire' <=> x \in AnsweredOnWire \/ x = handled
    <3>1. ASSUME NEW x, x \in AnsweredOnWire' PROVE x \in AnsweredOnWire \/ x = handled
      <4>1. PICK j \in 1..(Len(wire) + 1) : IsReply(wire'[j]) /\ x = wire'[j].to
        BY <2>1, <3>1
      <4>2. CASE j \in 1..Len(wire)
        BY <1>4, <2>2, <4>1, <4>2 DEF IsReply
      <4>3. CASE j = Len(wire) + 1
        BY <1>3, <1>4, <4>1, <4>3
      <4> QED
        BY <2>3, <4>2, <4>3
    <3>2. ASSUME NEW x, x \in AnsweredOnWire PROVE x \in AnsweredOnWire'
      <4>1. PICK j \in 1..Len(wire) : IsReply(wire[j]) /\ x = wire[j].to
        BY <2>2, <3>2
      <4> QED
        BY <1>4, <2>1, <2>3, <4>1 DEF IsReply
    <3>3. handled \in AnsweredOnWire'
      <4>1. Len(wire) + 1 \in 1..(Len(wire) + 1)
        BY <1>4
      <4> QED
        BY <1>3, <1>4, <2>1, <4>1
    <3> QED
      BY <3>1, <3>2, <3>3
  <2> QED
    BY <2>4
<1>6. /\ (pc["loop"] \in {"lock", "write"}) = TRUE
      /\ (pc'["loop"] \in {"lock", "write"}) = FALSE
  BY <1>1
<1> QED
  BY <1>1, <1>2, <1>5, <1>6 DEF Promise!Answer

LEMMA PromiseStep ==
  TypeOK /\ Success /\ Replies /\ [Next]_vars => [Promise!Next]_(Promise!vars)
<1> SUFFICES ASSUME TypeOK, Success, Replies, [Next]_vars
             PROVE  Promise!Next \/ UNCHANGED Promise!vars
  OBVIOUS
<1> USE DEF TypeOK, Threads, exchangeVars, writeVars
<1>1. ASSUME NEW m \in Messages, ServerSends(m) PROVE Promise!Next
  <2>1. /\ Len(sent) < MaxMessages /\ sent' = Append(sent, m)
        /\ UNCHANGED <<pc, handled, wire, result, outcome>>
    BY <1>1 DEF ServerSends
  <2>2. AnsweredOnWire' = AnsweredOnWire
    BY <2>1 DEF AnsweredOnWire, IsReply
  <2>3. Promise!ServerSends(m)
    BY <2>1, <2>2 DEF Promise!ServerSends
  <2> QED
    BY <2>3, SameMessages DEF Promise!Next
<1>2. CASE Aside /\ sent' = sent
  <2>1. AnsweredOnWire' = AnsweredOnWire
    BY <1>2, AnsweredStays DEF Aside
  <2> QED
    BY <1>2, <2>1, Stutters DEF Aside, Owed
<1>3. CASE Unwinds
  <2>1. AnsweredOnWire' = AnsweredOnWire /\ ~Owed /\ ~Owed'
    BY <1>3 DEF Unwinds, Exchanging, Owed, AnsweredOnWire, IsReply
  <2> QED
    BY <1>3, <2>1, Stutters DEF Unwinds
<1>4. CASE DoSucceeds \/ ReadFails \/ (\E n \in 1..Len(sent) : Reads(n)) \/ LoopLocks
  <2>1. /\ UNCHANGED <<sent, handled, wire, result, outcome>>
        /\ Owed' <=> Owed
    BY <1>4 DEF DoSucceeds, ReadFails, Reads, LoopLocks, Owed
  <2> QED
    BY <2>1, Stutters DEF AnsweredOnWire, IsReply
<1>5. CASE DoRefused \/ DoFails \/ LoopWriteFails
  <2>1. /\ UNCHANGED <<sent, handled, wire, result>>
        /\ outcome' = "error" /\ ~Owed'
        /\ pc["loop"] \in Exchanging
    BY <1>5 DEF DoRefused, DoFails, LoopWriteFails, Owed, Exchanging
  <2> QED
    BY <2>1, Breaks DEF AnsweredOnWire, IsReply, Success, OutcomeDecided, Promise!Next
<1>6. CASE BatchDone
  <2>1. /\ UNCHANGED <<sent, handled, wire, result>>
        /\ outcome' \in {outcome, "error"}
        /\ outcome = "running" /\ ~Owed /\ ~Owed'
    BY <1>6 DEF BatchDone, Owed, Exchanging, Success, OutcomeDecided, OutcomeOfReadErr
  <2> QED
    BY <2>1, Stutters, Breaks DEF AnsweredOnWire, IsReply, Promise!Next
<1>7. CASE Processes
  BY <1>7, ProcessesIsTake DEF Promise!Next
<1>8. CASE TransportReads("loop")
  BY <1>8, ReplyIsAnswer DEF Promise!Next
<1> QED
  BY <1>1, <1>2, <1>3, <1>4, <1>5, <1>6, <1>7, <1>8, StepCases, SentGrows

\* To its caller the call is the sequential exchange of StreamExchange: the
\* messages in order, each answered before the next is taken, success only
\* at a clean terminator (stream.go:229-233, 418-431).
THEOREM PromiseIsKept == Spec => Promise!Safety
<1>1. Spec => [](TypeOK /\ Success /\ Replies)
  BY Outcomes, ReplyOrder, PTL
<1> QED
  BY <1>1, PromiseInit, PromiseStep, PTL DEF Spec, Promise!Safety
=============================================================================

------------------------------ MODULE FrameCodec ------------------------------
(***************************************************************************)
(* Connect's streaming envelope (internal/executor/stream.go): a flags     *)
(* byte, the length of the payload, the payload.  A byte is a digit of a   *)
(* small Base and the length takes two of them, where the code has base    *)
(* 256 and four, so that its sums wrap around here at Base * Base as they  *)
(* do there at 2^32.  The read loop takes what Body.Read gives it, which   *)
(* knows nothing of envelopes, and cuts the messages out of it again.      *)
(***************************************************************************)
EXTENDS Naturals, Sequences, SequencesExt

CONSTANTS
  Base,      \* the values of a byte
  Messages,  \* what the server sends, each [flags, payload]
  BufSize,   \* the most that one Read returns (32 KiB)
  MaxSent    \* bound on the messages of a stream

ASSUME BaseAssumption == Base \in Nat /\ Base > 1
ASSUME BoundsAssumption == BufSize \in Nat \ {0} /\ MaxSent \in Nat

Byte == 0..(Base - 1)
HeaderSize == 3
Wrap(n) == n % (Base * Base)

ASSUME MessagesAssumption ==
  \A msg \in Messages : msg \in [flags : Byte, payload : Seq(Byte)]

frameConnectMessage(msg) ==
  LET length == Wrap(Len(msg.payload))
  IN <<msg.flags, length \div Base, length % Base>> \o msg.payload

LengthIn(b) == b[2] * Base + b[3]

\* connectEndStreamFlag, the second bit of the flags.
connectEndStream(msg) == (msg.flags \div 2) % 2 = 1

Enough(b) == HeaderSize <= Len(b) /\ Wrap(HeaderSize + LengthIn(b)) <= Wrap(Len(b))

\* The end of the payload as a slice bound, which must not lie before its start.
EndIn(b) == Wrap(HeaderSize + LengthIn(b))
Sliceable(b) == HeaderSize <= EndIn(b)

FrameIn(b) == [flags |-> b[1], payload |-> SubSeq(b, HeaderSize + 1, HeaderSize + LengthIn(b))]
RestOfAllRead(b) == <<>>
RestOf(b) == SubSeq(b, EndIn(b) + 1, Len(b))
-----------------------------------------------------------------------------
VARIABLES
  sent,     \* the messages the server framed
  wire,     \* bytes on their way to the client
  cut,      \* the connection is gone: nothing follows what is on the wire
  pending,  \* bytes read and not yet consumed
  failed,   \* the last Read returned an error
  pc,       \* "read", "extract" or "done"
  got,      \* the messages cut out of the bytes
  outcome   \* "open", "ended", "dropped" or "panic"

vars == <<sent, wire, cut, pending, failed, pc, got, outcome>>

Bytes(msgs) == FlattenSeq([i \in DOMAIN msgs |-> frameConnectMessage(msgs[i])])

Init ==
  /\ sent = <<>> /\ wire = <<>> /\ cut = FALSE
  /\ pending = <<>> /\ failed = FALSE /\ pc = "read"
  /\ got = <<>> /\ outcome = "open"

Ended == sent # <<>> /\ connectEndStream(Last(sent))

\* The server frames a message, none after the end of the stream.
Send ==
  /\ ~cut /\ ~Ended
  /\ Len(sent) < MaxSent
  /\ \E msg \in Messages :
       /\ sent' = Append(sent, msg)
       /\ wire' = wire \o frameConnectMessage(msg)
  /\ UNCHANGED <<cut, pending, failed, pc, got, outcome>>

\* The connection breaks off anywhere, also within a header.
Drop ==
  /\ ~cut
  /\ cut' = TRUE
  /\ \E n \in 0..Len(wire) : wire' = SubSeq(wire, 1, n)
  /\ UNCHANGED <<sent, pending, failed, pc, got, outcome>>

\* Body.Read returns some bytes, and with the last ones perhaps the error.
Read ==
  /\ pc = "read"
  /\ \E n \in 1..BufSize :
       /\ n <= Len(wire)
       /\ pending' = pending \o SubSeq(wire, 1, n)
       /\ wire' = SubSeq(wire, n + 1, Len(wire))
       /\ failed' \in {FALSE, cut /\ n = Len(wire)}
  /\ pc' = "extract"
  /\ UNCHANGED <<sent, cut, got, outcome>>

ReadFails ==
  /\ pc = "read"
  /\ cut /\ wire = <<>>
  /\ failed' = TRUE
  /\ pc' = "extract"
  /\ UNCHANGED <<sent, wire, cut, pending, got, outcome>>

AfterFrameRead == "read"
AfterFrame == "extract"

\* One frame is taken and handled; the end-of-stream frame ends the loop.  A
\* sum that wrapped around is no slice bound: b[5:5+msgLen] panics.
ExtractFrame ==
  /\ pc = "extract"
  /\ Enough(pending)
  /\ IF Sliceable(pending)
       THEN LET frame == FrameIn(pending)
                ends == connectEndStream(frame)
            IN /\ got' = Append(got, frame)
               /\ pending' = RestOf(pending)
               /\ pc' = IF ends THEN "done" ELSE AfterFrame
               /\ outcome' = IF ends THEN "ended" ELSE "open"
       ELSE pc' = "done" /\ outcome' = "panic" /\ UNCHANGED <<got, pending>>
  /\ UNCHANGED <<sent, wire, cut, failed>>

\* Too short a frame: the loop reads on, or gives up if reading failed.
NoFrame ==
  /\ pc = "extract"
  /\ ~Enough(pending)
  /\ IF failed THEN pc' = "done" /\ outcome' = "dropped"
               ELSE pc' = "read" /\ UNCHANGED outcome
  /\ UNCHANGED <<sent, wire, cut, pending, failed, got>>

Loop == Read \/ ReadFails \/ ExtractFrame \/ NoFrame

Next == Send \/ Drop \/ Loop

\* The transport delivers what is on the wire and the loop goes on.
Spec == Init /\ [][Next]_vars /\ WF_vars(Loop)
-----------------------------------------------------------------------------
(* Properties.                                                             *)

\* No byte is lost, doubled or moved between the server's messages and the
\* read loop's: what was consumed, what is pending and what is on the wire
\* make up the frames that were sent (stream.go:454-470).
BytesAreKept ==
  IF cut THEN IsPrefix(Bytes(got) \o pending \o wire, Bytes(sent))
         ELSE Bytes(got) \o pending \o wire = Bytes(sent)

\* The loop implements a channel of whole messages.
Channel == INSTANCE FrameChannel WITH
  Final <- {msg \in Messages : connectEndStream(msg)}, open <- (outcome = "open")
ImplementsChannel == Channel!Spec
=============================================================================

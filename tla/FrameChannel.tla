----------------------------- MODULE FrameChannel -----------------------------
(***************************************************************************)
(* What the framing of internal/executor/stream.go promises to the two     *)
(* ends of a stream, which read and write whole messages: the messages     *)
(* arrive in the order they were sent, none torn, none twice, until the    *)
(* last one arrived or the connection is lost.                             *)
(***************************************************************************)
EXTENDS Naturals, Sequences

CONSTANTS
  Messages,  \* what can be sent
  Final,      \* those of them that end the stream
  MaxSent    \* bound on the messages of a stream

VARIABLES
  sent,  \* the messages sent
  got,   \* the messages received
  open   \* whether the receiver still listens

vars == <<sent, got, open>>

Init == sent = <<>> /\ got = <<>> /\ open = TRUE

Ended == sent # <<>> /\ sent[Len(sent)] \in Final

Send ==
  /\ Len(sent) < MaxSent /\ ~Ended
  /\ \E msg \in Messages : sent' = Append(sent, msg)
  /\ UNCHANGED <<got, open>>

Receive ==
  /\ open
  /\ Len(got) < Len(sent)
  /\ got' = Append(got, sent[Len(got) + 1])
  /\ open' = (sent[Len(got) + 1] \notin Final)
  /\ UNCHANGED sent

Lose == open /\ open' = FALSE /\ UNCHANGED <<sent, got>>

Next == Send \/ Receive \/ Lose

Safety == Init /\ [][Next]_vars

Spec == Safety /\ WF_vars(Receive)
=============================================================================

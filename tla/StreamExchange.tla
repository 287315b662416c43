--------------------------- MODULE StreamExchange ---------------------------
(***************************************************************************)
(* What one Run exchange promises to its caller, without the goroutines,   *)
(* locks, pipe and deferred calls that implement it: a sequential loop     *)
(* that takes the server's messages in order, folds each into the result,  *)
(* answers it when it asks for an answer before it takes the next, and     *)
(* ends with success only on one of the two clean terminators.  Module     *)
(* RunExchange implements this specification, and ChatTurn repeats it.     *)
(***************************************************************************)
EXTENDS StreamMessages

CONSTANT MaxMessages   \* bound on the messages the server sends

VARIABLES
  sent,      \* every message the server sent, in order
  handled,   \* how many of them the loop has taken
  owed,      \* the last one taken still awaits its answer
  answered,  \* the messages answered on the request body
  result,    \* runStreamResult so far
  outcome    \* "running", or what the exchange returned

vars == <<sent, handled, owed, answered, result, outcome>>

TypeOK ==
  /\ sent \in Seq(Message)
  /\ handled \in 0..Len(sent)
  /\ owed \in BOOLEAN
  /\ answered \subseteq Nat
  /\ result \in [updates : SUBSET Nat, toolRequests : SUBSET Nat, checkpoint : Nat]
  /\ outcome \in {"running", "ok", "error"}

Init ==
  /\ sent = <<>>
  /\ handled = 0
  /\ owed = FALSE
  /\ answered = {}
  /\ result = NoResult
  /\ outcome = "running"

ServerSends(m) ==
  /\ Len(sent) < MaxMessages
  /\ sent' = Append(sent, m)
  /\ UNCHANGED <<handled, owed, answered, result, outcome>>

\* The loop takes the next message; a terminator decides the outcome.
Take ==
  /\ outcome = "running"
  /\ ~owed
  /\ handled < Len(sent)
  /\ LET i == handled + 1
         m == sent[i]
     IN /\ handled' = i
        /\ result' = Fold(result, i, m)
        /\ owed' = Answerable(m)
        /\ outcome' = IF EndsCleanly(m) THEN "ok"
                      ELSE IF EndsInError(m) THEN "error" ELSE "running"
  /\ UNCHANGED <<sent, answered>>

\* The answer to the last message taken, so that the set grows in the order
\* of the stream.
Answer ==
  /\ outcome = "running"
  /\ owed
  /\ owed' = FALSE
  /\ answered' = answered \cup {handled}
  /\ UNCHANGED <<sent, handled, result, outcome>>

\* The connection, the deadline or an answer that cannot be written ends the
\* exchange at any point; what was folded so far is returned with the error.
Break ==
  /\ outcome = "running"
  /\ outcome' = "error"
  /\ owed' = FALSE
  /\ UNCHANGED <<sent, handled, answered, result>>

Next ==
  \/ \E m \in Messages : ServerSends(m)
  \/ Take
  \/ Answer
  \/ Break

Safety == Init /\ [][Next]_vars

\* The exchange does not outlast its deadline.
Spec == Safety /\ WF_vars(Break)
=============================================================================

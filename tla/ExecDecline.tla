----------------------------- MODULE ExecDecline -----------------------------
(***************************************************************************)
(* How internal/executor/execmessage.go answers a request of Cursor to     *)
(* execute something: the field of ExecClientMessage that answers a field  *)
(* of ExecServerMessage, and the outcome it carries.  Both are derived     *)
(* from names, by conventions that the protocol keeps with exceptions.     *)
(* A field is its base name, so "read" is read_args and read_result.       *)
(***************************************************************************)
EXTENDS Sequences, SequencesExt

\* The outcomes that the result of each base declares, and the one base
\* whose answer is not named <base>_result.
Outcomes == [
  shell                  |-> {"success", "failure", "timeout", "rejected", "spawn_error", "permission_denied"},
  write                  |-> {"success", "permission_denied", "no_space", "error", "rejected"},
  delete                 |-> {"success", "file_not_found", "not_file", "permission_denied", "file_busy",
                              "rejected", "error"},
  grep                   |-> {"success", "error"},
  read                   |-> {"success", "error", "rejected", "file_not_found", "permission_denied", "invalid_file"},
  ls                     |-> {"success", "error", "rejected", "timeout"},
  diagnostics            |-> {"success", "error", "rejected", "file_not_found", "permission_denied"},
  request_context        |-> {"success", "error", "rejected"},
  mcp                    |-> {"success", "error", "rejected", "permission_denied", "tool_not_found"},
  shell_stream           |-> {"stdout", "stderr", "exit", "start", "rejected", "permission_denied", "backgrounded"},
  background_shell_spawn |-> {"success", "error", "rejected", "permission_denied"},
  list_mcp_resources     |-> {"success", "error", "rejected"},
  read_mcp_resource      |-> {"success", "error", "rejected", "not_found"},
  fetch                  |-> {"success", "error"},
  record_screen          |-> {"start_success", "save_success", "discard_success", "failure"},
  computer_use           |-> {"success", "error"},
  write_shell_stdin      |-> {"success", "error"}]

ClientFields == [base : DOMAIN Outcomes \ {"shell_stream"}, result : {TRUE}]
                  \cup {[base |-> "shell_stream", result |-> FALSE]}

RegularFieldName(base) == [base |-> base, result |-> TRUE]
execArgsToResultFieldName(base) == [base |-> base, result |-> base # "shell_stream"]

declineOutcomeFieldPriority == <<"rejected", "error", "failure">>

\* populateDeclineOutcome: the first of these names that the result has.
DeclineOutcome(base) ==
  LET hit == SelectInSeq(declineOutcomeFieldPriority, LAMBDA o : o \in Outcomes[base])
  IN IF hit = 0 THEN "none" ELSE declineOutcomeFieldPriority[hit]

\* handleExecServerMessage's answer.  What Cursor asks about the context is
\* answered; an answer without a field or an outcome is an error.
ExecAnswer(base) ==
  LET field == execArgsToResultFieldName(base)
      outcome == IF base = "request_context" THEN "success" ELSE DeclineOutcome(base)
  IN IF field \in ClientFields /\ outcome # "none" THEN <<[field |-> field, outcome |-> outcome]>>
                                                  ELSE <<>>
=============================================================================

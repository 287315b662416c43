-------------------------- MODULE MCRequestHistory --------------------------
(***************************************************************************)
(* RequestHistory with two tool-call ids: every role with and without a    *)
(* text, one and two calls, ids that repeat, results that answer nothing,  *)
(* arguments that do not parse.                                            *)
(***************************************************************************)
EXTENDS RequestHistory

Msg(role, text, calls, answers) == [role |-> role, text |-> text, calls |-> calls, answers |-> answers]
Call(id) == [id |-> id, parses |-> TRUE]
BadCall(id) == [id |-> id, parses |-> FALSE]

MCShapes == {Msg("system", Instruction, <<>>, 0), Msg("user", "some", <<>>, 0),
             Msg("user", NoText, <<>>, 0), Msg("assistant", NoText, <<Call(1)>>, 0),
             Msg("assistant", "some", <<Call(1), Call(2)>>, 0),
             Msg("assistant", NoText, <<BadCall(2)>>, 0),
             Msg("tool", "some", <<>>, 1), Msg("tool", NoText, <<>>, 2),
             Msg("other", "some", <<>>, 0)}
=============================================================================

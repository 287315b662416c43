--------------------------- MODULE MCToolRoundTrip ---------------------------
(***************************************************************************)
(* ToolRoundTrip with the tools of typical clients: equivalents of one     *)
(* tool of Cursor under two names and two spellings, an alias that two of  *)
(* Cursor's tools share, a tool Cursor has only inline, one it only        *)
(* reports as completed, one of the client's own, one with the name of a   *)
(* field of Cursor's, and one without a name.                              *)
(***************************************************************************)
EXTENDS ToolRoundTrip

Plain(n) == [norm |-> n, spelling |-> "plain"]
Title(n) == [norm |-> n, spelling |-> "title"]

MCClientTools == {Plain("bash"), Plain("exec"), Plain("search"), Plain("read"), Title("read"),
                  Plain("write"), Plain("edit"), Plain("weather"), Raw("shell"), Unnamed}

MCNatives == ExecBases
MCCompleted == {"edit", "web_search"}
=============================================================================

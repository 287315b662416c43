----------------------------- MODULE MCFrameCodec -----------------------------
(***************************************************************************)
(* FrameCodec with bytes of four values: an empty payload, payloads that   *)
(* look like headers, one longer than a byte can count, the end of the     *)
(* stream with and without another flag.                                   *)
(***************************************************************************)
EXTENDS FrameCodec

Msg(flags, payload) == [flags |-> flags, payload |-> payload]

MCMessages == {Msg(0, <<>>), Msg(0, <<0, 0, 1>>), Msg(1, <<2, 0, 1, 3, 0>>), Msg(2, <<1>>), Msg(3, <<>>)}
=============================================================================

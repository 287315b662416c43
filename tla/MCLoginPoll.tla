----------------------------- MODULE MCLoginPoll -----------------------------
(***************************************************************************)
(* LoginPoll for TLC: the polls are interchangeable in every property.     *)
(***************************************************************************)
EXTENDS LoginPoll, TLC

Symmetry == Permutations(Polls)
=============================================================================

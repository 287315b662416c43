---------------------------- MODULE MCPluginCalls ----------------------------
(***************************************************************************)
(* PluginCalls for three calls, which nothing tells apart: one can set the *)
(* version, one remove it, and one run meanwhile.                          *)
(***************************************************************************)
EXTENDS PluginCalls, FiniteSets, TLC

CallSymmetry == Permutations(Calls)
=============================================================================

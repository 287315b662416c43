------------------------- MODULE MCConversationCache -------------------------
(***************************************************************************)
(* ConversationCache for TLC.  Turns and conversations are interchangeable *)
(* and every property of the runs is a safety property without CHOOSE, so  *)
(* states that differ by a renaming of either need only be seen once.      *)
(***************************************************************************)
EXTENDS ConversationCache, TLC

Symmetry == Permutations(Turns) \cup Permutations(Convs)
=============================================================================

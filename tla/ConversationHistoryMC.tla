----------------------- MODULE ConversationHistoryMC ------------------------
(***************************************************************************)
(* Module ConversationHistory for TLC: callers are alike.                  *)
(***************************************************************************)
EXTENDS ConversationHistory, TLC

Symmetry == Permutations(Callers)
==============================================================================

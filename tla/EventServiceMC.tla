--------------------------- MODULE EventServiceMC ---------------------------
(***************************************************************************)
(* Module EventService for TLC: callers are alike, and so are tasks.       *)
(***************************************************************************)
EXTENDS EventService, TLC

Symmetry == Permutations(Callers) \union Permutations(Runs)
==============================================================================

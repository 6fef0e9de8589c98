---------------------------- MODULE ToolExecutorMC -----------------------------
(***************************************************************************)
(* Module ToolExecutor for TLC: batches of up to three calls.  What a      *)
(* thread is named is all the same, so one order of a set will do.         *)
(***************************************************************************)
EXTENDS ToolExecutor

CONSTANTS t1, t2, t3

MCBatches == {<<t1>>, <<t2>>, <<t3>>, <<t1, t2>>, <<t1, t3>>, <<t2, t3>>,
              <<t1, t2, t3>>}
================================================================================

------------------------------ MODULE EventLogMC ------------------------------
(***************************************************************************)
(* Module EventLog for TLC: two servers, the first of which may make two   *)
(* services of the conversation.                                           *)
(***************************************************************************)
EXTENDS EventLog

CONSTANTS a, b, a1, a2, b1

MCServerOf == [s \in Services |-> IF s = b1 THEN b ELSE a]
MCHostOf == [i \in Servers |-> "host"]
===============================================================================

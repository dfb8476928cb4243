----------------------------- MODULE MCHarnesses ----------------------------
(***************************************************************************)
(* The target of MCHarness for the harnesses that spawn it, and a server   *)
(* that dies of some of the same inputs, and is slow with others.          *)
(***************************************************************************)
EXTENDS Harnesses, MCHarness

MCFatal == {"slow", "abort"}

(* one is longer than the buffers of a connection *)
MCLength == [i \in MCInputs |-> CASE i = "slow" -> 3 [] i = "quick" -> 0 [] OTHER -> 1]
=============================================================================

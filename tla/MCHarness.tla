------------------------------ MODULE MCHarness -----------------------------
(***************************************************************************)
(* A target for the harness: "quick" exits at once, "slow" runs through    *)
(* four edges and may crash, "abort" exits with a code of its own, "hang"  *)
(* never exits.                                                            *)
(***************************************************************************)
EXTENDS Harness

MCInputs == {"quick", "slow", "abort", "hang"}

MCHeadOf == [i \in MCInputs |-> i]

MCExits ==
  [i \in MCInputs |->
     CASE i = "quick" -> {Ok} [] i = "slow" -> {Ok, Crash(6)}
       [] i = "abort" -> {Crash(NoSignal)} [] i = "hang" -> {}]

MCCovers ==
  [i \in MCInputs |->
     CASE i = "quick" -> {1} [] i = "slow" -> {1, 2, 4, 5}
       [] i = "abort" -> {1, 4} [] i = "hang" -> {2, 3}]

(* every input fits into a pipe buffer *)
SmallInputs == [i \in MCInputs |-> IF i = "quick" THEN 0 ELSE 1]

(* one input is longer than the two pipe buffers and what the target holds *)
LargeInputs == [i \in MCInputs |-> IF i = "slow" THEN 4 ELSE 1]
=============================================================================

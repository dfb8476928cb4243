----------------------------- MODULE MCFuzzLoop -----------------------------
(***************************************************************************)
(* The whole loop, started twice on the same directories.  "a" runs        *)
(* through the edges of "seed" and "b", and may crash with either of two   *)
(* signals; "hang" never exits, where it is among the inputs.              *)
(***************************************************************************)
EXTENDS FuzzLoop

MCInputs == {"seed", "a", "b"}
MCInputsAndHang == MCInputs \union {"hang"}

MCHeadOf == [i \in Inputs |-> i]

MCExits ==
  [i \in Inputs |->
     CASE i \in {"seed", "b"} -> {Ok} [] i = "a" -> {Ok, Crash(8), Crash(11)}
       [] i = "hang" -> {}]

MCCovers ==
  [i \in Inputs |->
     CASE i = "seed" -> {1} [] i = "a" -> {1, 2} [] i = "b" -> {2}
       [] i = "hang" -> {3}]

MCSize == [i \in Inputs |-> 0]

MCNoReply == {<<>>}
MCRepeatedSeed == {<<"b", "b">>}
=============================================================================

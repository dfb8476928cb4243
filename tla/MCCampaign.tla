----------------------------- MODULE MCCampaign -----------------------------
(***************************************************************************)
(* A small target for TLC.  "seed" is the fallback seed; "a" and "b" open  *)
(* edges, "b" only when it does not crash; "c" crashes with a signal or    *)
(* exits with a code of its own.                                           *)
(***************************************************************************)
EXTENDS Campaign

MCInputs == {"seed", "a", "b", "c"}

MCHeadOf == [i \in MCInputs |-> i]

MCEdges == {1, 2, 3}

MCExits ==
  [i \in MCInputs |->
     CASE i = "seed" -> {Ok}
       [] i = "a"    -> {Ok}
       [] i = "b"    -> {Ok, Crash(11)}
       [] i = "c"    -> {Crash(8), Crash(NoSignal)}]

MCCovers ==
  [i \in MCInputs |->
     CASE i = "seed" -> {1}
       [] i = "a"    -> {1, 2}
       [] i = "b"    -> {1, 3}
       [] i = "c"    -> {2}]

(* generation failed; two seeds; the same seed twice *)
MCSeedReplies == {<<>>, <<"a", "seed">>, <<"a", "a">>}
=============================================================================

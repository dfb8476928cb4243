----------------------------- MODULE MCMutation -----------------------------
(***************************************************************************)
(* Three strategies; decays of one half every second mutation.  WeightCap  *)
(* lies well above the ceiling, so that it does not hold the weights down. *)
(***************************************************************************)
EXTENDS MutationEngine

MCSplice         == "splice"
MCByteSubstitute == "byte_substitute"
MCStrategies     == {MCSplice, MCByteSubstitute, "havoc"}
MCCorpusSizes    == {0, 1}
MCSchemas        == BOOLEAN
=============================================================================

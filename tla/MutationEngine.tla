--------------------------- MODULE MutationEngine ---------------------------
(***************************************************************************)
(* phaedra-mutator::MutationEngine as run_campaign drives it: strategies   *)
(* drawn by weight from a cached distribution, a weight credited when the  *)
(* input made by its strategy turns out interesting, all weights decayed   *)
(* towards 1.0 every DecayInterval mutations.  With a schema, some inputs  *)
(* are made by phaedra_schema::schema_mutate instead, past the engine.     *)
(*                                                                         *)
(* Weights are counted in units of 1.0 / One; a decay rounds down.  What   *)
(* a strategy does to the bytes is not part of this module.                *)
(***************************************************************************)
EXTENDS Naturals

CONSTANTS
  Strategies,      \* Strategy::all()
  Splice,          \* the strategy that needs a second input
  ByteSubstitute,  \* the strategy named for what a schema makes
  CorpusSizes,     \* how many inputs the corpus passed to mutate may hold (a
                   \* campaign passes one at least, the one it mutates)
  Schemas,         \* whether a schema is loaded: the cases looked at
  One,             \* the weight 1.0
  DecayInterval,   \* mutations between two decays (500)
  Keep, Whole,     \* 1.0 - decay_rate is Keep / Whole (0.95)
  WeightCap        \* bound of the model: no credit beyond this weight

ASSUME EngineAssumption ==
  /\ Splice \in Strategies /\ ByteSubstitute \in Strategies
  /\ CorpusSizes \subseteq Nat
  /\ Schemas \subseteq BOOLEAN
  /\ One \in Nat \ {0}
  /\ DecayInterval \in Nat \ {0}
  /\ Whole \in Nat /\ Keep \in Nat /\ Keep < Whole
  /\ WeightCap \in Nat

VARIABLES
  weights,
  weightsDirty,
  cachedDist,    \* the weights the cached distribution was built from
  decayCounter,  \* modulo DecayInterval: the code asks for nothing else
  schema,        \* whether a schema is loaded
  stage,         \* "mutate": about to make an input; "judge": it has run
  strategy       \* the strategy run_campaign holds for the input

vars == <<weights, weightsDirty, cachedDist, decayCounter, schema, stage, strategy>>

NoDist  == [none |-> 0]  \* cached_dist: None

-----------------------------------------------------------------------------
(* MutationEngine::new; the strategy of an input not yet made is arbitrary *)
Init ==
  /\ weights = [s \in Strategies |-> One]
  /\ weightsDirty = TRUE
  /\ cachedDist = NoDist
  /\ decayCounter = 0
  /\ schema \in Schemas
  /\ stage = "mutate"
  /\ strategy = ByteSubstitute

(* the distribution mutate samples, rebuilt first when a weight changed *)
Distribution == IF weightsDirty THEN weights ELSE cachedDist

(* strategies a draw can end with: one of positive weight, and in place of *)
(* Splice, when there is nothing to splice with, any other                 *)
Draws(dist, corpusSize) ==
  {s \in Strategies :
     \/ dist[s] > 0 /\ ~(s = Splice /\ corpusSize = 0)
     \/ s # Splice /\ corpusSize = 0 /\ dist[Splice] > 0}

(* Mutant: weights decay towards 0. *)
Decayed_TowardsZero(w) == (w * Keep) \div Whole

(* one weight after a decay: (w - 1.0) * (1.0 - rate) + 1.0, at least 1.0 *)
Decayed(w) == IF w < One THEN One ELSE ((w - One) * Keep) \div Whole + One

(* Mutant: the counter starts over without a decay. *)
CountMutation_NeverDecays ==
  /\ decayCounter' = (decayCounter + 1) % DecayInterval
  /\ weightsDirty' = FALSE
  /\ UNCHANGED weights

(* the end of mutate: count it, and decay when the interval is full *)
CountMutation ==
  /\ decayCounter' = (decayCounter + 1) % DecayInterval
  /\ IF decayCounter' = 0
     THEN /\ weights' = [s \in Strategies |-> Decayed(weights[s])]
          /\ weightsDirty' = TRUE
     ELSE /\ weightsDirty' = FALSE
          /\ UNCHANGED weights

(* mutate *)
Mutate ==
  /\ stage = "mutate"
  /\ \E corpusSize \in CorpusSizes : strategy' \in Draws(Distribution, corpusSize)
  /\ cachedDist' = Distribution
  /\ CountMutation
  /\ stage' = "judge"
  /\ UNCHANGED schema

(* the 30% of inputs a schema makes: the engine takes no part in them, yet *)
(* they are credited to ByteSubstitute                                     *)
SchemaMutate ==
  /\ stage = "mutate" /\ schema
  /\ strategy' = ByteSubstitute
  /\ stage' = "judge"
  /\ UNCHANGED <<weights, weightsDirty, cachedDist, decayCounter, schema>>

(* Mutant: the cached distribution stays. *)
RecordSuccess_KeepsCache ==
  /\ stage = "judge"
  /\ weights[strategy] + One <= WeightCap
  /\ weights' = [weights EXCEPT ![strategy] = @ + One]
  /\ stage' = "mutate"
  /\ UNCHANGED <<weightsDirty, cachedDist, decayCounter, schema, strategy>>

(* the input was interesting: record_success(strategy) *)
RecordSuccess ==
  /\ stage = "judge"
  /\ weights[strategy] + One <= WeightCap
  /\ weights' = [weights EXCEPT ![strategy] = @ + One]
  /\ weightsDirty' = TRUE
  /\ stage' = "mutate"
  /\ UNCHANGED <<cachedDist, decayCounter, schema, strategy>>

(* the input was not interesting *)
NoSuccess ==
  /\ stage = "judge"
  /\ stage' = "mutate"
  /\ UNCHANGED <<weights, weightsDirty, cachedDist, decayCounter, schema, strategy>>

Next == Mutate \/ SchemaMutate \/ RecordSuccess \/ NoSuccess

Spec == Init /\ [][Next]_vars

-----------------------------------------------------------------------------
(* Properties.                                                             *)

(* Types; a weight is at least 1.0, so that WeightedIndex::new accepts     *)
(* them and no draw leaves a strategy out.                                 *)
TypeOK ==
  /\ weights \in [Strategies -> Nat] /\ \A s \in Strategies : weights[s] >= One
  /\ weightsDirty \in BOOLEAN
  /\ cachedDist \in {NoDist} \union [Strategies -> Nat]
  /\ decayCounter \in 0 .. DecayInterval - 1
  /\ schema \in BOOLEAN
  /\ stage \in {"mutate", "judge"}
  /\ strategy \in Strategies

(* Strategies are drawn by their weights: whatever changed one, a credit   *)
(* or a decay, the distribution sampled next is the one of the weights.    *)
DistributionIsCurrent == weightsDirty \/ cachedDist = weights

(* What a strategy can hold above 1.0 right after a decay, and at all.     *)
LeftByDecay == (One * DecayInterval * Keep) \div (Whole - Keep) + 1
Ceiling     == One + LeftByDecay + One * DecayInterval

(* README: weights decay "so no strategy gets permanently starved".        *)
(* Without a schema no weight ever passes a fixed ceiling, however many    *)
(* inputs were interesting: DecayInterval credits at most come between two *)
(* decays, and the surplus that survives decays is a geometric sum.  With  *)
(* all weights at least 1.0, no share falls below a fixed part of a draw.  *)
NoStrategyIsStarved ==
  ~schema => \A s \in Strategies : weights[s] <= Ceiling
=============================================================================

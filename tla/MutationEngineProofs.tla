------------------------ MODULE MutationEngineProofs ------------------------
(***************************************************************************)
(* What holds of the mutation engine for every set of strategies, every    *)
(* decay rate and interval, and any number of mutations.                   *)
(***************************************************************************)
EXTENDS MutationEngine, TLAPS

(* The ceiling as an inductive invariant: what is left of earlier decays,  *)
(* and one credit for each mutation since the last one.                    *)
Credits == IF stage = "mutate" THEN decayCounter + 1 ELSE decayCounter
SurplusInv ==
  ~schema => \A s \in Strategies : weights[s] <= One + LeftByDecay + One * Credits

-----------------------------------------------------------------------------
(* Types.                                                                  *)

(* A decay leaves a natural number that is at least 1.0. *)
LEMMA DecayedType ==
  ASSUME NEW w \in Nat, w >= One
  PROVE  Decayed(w) \in Nat /\ Decayed(w) >= One
<1>1. (w - One) * Keep \in Nat /\ One \in Nat /\ Whole \in Nat \ {0}
  BY EngineAssumption
<1>2. ((w - One) * Keep) \div Whole \in Nat
  <2> DEFINE a == (w - One) * Keep
  <2>1. a \in Nat /\ Whole \in Nat \ {0}
    BY <1>1
  <2> HIDE DEF a
  <2>2. a \div Whole \in Nat
    BY <2>1
  <2> QED BY <2>2 DEF a
<1> QED
  BY <1>1, <1>2 DEF Decayed

(* Decaying all weights keeps their type. *)
LEMMA DecayType ==
  ASSUME TypeOK, weights' = [s \in Strategies |-> Decayed(weights[s])]
  PROVE  weights' \in [Strategies -> Nat] /\ \A s \in Strategies : weights'[s] >= One
<1>1. \A s \in Strategies : Decayed(weights[s]) \in Nat /\ Decayed(weights[s]) >= One
  BY DecayedType DEF TypeOK
<1> QED
  BY <1>1

(* Each step keeps the types. *)
LEMMA TypeStep ==
  ASSUME TypeOK, [Next]_vars
  PROVE  TypeOK'
<1> USE DEF TypeOK
<1>1. CASE Mutate
  <2>1. weights' \in [Strategies -> Nat] /\ \A s \in Strategies : weights'[s] >= One
    BY <1>1, DecayType DEF Mutate, CountMutation
  <2>2. decayCounter' \in 0 .. DecayInterval - 1
    BY <1>1, EngineAssumption DEF Mutate, CountMutation
  <2>3. strategy' \in Strategies
    BY <1>1 DEF Mutate, Draws
  <2>4. cachedDist' \in {NoDist} \union [Strategies -> Nat]
    BY <1>1 DEF Mutate, Distribution
  <2>5. weightsDirty' \in BOOLEAN /\ schema' \in BOOLEAN /\ stage' \in {"mutate", "judge"}
    BY <1>1 DEF Mutate, CountMutation
  <2> QED BY <2>1, <2>2, <2>3, <2>4, <2>5
<1>2. CASE SchemaMutate
  BY <1>2, EngineAssumption DEF SchemaMutate
<1>3. CASE RecordSuccess
  <2>1. \A s \in Strategies : weights'[s] \in Nat /\ weights'[s] >= One
    BY <1>3, EngineAssumption DEF RecordSuccess
  <2>2. weights' \in [Strategies -> Nat]
    BY <1>3, EngineAssumption DEF RecordSuccess
  <2> QED BY <1>3, <2>1, <2>2 DEF RecordSuccess
<1>4. CASE NoSuccess
  BY <1>4 DEF NoSuccess
<1>5. CASE UNCHANGED vars
  BY <1>5 DEF vars
<1> QED
  BY <1>1, <1>2, <1>3, <1>4, <1>5 DEF Next

(* The engine's variables keep their types, and every weight is at least   *)
(* 1.0, so that the distribution can always be built.                      *)
THEOREM EngineTypeCorrect == Spec => []TypeOK
<1>1. Init => TypeOK
  BY EngineAssumption DEF Init, TypeOK
<1>2. TypeOK /\ [Next]_vars => TypeOK'
  BY TypeStep
<1> QED
  BY <1>1, <1>2, PTL DEF Spec

-----------------------------------------------------------------------------
(* The cached distribution.                                                *)

(* No strategy is drawn by weights that have changed since: the cached     *)
(* distribution is the one of the weights, or marked for rebuilding.       *)
THEOREM CacheIsCoherent == Spec => []DistributionIsCurrent
<1>1. Init => DistributionIsCurrent
  BY DEF Init, DistributionIsCurrent
<1>2. DistributionIsCurrent /\ [Next]_vars => DistributionIsCurrent'
  <2> SUFFICES ASSUME DistributionIsCurrent, [Next]_vars
               PROVE  DistributionIsCurrent'
    OBVIOUS
  <2>1. CASE Mutate
    BY <2>1 DEF Mutate, CountMutation, Distribution, DistributionIsCurrent
  <2>2. CASE SchemaMutate \/ RecordSuccess \/ NoSuccess \/ UNCHANGED vars
    BY <2>2 DEF SchemaMutate, RecordSuccess, NoSuccess, vars, DistributionIsCurrent
  <2> QED BY <2>1, <2>2 DEF Next
<1> QED
  BY <1>1, <1>2, PTL DEF Spec

-----------------------------------------------------------------------------
(* The ceiling.                                                            *)

(* What a decay leaves is a natural number, and large enough: a surplus of *)
(* that much and DecayInterval credits decays to it again.                 *)
LEMMA LeftByDecayAbsorbs ==
  /\ LeftByDecay \in Nat
  /\ (LeftByDecay + One * DecayInterval) * Keep <= LeftByDecay * Whole
<1> DEFINE a == One * DecayInterval * Keep
           d == Whole - Keep
<1>1. a \in Nat /\ d \in Nat \ {0} /\ One * DecayInterval \in Nat
  BY EngineAssumption
<1>2. LeftByDecay = a \div d + 1
  BY DEF LeftByDecay
<1>3. a \div d \in Nat /\ a < d * (a \div d + 1)
  <2> HIDE DEF a, d
  <2>1. a = d * (a \div d) + (a % d) /\ a % d < d /\ a \div d \in Nat /\ a % d \in Nat
    BY <1>1
  <2>2. d * (a \div d + 1) = d * (a \div d) + d
    BY <1>1, <2>1
  <2>3. d * (a \div d) \in Nat
    BY <1>1, <2>1
  <2> QED BY <1>1, <2>1, <2>2, <2>3
<1>4. LeftByDecay \in Nat
  BY <1>2, <1>3
<1>5. a <= LeftByDecay * d
  <2> HIDE DEF a, d
  <2>1. d * LeftByDecay = LeftByDecay * d
    BY <1>1, <1>4
  <2>2. LeftByDecay * d \in Nat
    BY <1>1, <1>4
  <2> QED BY <1>1, <1>2, <1>3, <2>1, <2>2
<1>6. LeftByDecay * d = LeftByDecay * Whole - LeftByDecay * Keep
  BY <1>4, EngineAssumption
<1>7. (LeftByDecay + One * DecayInterval) * Keep = LeftByDecay * Keep + a
  BY <1>1, <1>4, EngineAssumption
<1>8. LeftByDecay * Keep \in Nat /\ LeftByDecay * Whole \in Nat
  BY <1>4, EngineAssumption
<1> QED
  BY <1>1, <1>4, <1>5, <1>6, <1>7, <1>8

(* A weight under the ceiling decays to at most what a decay leaves. *)
LEMMA DecayedIsBounded ==
  ASSUME NEW w \in Nat, w >= One, w <= One + LeftByDecay + One * DecayInterval
  PROVE  Decayed(w) <= One + LeftByDecay
<1> DEFINE e == w - One
           m == LeftByDecay + One * DecayInterval
<1>1. One \in Nat /\ Keep \in Nat /\ Whole \in Nat \ {0} /\ One * DecayInterval \in Nat
      /\ LeftByDecay \in Nat
  BY EngineAssumption, LeftByDecayAbsorbs
<1>2. e \in Nat /\ m \in Nat /\ e <= m
  BY <1>1
<1>3. m * Keep <= LeftByDecay * Whole
  BY LeftByDecayAbsorbs
<1>4. Decayed(w) = (e * Keep) \div Whole + One
  BY <1>1 DEF Decayed
<1>5. (e * Keep) \div Whole <= LeftByDecay
  <2> HIDE DEF e, m
  <2>1. e * Keep \in Nat /\ m * Keep \in Nat /\ LeftByDecay * Whole \in Nat
    BY <1>1, <1>2
  <2>2. e * Keep <= m * Keep
    BY <1>1, <1>2
  <2>3. e * Keep <= LeftByDecay * Whole
    BY <1>3, <2>1, <2>2
  <2> DEFINE b == e * Keep
             q == b \div Whole
  <2>4. b \in Nat /\ b <= LeftByDecay * Whole
    BY <2>1, <2>3
  <2> HIDE DEF b
  <2>5. q \in Nat /\ q * Whole <= b
    BY <1>1, <2>4
  <2> HIDE DEF q
  <2>6. q * Whole <= LeftByDecay * Whole
    BY <1>1, <2>1, <2>4, <2>5
  <2>7. q <= LeftByDecay
    BY <1>1, <2>5, <2>6
  <2> QED BY <2>7 DEF q, b
<1> QED
  BY <1>1, <1>4, <1>5, <1>2

(* Each step keeps the surplus within the credits it can come from. *)
LEMMA SurplusStep ==
  ASSUME TypeOK, SurplusInv, [Next]_vars
  PROVE  SurplusInv'
<1> SUFFICES ASSUME ~schema', NEW s \in Strategies
             PROVE  (weights[s])' <= One + LeftByDecay + One * Credits'
  BY DEF SurplusInv, LeftByDecay
<1>1. /\ LeftByDecay \in Nat /\ One \in Nat \ {0} /\ DecayInterval \in Nat \ {0}
      /\ weights[s] \in Nat /\ weights[s] >= One /\ decayCounter \in 0 .. DecayInterval - 1
  BY EngineAssumption, LeftByDecayAbsorbs DEF TypeOK
<1>2. ~schema
  BY DEF Next, Mutate, SchemaMutate, RecordSuccess, NoSuccess, vars
<1>3. weights[s] <= One + LeftByDecay + One * Credits
  BY <1>2 DEF SurplusInv
<1>4. /\ One * decayCounter \in Nat /\ One * (decayCounter + 1) = One * decayCounter + One
      /\ One * 0 = 0
  BY <1>1
<1>5. CASE Mutate
  <2>1. stage = "mutate" /\ stage' = "judge"
    BY <1>5 DEF Mutate
  <2>2. weights[s] <= One + LeftByDecay + One * (decayCounter + 1)
    BY <1>3, <2>1 DEF Credits
  <2>3. CASE decayCounter = DecayInterval - 1
    <3>1. decayCounter' = 0
      BY <1>1, <1>5, <2>3 DEF Mutate, CountMutation
    <3>2. weights'[s] = Decayed(weights[s])
      BY <1>5, <3>1 DEF Mutate, CountMutation
    <3>3. weights[s] <= One + LeftByDecay + One * DecayInterval
      BY <1>1, <2>2, <2>3
    <3>4. weights'[s] <= One + LeftByDecay
      BY <1>1, <3>2, <3>3, DecayedIsBounded
    <3> QED BY <1>1, <1>4, <2>1, <3>1, <3>4 DEF Credits
  <2>4. CASE decayCounter # DecayInterval - 1
    <3>1. decayCounter' = decayCounter + 1 /\ decayCounter' # 0
      BY <1>1, <1>5, <2>4 DEF Mutate, CountMutation
    <3>2. weights'[s] = weights[s]
      BY <1>5, <3>1 DEF Mutate, CountMutation
    <3> QED BY <2>1, <2>2, <3>1, <3>2 DEF Credits
  <2> QED BY <2>3, <2>4
<1>6. CASE RecordSuccess
  <2>1. stage = "judge" /\ stage' = "mutate" /\ decayCounter' = decayCounter
    BY <1>6 DEF RecordSuccess
  <2>2. weights'[s] <= weights[s] + One
    BY <1>1, <1>6 DEF RecordSuccess, TypeOK
  <2>3. weights'[s] \in Nat
    BY <1>1, <1>6 DEF RecordSuccess, TypeOK
  <2> QED BY <1>1, <1>3, <1>4, <2>1, <2>2, <2>3 DEF Credits
<1>7. CASE NoSuccess
  <2>1. stage = "judge" /\ stage' = "mutate" /\ decayCounter' = decayCounter
        /\ weights' = weights
    BY <1>7 DEF NoSuccess
  <2> QED BY <1>1, <1>3, <1>4, <2>1 DEF Credits
<1>8. CASE UNCHANGED vars
  BY <1>3, <1>8 DEF vars, Credits
<1>9. ~SchemaMutate
  BY <1>2 DEF SchemaMutate
<1> QED
  BY <1>5, <1>6, <1>7, <1>8, <1>9 DEF Next

(* Without a schema no weight ever passes the ceiling, however long the    *)
(* campaign runs: no strategy can take more than a fixed share from the    *)
(* others.                                                                 *)
THEOREM NoStarvation == Spec => []NoStrategyIsStarved
<1>1. Init => SurplusInv
  <2> SUFFICES ASSUME Init, NEW s \in Strategies
               PROVE  weights[s] <= One + LeftByDecay + One * Credits
    BY DEF SurplusInv
  <2>1. weights[s] = One /\ Credits = 1
    BY DEF Init, Credits
  <2> QED BY <2>1, EngineAssumption, LeftByDecayAbsorbs
<1>2. TypeOK /\ SurplusInv /\ [Next]_vars => SurplusInv'
  BY SurplusStep
<1>3. TypeOK /\ SurplusInv => NoStrategyIsStarved
  <2> SUFFICES ASSUME TypeOK, SurplusInv, ~schema, NEW s \in Strategies
               PROVE  weights[s] <= Ceiling
    BY DEF NoStrategyIsStarved
  <2>1. weights[s] <= One + LeftByDecay + One * Credits
    BY DEF SurplusInv
  <2>2. Credits \in Nat /\ Credits <= DecayInterval
    BY EngineAssumption DEF Credits, TypeOK
  <2>3. One * Credits <= One * DecayInterval /\ One * Credits \in Nat
        /\ One * DecayInterval \in Nat
    BY <2>2, EngineAssumption
  <2>4. weights[s] \in Nat /\ LeftByDecay \in Nat /\ One \in Nat
    BY EngineAssumption, LeftByDecayAbsorbs DEF TypeOK
  <2> QED BY <2>1, <2>3, <2>4 DEF Ceiling
<1> QED
  BY <1>1, <1>2, <1>3, EngineTypeCorrect, PTL DEF Spec
=============================================================================

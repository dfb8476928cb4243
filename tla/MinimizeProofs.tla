--------------------------- MODULE MinimizeProofs ---------------------------
(***************************************************************************)
(* Theorems about the minimizer, for every target, every set of records    *)
(* and every limit: the types of Minimize, that a result is a cut of the   *)
(* recorded input that crashed, and that giving up after StallLimit        *)
(* failures means that no cut at an end would help.                        *)
(***************************************************************************)
EXTENDS Minimize, SequenceTheorems, TLAPS

-----------------------------------------------------------------------------
(* Inputs, cuts and thinned inputs.                                        *)

(* The longest record is one of the records. *)
LEMMA LongestIsOriginal ==
  /\ Longest \in Originals
  /\ Longest \in Seq(Bytes)
  /\ Len(Longest) \in Nat
  /\ \A j \in Originals : Len(j) <= Len(Longest)
<1>1. Longest \in Originals /\ \A j \in Originals : Len(j) <= Len(Longest)
  BY MinimizeAssumption DEF Longest
<1>2. Longest \in Seq(Bytes)
  BY <1>1, MinimizeAssumption
<1> QED
  BY <1>1, <1>2, LenProperties

(* An input is a sequence of bytes no longer than the longest record. *)
LEMMA InputsAreShort ==
  \A s : s \in Inputs <=> s \in Seq(Bytes) /\ Len(s) <= Len(Longest)
<1> SUFFICES ASSUME NEW s
             PROVE  s \in Inputs <=> s \in Seq(Bytes) /\ Len(s) <= Len(Longest)
  OBVIOUS
<1>1. ASSUME s \in Inputs
      PROVE  s \in Seq(Bytes) /\ Len(s) <= Len(Longest)
  <2>1. PICK n \in 0 .. Len(Longest) : s \in [1 .. n -> Bytes]
    BY <1>1 DEF Inputs
  <2>2. n \in Nat /\ n <= Len(Longest)
    BY LongestIsOriginal
  <2>3. s \in Seq(Bytes)
    BY <2>1, <2>2, SeqDef
  <2>4. Len(s) = n
    BY <2>1, <2>2, <2>3, LenProperties
  <2> QED
    BY <2>2, <2>3, <2>4
<1>2. ASSUME s \in Seq(Bytes), Len(s) <= Len(Longest)
      PROVE  s \in Inputs
  <2>1. Len(s) \in 0 .. Len(Longest) /\ s \in [1 .. Len(s) -> Bytes]
    BY <1>2, LenProperties, LongestIsOriginal
  <2> QED
    BY <2>1 DEF Inputs
<1> QED
  BY <1>1, <1>2

(* The recorded inputs are inputs. *)
LEMMA OriginalsAreInputs == Originals \subseteq Inputs
BY MinimizeAssumption, LongestIsOriginal, InputsAreShort

(* A cut that keeps the bytes from place a + 1 on is thinned. *)
LEMMA RunsAreThinned ==
  ASSUME NEW s \in Seq(Bytes), NEW r \in Seq(Bytes), NEW a \in Nat,
         Len(r) + a <= Len(s),
         \A k \in 1 .. Len(r) : r[k] = s[k + a]
  PROVE  IsThinned(r, s)
<1> DEFINE from == [k \in DOMAIN r |-> k + a]
<1>1. DOMAIN r = 1 .. Len(r) /\ DOMAIN s = 1 .. Len(s)
      /\ Len(r) \in Nat /\ Len(s) \in Nat
  BY LenProperties
<1>2. from \in [DOMAIN r -> DOMAIN s]
  BY <1>1
<1>3. \A j, k \in DOMAIN r : j < k => from[j] < from[k]
  BY <1>1
<1>4. \A k \in DOMAIN r : r[k] \in {s[from[k]], Zero}
  BY <1>1
<1> HIDE DEF from
<1> QED
  BY <1>2, <1>3, <1>4 DEF IsThinned

(* So is one that keeps the first bytes.                                   *)
LEMMA PrefixesAreThinned ==
  ASSUME NEW s \in Seq(Bytes), NEW r \in Seq(Bytes),
         Len(r) <= Len(s),
         \A k \in 1 .. Len(r) : r[k] = s[k]
  PROVE  IsThinned(r, s)
<1>1. Len(r) \in Nat /\ Len(s) \in Nat
  BY LenProperties
<1>2. Len(r) + 0 <= Len(s)
  BY <1>1
<1>3. \A k \in 1 .. Len(r) : k + 0 = k
  BY <1>1
<1>4. \A k \in 1 .. Len(r) : r[k] = s[k + 0]
  BY <1>3
<1> QED
  BY <1>2, <1>4, RunsAreThinned

(* Thinning what is thinned gives a thinned input. *)
LEMMA ThinnedIsTransitive ==
  ASSUME NEW s, NEW t, NEW u, IsThinned(s, t), IsThinned(t, u),
         t \in Seq(Bytes)
  PROVE  IsThinned(s, u)
<1>1. PICK f \in [DOMAIN s -> DOMAIN t] :
        /\ \A j, k \in DOMAIN s : j < k => f[j] < f[k]
        /\ \A k \in DOMAIN s : s[k] \in {t[f[k]], Zero}
  BY DEF IsThinned
<1>2. PICK g \in [DOMAIN t -> DOMAIN u] :
        /\ \A j, k \in DOMAIN t : j < k => g[j] < g[k]
        /\ \A k \in DOMAIN t : t[k] \in {u[g[k]], Zero}
  BY DEF IsThinned
<1> DEFINE h == [k \in DOMAIN s |-> g[f[k]]]
<1>3. h \in [DOMAIN s -> DOMAIN u]
  BY <1>1, <1>2
<1>4. \A j, k \in DOMAIN s : j < k => h[j] < h[k]
  BY <1>1, <1>2
<1>5. \A k \in DOMAIN s : s[k] \in {u[h[k]], Zero}
  BY <1>1, <1>2
<1> HIDE DEF h
<1> QED
  BY <1>3, <1>4, <1>5 DEF IsThinned

(* What a pass makes of an input of two bytes or more is an input, is not  *)
(* empty, and is the input with bytes removed or zeroed.                   *)
LEMMA ReductionsThin ==
  ASSUME NEW s \in Inputs, Len(s) > 1, NEW pass \in 0 .. 4,
         NEW r \in Reductions(pass, s)
  PROVE  /\ r \in Inputs
         /\ Len(r) > 0
         /\ IsThinned(r, s)
<1> DEFINE n == Len(s)
<1>1. /\ s \in Seq(Bytes) /\ n <= Len(Longest) /\ n \in Nat /\ Len(Longest) \in Nat
      /\ DOMAIN s = 1 .. n
      /\ s \in [1 .. n -> Bytes]
  BY InputsAreShort, LenProperties, LongestIsOriginal
<1>2. SUFFICES r \in Seq(Bytes) /\ Len(r) > 0 /\ Len(r) <= n /\ IsThinned(r, s)
  BY <1>1, InputsAreShort, LenProperties
<1>3. s # <<>>
  BY <1>1
<1> HIDE DEF n
<1>4. CASE pass = 0
  <2>1. r = SubSeq(s, 1, n - 1)
    BY <1>4 DEF Reductions, Front, n
  <2>2. \A i \in 1 .. n - 1 : s[i] \in Bytes
    BY <1>1
  <2>3. r \in Seq(Bytes) /\ Len(r) = n - 1 /\ \A i \in 1 .. n - 1 : r[i] = s[i]
    BY <1>1, <2>1, <2>2, SubSeqProperties DEF n
  <2>4. IsThinned(r, s)
    BY <1>1, <2>3, PrefixesAreThinned DEF n
  <2> QED
    BY <1>1, <2>3, <2>4 DEF n
<1>5. CASE pass = 1
  <2>1. r = Tail(s)
    BY <1>5 DEF Reductions
  <2>2. r \in Seq(Bytes) /\ Len(r) = n - 1 /\ \A i \in 1 .. n - 1 : r[i] = s[i + 1]
    BY <1>1, <1>3, <2>1, HeadTailProperties DEF n
  <2>3. IsThinned(r, s)
    BY <1>1, <2>2, RunsAreThinned, 1 \in Nat DEF n
  <2> QED
    BY <1>1, <2>2, <2>3 DEF n
<1>6. CASE pass = 2
  <2>0. r \in {RemoveAt(s, k) : k \in DOMAIN s}
    BY <1>6 DEF Reductions
  <2>1. PICK k \in 1 .. n : r = SubSeq(s, 1, k - 1) \o SubSeq(s, k + 1, n)
    BY <1>1, <2>0 DEF RemoveAt, n
  <2> DEFINE x == SubSeq(s, 1, k - 1)
  <2> DEFINE y == SubSeq(s, k + 1, n)
  <2>2. k \in Nat /\ 1 <= k /\ k <= n
    BY <1>1
  <2>3. /\ x \in Seq(Bytes) /\ Len(x) = k - 1
        /\ \A i \in 1 .. k - 1 : x[i] = s[i]
    <3>1. \A i \in 1 .. k - 1 : s[i] \in Bytes
      BY <1>1, <2>2
    <3> QED
      BY <1>1, <2>2, <3>1, SubSeqProperties
  <2>4. /\ y \in Seq(Bytes) /\ Len(y) = n - k
        /\ \A i \in 1 .. n - k : y[i] = s[k + i]
    <3>1. \A i \in k + 1 .. n : s[i] \in Bytes
      BY <1>1, <2>2
    <3> QED
      BY <1>1, <2>2, <3>1, SubSeqProperties
  <2> HIDE DEF x, y
  <2>5. /\ r \in Seq(Bytes) /\ Len(r) = n - 1
        /\ \A i \in 1 .. n - 1 : r[i] = IF i < k THEN s[i] ELSE s[i + 1]
    <3>1. r = x \o y
      BY <2>1 DEF x, y
    <3>2. /\ r \in Seq(Bytes) /\ Len(r) = Len(x) + Len(y)
          /\ \A i \in 1 .. Len(x) + Len(y) :
               r[i] = IF i <= Len(x) THEN x[i] ELSE y[i - Len(x)]
      BY <2>3, <2>4, <3>1, ConcatProperties
    <3>3. Len(r) = n - 1
      BY <1>1, <2>2, <2>3, <2>4, <3>2
    <3>4. ASSUME NEW i \in 1 .. n - 1, i < k
          PROVE  r[i] = s[i]
      BY <1>1, <2>2, <2>3, <2>4, <3>2, <3>4
    <3>5. ASSUME NEW i \in 1 .. n - 1, ~(i < k)
          PROVE  r[i] = s[i + 1]
      <4> DEFINE j == i - (k - 1)
      <4>1. j \in 1 .. n - k /\ k + j = i + 1 /\ i \in 1 .. Len(x) + Len(y)
            /\ ~(i <= Len(x))
        BY <1>1, <2>2, <2>3, <2>4, <3>5
      <4>2. r[i] = y[i - Len(x)] /\ i - Len(x) = j
        BY <2>2, <2>3, <3>2, <4>1
      <4> HIDE DEF j
      <4> QED
        BY <2>4, <4>1, <4>2
    <3> QED
      BY <3>2, <3>3, <3>4, <3>5
  <2> DEFINE from == [i \in DOMAIN r |-> IF i < k THEN i ELSE i + 1]
  <2>6. DOMAIN r = 1 .. n - 1
    BY <2>5, LenProperties
  <2>7. from \in [DOMAIN r -> DOMAIN s]
    BY <1>1, <2>2, <2>6
  <2>8. \A i, j \in DOMAIN r : i < j => from[i] < from[j]
    BY <1>1, <2>2, <2>6
  <2>9. \A i \in DOMAIN r : r[i] \in {s[from[i]], Zero}
    BY <1>1, <2>2, <2>5, <2>6
  <2> HIDE DEF from
  <2>10. IsThinned(r, s)
    BY <2>7, <2>8, <2>9 DEF IsThinned
  <2> QED
    BY <1>1, <2>5, <2>10 DEF n
<1>7. CASE pass = 3
  <2>1. PICK k \in 1 .. n : r = [s EXCEPT ![k] = Zero]
    BY <1>1, <1>7 DEF Reductions
  <2>2. /\ r \in Seq(Bytes) /\ Len(r) = n
        /\ \A i \in 1 .. n : r[i] = IF i = k THEN Zero ELSE s[i]
    BY <1>1, <2>1, ExceptSeq, MinimizeAssumption DEF n
  <2> DEFINE from == [i \in DOMAIN r |-> i]
  <2>3. DOMAIN r = 1 .. n
    BY <2>2, LenProperties
  <2>4. from \in [DOMAIN r -> DOMAIN s]
    BY <1>1, <2>3
  <2>5. \A i, j \in DOMAIN r : i < j => from[i] < from[j]
    BY <1>1, <2>3
  <2>6. \A i \in DOMAIN r : r[i] \in {s[from[i]], Zero}
    BY <1>1, <2>2, <2>3
  <2> HIDE DEF from
  <2>7. IsThinned(r, s)
    BY <2>4, <2>5, <2>6 DEF IsThinned
  <2> QED
    BY <1>1, <2>2, <2>7 DEF n
<1>8. CASE pass = 4
  <2> DEFINE m == n \div 2
  <2>1. m \in Nat /\ 1 <= m /\ m <= n
    BY <1>1 DEF n
  <2>2. r = SubSeq(s, 1, m)
    BY <1>8 DEF Reductions, Half, n
  <2> HIDE DEF m
  <2>3. \A i \in 1 .. m : s[i] \in Bytes
    BY <1>1, <2>1
  <2>4. r \in Seq(Bytes) /\ Len(r) = m /\ \A i \in 1 .. m : r[i] = s[i]
    BY <1>1, <2>1, <2>2, <2>3, SubSeqProperties
  <2>5. IsThinned(r, s)
    BY <1>1, <2>1, <2>4, PrefixesAreThinned DEF n
  <2> QED
    BY <1>1, <2>1, <2>4, <2>5 DEF n
<1> QED
  BY <1>4, <1>5, <1>6, <1>7, <1>8

-----------------------------------------------------------------------------
(* The types and the candidate of a run.                                   *)

(* While the target runs, the loop has not ended, and the candidate is one *)
(* the pass of this iteration makes of the current input.                  *)
RunIsOfThisPass ==
  pc = "run" =>
    /\ Len(current) > 1
    /\ noProgress < StallLimit
    /\ iter < MaxIters
    /\ candidate \in Reductions(iter % 5, current)

TypeInv == TypeOK /\ RunIsOfThisPass

(* The steps of a run keep their types, so that a pass never makes an      *)
(* empty candidate and a failure count never passes its limit.             *)
LEMMA TypeInvariant == Spec => []TypeInv
<1>1. Init => TypeInv
  <2> SUFFICES ASSUME Init PROVE TypeInv
    OBVIOUS
  <2>1. original \in Inputs /\ original \in Seq(Bytes)
    BY OriginalsAreInputs, InputsAreShort DEF Init
  <2>2. Len(original) > 0 => original # <<>>
    BY <2>1
  <2> QED
    BY <2>1, <2>2, MinimizeAssumption DEF Init, TypeInv, TypeOK, RunIsOfThisPass
<1>2. TypeInv /\ [Next]_vars => TypeInv'
  <2> SUFFICES ASSUME TypeInv, [Next]_vars PROVE TypeInv'
    OBVIOUS
  <2> USE DEF TypeInv
  <2>1. /\ iter \in Nat /\ noProgress \in Nat /\ MaxIters \in Nat /\ StallLimit \in Nat
        /\ iter % 5 \in 0 .. 4
        /\ current \in Inputs /\ candidate \in Inputs
    BY MinimizeAssumption DEF TypeOK
  <2>2. CASE Reduce
    <3>1. Len(current) > 1 /\ noProgress < StallLimit /\ iter < MaxIters
      <4>1. Len(current) \in Nat
        BY <2>1, InputsAreShort, LenProperties
      <4> QED
        BY <2>1, <2>2, <4>1 DEF Reduce, Finished, Stalled, TypeOK
    <3>2. candidate' \in Inputs /\ Len(candidate') > 0
      BY <2>1, <2>2, <3>1, ReductionsThin DEF Reduce
    <3>3. candidate' # <<>>
      BY <3>2, InputsAreShort
    <3> QED
      BY <2>2, <3>1, <3>2, <3>3 DEF Reduce, TypeOK, RunIsOfThisPass
  <2>3. CASE Accept
    BY <2>1, <2>3 DEF Accept, TypeOK, RunIsOfThisPass
  <2>4. CASE Reject
    BY <2>1, <2>4 DEF Reject, TypeOK, RunIsOfThisPass
  <2>5. CASE Finish
    BY <2>5 DEF Finish, TypeOK, RunIsOfThisPass
  <2>6. CASE Done
    BY <2>6 DEF Done, vars, TypeOK, RunIsOfThisPass
  <2>7. CASE UNCHANGED vars
    BY <2>7 DEF vars, TypeOK, RunIsOfThisPass
  <2> QED
    BY <2>2, <2>3, <2>4, <2>5, <2>6, <2>7 DEF Next
<1> QED
  BY <1>1, <1>2, PTL DEF Spec

(* TypeOK of Minimize, for every target and every limit: candidates are    *)
(* inputs, none is empty, and the counters stay within their limits.       *)
THEOREM MinimizeTypeOK == Spec => []TypeOK
BY TypeInvariant, PTL DEF TypeInv

-----------------------------------------------------------------------------
(* The result.                                                             *)

(* ResultIsReal of Minimize: whatever passes succeeded in whatever order,  *)
(* the result is the recorded input with bytes removed or zeroed, and it   *)
(* is the record itself or has crashed the target.                         *)
THEOREM MinimizedIsReal == Spec => []ResultIsReal
<1> USE DEF ResultIsReal
<1>1. Init => ResultIsReal
  <2> SUFFICES ASSUME Init PROVE ResultIsReal
    OBVIOUS
  <2>1. original \in Seq(Bytes) /\ current = original
    BY OriginalsAreInputs, InputsAreShort DEF Init
  <2>2. IsThinned(original, original)
    BY <2>1, PrefixesAreThinned, LenProperties
  <2> QED
    BY <2>1, <2>2 DEF ResultIsFromTheRecord, ResultCrashes
<1>2. TypeInv /\ ResultIsReal /\ [Next]_vars => ResultIsReal'
  <2> SUFFICES ASSUME TypeInv, ResultIsReal, [Next]_vars PROVE ResultIsReal'
    OBVIOUS
  <2>1. CASE Accept
    <3>1. IsThinned(candidate, current)
      <4>1. Len(current) > 1 /\ candidate \in Reductions(iter % 5, current)
        BY <2>1 DEF Accept, TypeInv, RunIsOfThisPass
      <4>2. iter % 5 \in 0 .. 4 /\ current \in Inputs
        BY MinimizeAssumption DEF TypeInv, TypeOK
      <4> QED
        BY <4>1, <4>2, ReductionsThin
    <3>2. current \in Seq(Bytes)
      BY InputsAreShort DEF TypeInv, TypeOK
    <3>3. IsThinned(candidate, original)
      BY <3>1, <3>2, ThinnedIsTransitive DEF ResultIsFromTheRecord
    <3> QED
      BY <2>1, <3>3 DEF Accept, ResultIsFromTheRecord, ResultCrashes
  <2>2. CASE UNCHANGED <<target, original, current>>
    BY <2>2 DEF ResultIsFromTheRecord, ResultCrashes
  <2> QED
    BY <2>1, <2>2 DEF Next, Reduce, Reject, Finish, Done, vars
<1> QED
  BY <1>1, <1>2, TypeInvariant, PTL DEF Spec

-----------------------------------------------------------------------------
(* Giving up.                                                              *)

(* On a predictable target the cuts that the last noProgress iterations    *)
(* made of the current input do not crash it.  The passes that remove or   *)
(* zero a byte pick one of many, so they say nothing of the others.        *)
FailedCutsAreKnown ==
  /\ noProgress <= iter
  /\ Predictable =>
       \A j \in 1 .. noProgress :
         (iter - j) % 5 \in {0, 1, 4} =>
           \A cut \in Reductions((iter - j) % 5, current) : "crash" \notin target[cut]

LEMMA FailedCutsInvariant == Spec => []FailedCutsAreKnown
<1>1. Init => FailedCutsAreKnown
  BY DEF Init, FailedCutsAreKnown
<1>2. TypeInv /\ FailedCutsAreKnown /\ [Next]_vars => FailedCutsAreKnown'
  <2> SUFFICES ASSUME TypeInv, FailedCutsAreKnown, [Next]_vars
               PROVE  FailedCutsAreKnown'
    OBVIOUS
  <2>1. iter \in Nat /\ noProgress \in Nat /\ candidate \in Inputs
    BY MinimizeAssumption DEF TypeInv, TypeOK
  <2>2. CASE Accept
    BY <2>1, <2>2 DEF Accept, FailedCutsAreKnown
  <2>3. CASE Reject
    <3>1. /\ UNCHANGED <<target, current>>
          /\ iter' = iter + 1 /\ noProgress' = noProgress + 1
      BY <2>3 DEF Reject
    <3>2. noProgress' <= iter'
      BY <2>1, <3>1 DEF FailedCutsAreKnown
    <3>3. ASSUME Predictable, NEW j \in 1 .. noProgress + 1,
                 (iter' - j) % 5 \in {0, 1, 4},
                 NEW cut \in Reductions((iter' - j) % 5, current)
          PROVE  "crash" \notin target[cut]
      <4>1. CASE j = 1
        <5>1. iter' - j = iter
          BY <2>1, <3>1, <4>1
        <5>2. cut = candidate
          <6>1. candidate \in Reductions(iter % 5, current)
            BY <2>3 DEF Reject, TypeInv, RunIsOfThisPass
          <6>2. iter % 5 \in {0, 1, 4} /\ cut \in Reductions(iter % 5, current)
            BY <3>3, <5>1
          <6>3. \A pass \in {0, 1, 4} : \A x, y \in Reductions(pass, current) : x = y
            <7>1. Reductions(0, current) = {Front(current)}
              BY DEF Reductions
            <7>2. Reductions(1, current) = {Tail(current)}
              BY DEF Reductions
            <7>3. Reductions(4, current) = {Half(current)}
              BY DEF Reductions
            <7> TAKE pass \in {0, 1, 4}
            <7> TAKE x, y \in Reductions(pass, current)
            <7>4. CASE pass = 0
              BY <7>1, <7>4
            <7>5. CASE pass = 1
              BY <7>2, <7>5
            <7>6. CASE pass = 4
              BY <7>3, <7>6
            <7> QED
              BY <7>4, <7>5, <7>6
          <6> QED
            BY <6>1, <6>2, <6>3
        <5>3. "other" \in target[candidate]
          <6>1. Len(current) > 1 /\ candidate \in Reductions(iter % 5, current)
            BY <2>3 DEF Reject, TypeInv, RunIsOfThisPass
          <6>2. iter % 5 \in 0 .. 4 /\ current \in Inputs
            BY <2>1 DEF TypeInv, TypeOK
          <6>3. Len(candidate) > 0
            BY <6>1, <6>2, ReductionsThin
          <6>4. candidate # <<>>
            BY <6>3
          <6> QED
            BY <2>3, <6>4 DEF Reject
        <5>4. target[candidate] \subseteq Endings /\ target[candidate] # Endings
          BY <2>1, <3>3, MinimizeAssumption DEF Predictable, TypeInv, TypeOK
        <5> QED
          BY <5>2, <5>3, <5>4 DEF Endings
      <4>2. CASE j # 1
        <5> DEFINE i == j - 1
        <5>1. i \in 1 .. noProgress /\ iter' - j = iter - i
          BY <2>1, <3>1, <4>2
        <5> HIDE DEF i
        <5> QED
          BY <3>3, <5>1 DEF FailedCutsAreKnown
      <4> QED
        BY <4>1, <4>2
    <3>4. Predictable' = Predictable
      BY <3>1 DEF Predictable
    <3> QED
      BY <3>1, <3>2, <3>3, <3>4 DEF FailedCutsAreKnown
  <2>4. CASE UNCHANGED <<target, current, iter, noProgress>>
    BY <2>4 DEF FailedCutsAreKnown, Predictable
  <2> QED
    BY <2>2, <2>3, <2>4 DEF Next, Reduce, Finish, Done, vars
<1> QED
  BY <1>1, <1>2, TypeInvariant, PTL DEF Spec

(* Five iterations in a row take every pass, whichever comes first.        *)
LEMMA FiveIterationsTakeAllPasses ==
  ASSUME NEW i \in Nat, NEW pass \in 0 .. 4
  PROVE  \E j \in 1 .. 5 : (i - j) % 5 = pass
<1>1. i % 5 \in 0 .. 4
  OBVIOUS
<1> DEFINE q == i \div 5
<1>2. q \in Nat /\ i = 5 * q + (i % 5)
  OBVIOUS
<1> HIDE DEF q
<1>3. CASE (i % 5) > pass
  <2>1. (i % 5) - pass \in 1 .. 5 /\ (i - ((i % 5) - pass)) % 5 = pass
    BY <1>1, <1>2, <1>3
  <2> QED
    BY <2>1
<1>4. CASE (i % 5) <= pass
  <2>1. ((i % 5) + 5) - pass \in 1 .. 5 /\ (i - (((i % 5) + 5) - pass)) % 5 = pass
    BY <1>1, <1>2, <1>4
  <2> QED
    BY <2>1
<1> QED
  BY <1>1, <1>3, <1>4

(* StalledMeansNoCutHelps of Minimize, for every limit of at least five    *)
(* failures: when the command gives up on a predictable target, neither    *)
(* the first byte, nor the last, nor the second half can be cut any more.  *)
THEOREM GivingUpIsJustified == Spec => []StalledMeansNoCutHelps
<1>1. TypeInv /\ FailedCutsAreKnown => StalledMeansNoCutHelps
  <2> SUFFICES ASSUME TypeInv, FailedCutsAreKnown, Stalled, Predictable,
                      NEW cut \in {Front(current), Tail(current), Half(current)}
               PROVE  "crash" \notin target[cut]
    BY DEF StalledMeansNoCutHelps
  <2>1. iter \in Nat /\ noProgress \in Nat /\ noProgress >= 5
    BY MinimizeAssumption DEF TypeInv, TypeOK, Stalled
  <2>2. PICK pass \in {0, 1, 4} : cut \in Reductions(pass, current)
    BY DEF Reductions
  <2>3. PICK j \in 1 .. 5 : (iter - j) % 5 = pass
    BY <2>1, FiveIterationsTakeAllPasses
  <2>4. j \in 1 .. noProgress
    BY <2>1
  <2> QED
    BY <2>2, <2>3, <2>4 DEF FailedCutsAreKnown
<1> QED
  BY <1>1, TypeInvariant, FailedCutsInvariant, PTL
=============================================================================

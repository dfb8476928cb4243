---------------------------- MODULE SchemaProofs ----------------------------
(***************************************************************************)
(* Proofs about modules Schema, SchemaInference and SchemaMutator, for     *)
(* schemas nested to any depth, any seeds and corpora.  What is defined by *)
(* recursion over fields is a CHOOSE of a function: FieldRecursion proves, *)
(* from the depth of fields, that there is one, and FieldInduction what    *)
(* holds of its values.                                                    *)
(***************************************************************************)
EXTENDS SchemaMutator, FiniteSetTheorems, SequenceTheorems, WellFoundedInduction, TLAPS

(* Every set of natural numbers that is not empty has a least element:     *)
(* what the proofs by induction below rest on.                             *)
LEMMA HasLeast ==
  ASSUME NEW T, T \subseteq Nat, T # {}
  PROVE  \E x \in T : \A y \in T : x <= y
<1> DEFINE R == {ss \in Nat \X Nat : ss[1] < ss[2]}
<1>1. IsWellFoundedOn(R, Nat)
  BY NatLessThanWellFounded DEF OpToRel
<1>2. PICK x \in T : \A y \in T : ~(<<y, x>> \in R)
  BY <1>1, WFMin, Zenon
<1>3. ASSUME NEW y \in T PROVE x <= y
  <2>1. x \in Nat /\ y \in Nat /\ ~(<<y, x>> \in R)
    BY <1>2
  <2>2. ~(y < x)
    BY <2>1
  <2> QED BY <2>1, <2>2
<1> QED
  BY <1>3

LEMMA HasGreatest ==
  ASSUME NEW n \in Nat, NEW T, T \subseteq 0 .. n, T # {}
  PROVE  \E x \in T : \A y \in T : y <= x
<1> DEFINE U == {n - x : x \in T}
<1>1. \A x \in T : x \in Nat /\ x <= n
  OBVIOUS
<1>4. U \subseteq Nat /\ U # {}
  <2>1. \A x \in T : n - x \in Nat
    BY <1>1
  <2>2. U \subseteq Nat
    BY <2>1
  <2> QED BY <2>2
<1>2. PICK u \in U : \A v \in U : u <= v
  BY <1>4, HasLeast
<1>3. PICK x \in T : u = n - x
  OBVIOUS
<1>5. \A y \in T : y <= x
  <2> TAKE y \in T
  <2>1. n - y \in U
    OBVIOUS
  <2>2. n - x <= n - y /\ x \in Nat /\ y \in Nat
    BY <1>1, <1>2, <1>3, <2>1
  <2> QED BY <2>2
<1> QED BY <1>5

-----------------------------------------------------------------------------
(* Functions defined by iteration over 0 .. n                              *)

IsStep(F, n, S) == F \in [1 .. n -> [S -> S]]
Iterates(f, n, S, first, F) ==
  f \in [0 .. n -> S] /\ f[0] = first /\ \A k \in 1 .. n : f[k] = F[k][f[k - 1]]

(* What is defined step by step from a first value is defined: F gives the *)
(* value at k from k and the value before.                                 *)
LEMMA IterationExists ==
  ASSUME NEW S, NEW s0 \in S, NEW n \in Nat, NEW F, IsStep(F, n, S)
  PROVE  \E f : Iterates(f, n, S, s0, F)
<1>5. F \in [1 .. n -> [S -> S]]
  BY DEF IsStep
<1> DEFINE P(m) == \E f \in [0 .. m -> S] :
                      f[0] = s0 /\ \A k \in 1 .. m : f[k] = F[k][f[k - 1]]
           Bad == {m \in 0 .. n : ~P(m)}
<1>1. P(0)
  <2> DEFINE f == [k \in 0 .. 0 |-> s0]
  <2>1. f \in [0 .. 0 -> S] /\ f[0] = s0 /\ 1 .. 0 = {}
    OBVIOUS
  <2> HIDE DEF f
  <2> QED BY <2>1
<1>2. ASSUME NEW m \in 0 .. n, m + 1 <= n, P(m) PROVE P(m + 1)
  <2>1. PICK f \in [0 .. m -> S] : f[0] = s0 /\ \A k \in 1 .. m : f[k] = F[k][f[k - 1]]
    BY <1>2
  <2> DEFINE g == [k \in 0 .. m + 1 |-> IF k = m + 1 THEN F[m + 1][f[m]] ELSE f[k]]
  <2>2. f[m] \in S /\ m + 1 \in 1 .. n
    BY <1>2, <2>1
  <2>3. F[m + 1][f[m]] \in S
    <3> DEFINE G == F[m + 1]
               x == f[m]
    <3>1. G \in [S -> S] /\ x \in S
      BY <1>5, <2>2
    <3> HIDE DEF G, x
    <3>2. G[x] \in S
      BY <3>1
    <3> QED BY <3>2 DEF G, x
  <2>4. g \in [0 .. m + 1 -> S]
    BY <2>1, <2>3
  <2>5. g[0] = s0
    BY <2>1
  <2>6. ASSUME NEW k \in 1 .. m + 1 PROVE g[k] = F[k][g[k - 1]]
    <3>1. g[k - 1] = f[k - 1]
      OBVIOUS
    <3>2. k = m + 1 \/ k \in 1 .. m
      OBVIOUS
    <3>3. k \in 1 .. m => g[k] = f[k]
      OBVIOUS
    <3>4. k = m + 1 => g[k] = F[m + 1][f[m]] /\ k - 1 = m
      OBVIOUS
    <3> QED BY <2>1, <3>1, <3>2, <3>3, <3>4
  <2> HIDE DEF g
  <2> QED BY <2>4, <2>5, <2>6
<1> HIDE DEF P
<1>3. ASSUME Bad # {} PROVE FALSE
  <2>4. Bad \subseteq Nat
    OBVIOUS
  <2>1. PICK m \in Bad : \A k \in Bad : m <= k
    <3> HIDE DEF Bad
    <3> QED BY <1>3, <2>4, HasLeast
  <2>2. m # 0
    BY <1>1
  <2>3. m - 1 \in 0 .. n /\ m - 1 \notin Bad /\ (m - 1) + 1 = m
    BY <2>1, <2>2
  <2>5. P(m)
    BY <1>2, <2>3
  <2> QED BY <2>5
<1>4. P(n)
  BY <1>3
<1> QED BY <1>4 DEF P, Iterates

LEMMA SeqBasics ==
  ASSUME NEW S, NEW s \in Seq(S)
  PROVE  Len(s) \in Nat /\ DOMAIN s = 1 .. Len(s) /\ \A k \in 1 .. Len(s) : s[k] \in S
OBVIOUS

(* A property of numbers up to n that 0 has and that passes on.            *)
LEMMA UpTo ==
  ASSUME NEW n \in Nat, NEW G, 0 \in G, \A k \in 1 .. n : k - 1 \in G => k \in G
  PROVE  \A k \in 0 .. n : k \in G
<1> DEFINE Bad == {k \in 0 .. n : k \notin G}
<1>1. ASSUME Bad # {} PROVE FALSE
  <2>4. Bad \subseteq Nat
    OBVIOUS
  <2>1. PICK m \in Bad : \A k \in Bad : m <= k
    <3> HIDE DEF Bad
    <3> QED BY <1>1, <2>4, HasLeast
  <2>2. m \in 1 .. n /\ m - 1 \in 0 .. n /\ m - 1 \notin Bad
    BY <2>1
  <2> QED BY <2>2
<1> QED BY <1>1

(* FlattenSeq by the sequences it goes through. *)
Flattens(flat, seqs, S) ==
  /\ flat \in [0 .. Len(seqs) -> Seq(S)] /\ flat[0] = <<>>
  /\ \A k \in 1 .. Len(seqs) : flat[k] = flat[k - 1] \o seqs[k]
  /\ FlattenSeq(seqs) = flat[Len(seqs)]

LEMMA FlattenIs ==
  ASSUME NEW S, NEW seqs \in Seq(Seq(S))
  PROVE  \E flat : Flattens(flat, seqs, S)
<1> DEFINE V == Seq(S)
           n == Len(seqs)
           Fix(f) == f = [k \in 1 .. n |-> IF k = 1 THEN seqs[k] ELSE f[k - 1] \o seqs[k]]
           g == CHOOSE f : Fix(f)
<1>1. n \in Nat /\ \A k \in 1 .. n : seqs[k] \in V
  BY SeqBasics
<1>2. FlattenSeq(seqs) = IF n = 0 THEN seqs ELSE g[n]
  BY DEF FlattenSeq
<1>3. n = 0 => seqs = <<>>
  OBVIOUS
<1> HIDE DEF n
<1>4. \A x, y \in V : x \o y \in V
  OBVIOUS
<1>5. <<>> \in V /\ \A x \in V : <<>> \o x = x
  OBVIOUS
<1> HIDE DEF V
<1> DEFINE F == [k \in 1 .. n |-> [x \in V |-> x \o seqs[k]]]
<1>6. \A k \in 1 .. n, x \in V : F[k][x] = x \o seqs[k]
  OBVIOUS
<1>7. IsStep(F, n, V)
  <2>1. \A k \in 1 .. n, x \in V : F[k][x] \in V
    BY <1>1, <1>4, <1>6
  <2>2. \A k \in 1 .. n : F[k] = [x \in V |-> F[k][x]]
    OBVIOUS
  <2>3. F = [k \in 1 .. n |-> F[k]]
    OBVIOUS
  <2> HIDE DEF F
  <2>4. \A k \in 1 .. n : F[k] \in [V -> V]
    BY <2>1, <2>2
  <2> QED BY <2>3, <2>4 DEF IsStep
<1> HIDE DEF F
<1>8. PICK flat : Iterates(flat, n, V, <<>>, F)
  <2> HIDE DEF Fix
  <2> QED BY <1>1, <1>5, <1>7, IterationExists
<1>9. /\ flat \in [0 .. n -> V] /\ flat[0] = <<>>
      /\ \A k \in 1 .. n : flat[k] = flat[k - 1] \o seqs[k]
  <2>1. /\ flat \in [0 .. n -> V] /\ flat[0] = <<>>
        /\ \A k \in 1 .. n : flat[k] = F[k][flat[k - 1]]
    BY <1>8 DEF Iterates
  <2>2. \A k \in 1 .. n : flat[k - 1] \in V
    BY <1>1, <2>1
  <2> QED BY <1>6, <2>1, <2>2
<1> DEFINE h == [k \in 1 .. n |-> flat[k]]
<1>10. ASSUME NEW k \in 1 .. n PROVE h[k] = IF k = 1 THEN seqs[k] ELSE h[k - 1] \o seqs[k]
  <2>1. k # 1 => k - 1 \in 1 .. n
    BY <1>1
  <2>2. h[k] = flat[k - 1] \o seqs[k]
    BY <1>9
  <2>3. CASE k = 1
    <3>1. flat[k - 1] = <<>>
      BY <1>9, <2>3
    <3> HIDE DEF h
    <3> QED BY <1>1, <1>5, <2>2, <2>3, <3>1
  <2>4. CASE k # 1
    BY <2>1, <2>2, <2>4
  <2> QED BY <2>3, <2>4
<1>11. Fix(h)
  <2>1. h = [k \in 1 .. n |-> h[k]]
    OBVIOUS
  <2> HIDE DEF h
  <2> QED BY <1>10, <2>1
<1>12. Fix(g)
  <2>1. \E f : Fix(f)
    BY <1>11
  <2> HIDE DEF Fix
  <2> QED BY <2>1, Zenon
<1> HIDE DEF g, h
<1> DEFINE G == {k \in 0 .. n : k # 0 => g[k] = flat[k]}
<1>13. \A k \in 0 .. n : k \in G
  <2>1. 0 \in G
    BY <1>1
  <2>2. ASSUME NEW k \in 1 .. n, k - 1 \in G PROVE k \in G
    <3>1. k \in 0 .. n /\ (k # 1 => k - 1 \in 1 .. n)
      BY <1>1
    <3>2. g[k] = IF k = 1 THEN seqs[k] ELSE g[k - 1] \o seqs[k]
      BY <1>12
    <3>3. flat[k] = IF k = 1 THEN seqs[k] ELSE flat[k - 1] \o seqs[k]
      BY <1>10, <3>1 DEF h
    <3>4. k # 1 => g[k - 1] = flat[k - 1]
      BY <1>1, <2>2
    <3> QED BY <3>1, <3>2, <3>3, <3>4
  <2> HIDE DEF G
  <2> QED BY <1>1, <2>1, <2>2, UpTo
<1>14. FlattenSeq(seqs) = flat[n]
  <2>1. n \in 0 .. n
    BY <1>1
  <2>2. n # 0 => g[n] = flat[n]
    BY <1>13, <2>1
  <2> QED BY <1>2, <1>3, <1>9, <2>2
<1> QED BY <1>9, <1>14 DEF V, n, Flattens

(* What it gives is a sequence of what the sequences hold. *)
LEMMA FlattenHolds ==
  ASSUME NEW S, NEW seqs \in Seq(Seq(S))
  PROVE  /\ FlattenSeq(seqs) \in Seq(S)
         /\ \A i \in DOMAIN FlattenSeq(seqs) :
              \E k \in DOMAIN seqs : \E j \in DOMAIN seqs[k] :
                FlattenSeq(seqs)[i] = seqs[k][j]
<1> DEFINE n == Len(seqs)
           Held(x) == \E k \in DOMAIN seqs : \E j \in DOMAIN seqs[k] : x = seqs[k][j]
<1>1. n \in Nat /\ DOMAIN seqs = 1 .. n /\ \A k \in 1 .. n : seqs[k] \in Seq(S)
  BY SeqBasics
<1>2. PICK flat : Flattens(flat, seqs, S)
  BY FlattenIs
<1>3. /\ flat \in [0 .. n -> Seq(S)] /\ flat[0] = <<>>
      /\ \A k \in 1 .. n : flat[k] = flat[k - 1] \o seqs[k]
      /\ FlattenSeq(seqs) = flat[n]
  BY <1>2 DEF Flattens
<1> DEFINE G == {k \in 0 .. n : \A i \in DOMAIN flat[k] : Held(flat[k][i])}
<1>4. \A k \in 0 .. n : k \in G
  <2>1. 0 \in G
    BY <1>1, <1>3
  <2>2. ASSUME NEW k \in 1 .. n, k - 1 \in G PROVE k \in G
    <3> DEFINE x == flat[k - 1]
               y == seqs[k]
    <3>1. /\ k \in 0 .. n /\ x \in Seq(S) /\ y \in Seq(S) /\ flat[k] = x \o y
          /\ \A i \in DOMAIN x : Held(x[i])
      <4> HIDE DEF Held
      <4>1. \A i \in DOMAIN flat[k - 1] : Held(flat[k - 1][i])
        BY <2>2
      <4>2. k \in 0 .. n /\ k - 1 \in 0 .. n
        BY <1>1
      <4>3. flat[k - 1] \in Seq(S)
        BY <1>3, <4>2
      <4>4. seqs[k] \in Seq(S)
        BY <1>1
      <4> QED BY <1>3, <4>1, <4>2, <4>3, <4>4
    <3>2. \A i \in DOMAIN y : Held(y[i])
      BY <1>1
    <3> HIDE DEF x, y, Held
    <3>3. \A i \in DOMAIN (x \o y) :
            (\E j \in DOMAIN x : (x \o y)[i] = x[j]) \/ (\E j \in DOMAIN y : (x \o y)[i] = y[j])
      <4> TAKE i \in DOMAIN (x \o y)
      <4>1. i \in 1 .. Len(x) + Len(y) /\ Len(x) \in Nat /\ Len(y) \in Nat
        BY <3>1
      <4>2. CASE i <= Len(x)
        <5>1. i \in DOMAIN x /\ (x \o y)[i] = x[i]
          BY <3>1, <4>1, <4>2
        <5> QED BY <5>1
      <4>3. CASE i > Len(x)
        <5>1. i - Len(x) \in DOMAIN y /\ (x \o y)[i] = y[i - Len(x)]
          BY <3>1, <4>1, <4>3
        <5> QED BY <5>1
      <4> QED BY <4>1, <4>2, <4>3
    <3>4. \A i \in DOMAIN flat[k] : Held(flat[k][i])
      BY <3>1, <3>2, <3>3
    <3> QED BY <3>1, <3>4
  <2> HIDE DEF G
  <2> QED BY <1>1, <2>1, <2>2, UpTo
<1>5. n \in 0 .. n
  BY <1>1
<1> QED BY <1>3, <1>4, <1>5

-----------------------------------------------------------------------------
(* Fields                                                                  *)

Records(rows) == [type : Types, length : Nat, mutable : BOOLEAN, fields : rows]
Rows(f, d)    == IF d = 0 THEN {<<>>} ELSE Seq(f[d - 1])

LEMMA LevelsAre ==
  \A d \in 0 .. Depth : FieldsUpTo[d] = Records(Rows(FieldsUpTo, d))
<1> DEFINE Fix(f, n) == f = [d \in 0 .. n |-> Records(Rows(f, d))]
           G == {n \in 0 .. Depth : \E f : Fix(f, n)}
<1>1. Depth \in Nat
  BY SchemaAssumption
<1>2. 0 \in G
  <2> DEFINE f == [d \in 0 .. 0 |-> Records({<<>>})]
  <2>1. \A d \in 0 .. 0 : Records(Rows(f, d)) = Records({<<>>})
    BY DEF Rows
  <2>2. f = [d \in 0 .. 0 |-> Records(Rows(f, d))]
    BY <2>1
  <2>3. Fix(f, 0)
    BY <2>2
  <2> QED BY <1>1, <2>3
<1>3. ASSUME NEW n \in 1 .. Depth, n - 1 \in G PROVE n \in G
  <2>1. PICK f : Fix(f, n - 1)
    BY <1>3
  <2> DEFINE g == [d \in 0 .. n |-> IF d = n THEN Records(Seq(f[n - 1])) ELSE f[d]]
  <2>2. /\ g[n] = Records(Seq(f[n - 1]))
        /\ \A d \in 0 .. n - 1 : g[d] = f[d]
        /\ g = [d \in 0 .. n |-> g[d]]
    BY <1>1
  <2> HIDE DEF g
  <2>3. ASSUME NEW d \in 0 .. n PROVE g[d] = Records(Rows(g, d))
    <3>1. CASE d = n
      <4>3. n - 1 \in 0 .. n - 1 /\ n # 0
        BY <1>1
      <4>1. g[n - 1] = f[n - 1] /\ n # 0
        BY <2>2, <4>3
      <4>2. Rows(g, n) = Seq(f[n - 1])
        BY <4>1 DEF Rows
      <4> QED BY <2>2, <3>1, <4>2
    <3>2. CASE d # n
      <4>1. d \in 0 .. n - 1
        BY <1>1, <3>2
      <4>2. f[d] = Records(Rows(f, d))
        BY <2>1, <4>1
      <4>5. d # 0 => d - 1 \in 0 .. n - 1
        BY <1>1, <4>1
      <4>3. d # 0 => g[d - 1] = f[d - 1]
        BY <2>2, <4>5
      <4>4. Rows(g, d) = Rows(f, d)
        BY <4>3 DEF Rows
      <4> QED BY <2>2, <4>1, <4>2, <4>4
    <3> QED BY <3>1, <3>2
  <2>4. Fix(g, n)
    BY <2>2, <2>3
  <2> HIDE DEF Fix
  <2> QED BY <1>1, <2>4
<1>4. \E f : Fix(f, Depth)
  <2> HIDE DEF Fix
  <2>1. \A k \in 1 .. Depth : k - 1 \in G => k \in G
    BY <1>3
  <2> HIDE DEF G
  <2>2. \A k \in 0 .. Depth : k \in G
    BY <1>1, <1>2, <2>1, UpTo
  <2>3. Depth \in G
    BY <1>1, <2>2
  <2> QED BY <2>3 DEF G
<1>5. FieldsUpTo = CHOOSE f : Fix(f, Depth)
  BY DEF FieldsUpTo, Records, Rows
<1>6. Fix(FieldsUpTo, Depth)
  <2> HIDE DEF Fix
  <2> QED BY <1>4, <1>5, Zenon
<1> QED BY <1>6

LEMMA FieldShape ==
  ASSUME NEW rows, NEW f \in Records(rows)
  PROVE  /\ f.type \in Types /\ f.length \in Nat /\ f.mutable \in BOOLEAN
         /\ f.fields \in rows
BY DEF Records

(* Level by level, fields are fields of the next level too. *)
LEMMA LevelsGrow ==
  \A d \in 1 .. Depth : FieldsUpTo[d - 1] \subseteq FieldsUpTo[d]
<1> DEFINE G == {d \in Nat : d = 0 \/ FieldsUpTo[d - 1] \subseteq FieldsUpTo[d]}
<1>1. Depth \in Nat
  BY SchemaAssumption
<1>2. ASSUME NEW d \in 1 .. Depth, d - 1 \in G PROVE d \in G
  <2>1. FieldsUpTo[d] = Records(Seq(FieldsUpTo[d - 1]))
    BY <1>1, LevelsAre DEF Rows
  <2>2. CASE d = 1
    <3>1. FieldsUpTo[d - 1] = Records({<<>>})
      BY <1>1, <2>2, LevelsAre DEF Rows
    <3>2. Records({<<>>}) \subseteq Records(Seq(FieldsUpTo[d - 1]))
      <4> DEFINE T == FieldsUpTo[d - 1]
      <4>1. <<>> \in Seq(T)
        OBVIOUS
      <4> HIDE DEF T
      <4>2. Records({<<>>}) \subseteq Records(Seq(T))
        BY <4>1 DEF Records
      <4> QED BY <4>2 DEF T
    <3> QED BY <2>1, <3>1, <3>2
  <2>3. CASE d # 1
    <3> DEFINE T == FieldsUpTo[d - 2]
               U == FieldsUpTo[d - 1]
    <3>1. d - 1 \in 1 .. Depth /\ (d - 1) - 1 = d - 2 /\ d - 1 # 0
      BY <1>1, <2>3
    <3>2. U = Records(Seq(T))
      <4>1. Rows(FieldsUpTo, d - 1) = Seq(T)
        BY <3>1 DEF Rows
      <4> QED BY <3>1, <4>1, LevelsAre
    <3>3. T \subseteq U
      BY <1>2, <3>1
    <3> HIDE DEF T, U
    <3>4. Seq(T) \subseteq Seq(U)
      BY <3>3
    <3>5. Records(Seq(T)) \subseteq Records(Seq(U))
      BY <3>4 DEF Records
    <3>6. U \subseteq FieldsUpTo[d]
      BY <2>1, <3>2, <3>5 DEF U
    <3> QED BY <3>6 DEF U
  <2> QED BY <2>2, <2>3
<1>3. \A d \in 0 .. Depth : d \in G
  <2> HIDE DEF G
  <2>1. 0 \in G
    BY DEF G
  <2>2. \A d \in 1 .. Depth : d - 1 \in G => d \in G
    BY <1>2
  <2> QED BY <1>1, <2>1, <2>2, UpTo
<1> QED BY <1>1, <1>3

LEMMA LevelsAreFields ==
  \A d \in 0 .. Depth : FieldsUpTo[d] \subseteq Fields
<1> DEFINE G == {d \in 0 .. Depth : FieldsUpTo[Depth - d] \subseteq Fields}
<1>1. Depth \in Nat
  BY SchemaAssumption
<1>2. 0 \in G
  BY <1>1 DEF Fields
<1>3. ASSUME NEW d \in 1 .. Depth, d - 1 \in G PROVE d \in G
  <2>1. Depth - (d - 1) \in 1 .. Depth /\ (Depth - (d - 1)) - 1 = Depth - d
    BY <1>1
  <2>2. FieldsUpTo[Depth - d] \subseteq FieldsUpTo[Depth - (d - 1)]
    BY <2>1, LevelsGrow
  <2> QED BY <1>1, <1>3, <2>2
<1>4. \A d \in 0 .. Depth : d \in G
  <2> HIDE DEF G
  <2> QED BY <1>1, <1>2, <1>3, UpTo
<1>5. ASSUME NEW d \in 0 .. Depth PROVE FieldsUpTo[d] \subseteq Fields
  <2>1. Depth - d \in 0 .. Depth /\ Depth - (Depth - d) = d
    BY <1>1
  <2>2. Depth - d \in G
    BY <2>1, <1>4
  <2> QED BY <2>1, <2>2
<1> QED BY <1>5

(* A field of any schema, and what it is made of. *)
LEMMA FieldIs ==
  \A f \in Fields : /\ f.type \in Types /\ f.length \in Nat /\ f.mutable \in BOOLEAN
                    /\ f.fields \in Seq(Fields)
<1>1. Depth \in Nat
  BY SchemaAssumption
<1>2. Rows(FieldsUpTo, Depth) \subseteq Seq(Fields)
  <2>1. CASE Depth = 0
    <3>1. <<>> \in Seq(Fields)
      OBVIOUS
    <3> QED BY <2>1, <3>1 DEF Rows
  <2>2. CASE Depth # 0
    <3> DEFINE T == FieldsUpTo[Depth - 1]
    <3>1. T \subseteq Fields
      BY <1>1, <2>2, LevelsAreFields
    <3> HIDE DEF T
    <3>2. Seq(T) \subseteq Seq(Fields)
      BY <3>1
    <3> QED BY <2>2, <3>2 DEF Rows, T
  <2> QED BY <2>1, <2>2
<1>3. Fields = Records(Rows(FieldsUpTo, Depth))
  BY <1>1, LevelsAre DEF Fields
<1> QED BY <1>2, <1>3, FieldShape

LEMMA LeafIsField ==
  ASSUME NEW type \in Types, NEW length \in Nat, NEW mutable \in BOOLEAN
  PROVE  Field(type, length, <<>>, mutable) \in Fields
<1>1. Depth \in Nat
  BY SchemaAssumption
<1>2. <<>> \in Rows(FieldsUpTo, Depth)
  BY DEF Rows
<1>3. Fields = Records(Rows(FieldsUpTo, Depth))
  BY <1>1, LevelsAre DEF Fields
<1> QED BY <1>2, <1>3 DEF Field, Records

(* The sub-fields of a field are one level below it. *)
LEMMA SubFieldsAreBelow ==
  ASSUME NEW d \in 0 .. Depth, NEW f \in FieldsUpTo[d], NEW k \in DOMAIN f.fields
  PROVE  d # 0 /\ f.fields[k] \in FieldsUpTo[d - 1]
<1>1. f.fields \in Rows(FieldsUpTo, d)
  BY LevelsAre, FieldShape
<1>2. d # 0
  BY <1>1 DEF Rows
<1>3. f.fields \in Seq(FieldsUpTo[d - 1])
  BY <1>1, <1>2 DEF Rows
<1> QED BY <1>2, <1>3

(* Induction over fields: what holds of a field if it holds of its         *)
(* sub-fields holds of every field.                                        *)
LEMMA FieldInduction ==
  ASSUME NEW G,
         \A f \in Fields : (\A k \in DOMAIN f.fields : f.fields[k] \in G) => f \in G
  PROVE  Fields \subseteq G
<1> DEFINE H == {d \in Nat : d \in 0 .. Depth => FieldsUpTo[d] \subseteq G}
<1>1. Depth \in Nat
  BY SchemaAssumption
<1>2. ASSUME NEW d \in 0 .. Depth, d = 0 \/ FieldsUpTo[d - 1] \subseteq G
      PROVE  FieldsUpTo[d] \subseteq G
  <2>1. ASSUME NEW f \in FieldsUpTo[d] PROVE f \in G
    <3>1. f \in Fields
      BY LevelsAreFields
    <3>2. \A k \in DOMAIN f.fields : f.fields[k] \in G
      BY <1>2, SubFieldsAreBelow
    <3> QED BY <3>1, <3>2
  <2> QED BY <2>1
<1>3. \A d \in 0 .. Depth : d \in H
  <2>1. 0 \in H
    BY <1>1, <1>2
  <2>2. \A d \in 1 .. Depth : d - 1 \in H => d \in H
    BY <1>1, <1>2
  <2> HIDE DEF H
  <2> QED BY <1>1, <2>1, <2>2, UpTo
<1>4. Depth \in 0 .. Depth
  BY <1>1
<1> QED BY <1>3, <1>4 DEF Fields

(* Recursion over fields: B gives the value of a field from those of its   *)
(* sub-fields.                                                             *)
IsRecursion(B, V) ==
  /\ \A f \in Fields, g \in [Fields -> V] : B[f][g] \in V
  /\ \A f \in Fields, g, h \in [Fields -> V] :
       Each(g, f.fields) = Each(h, f.fields) => B[f][g] = B[f][h]

Solves(r, B, V) == r \in [Fields -> V] /\ \A f \in Fields : r[f] = B[f][r]

LEMMA FieldRecursion ==
  ASSUME NEW V, V # {}, NEW B, IsRecursion(B, V)
  PROVE  \E r : Solves(r, B, V)
<1> DEFINE P(r, d) == \A f \in FieldsUpTo[d] : r[f] = B[f][r]
           H == {d \in Nat : d \in 0 .. Depth => \E r \in [Fields -> V] : P(r, d)}
           Over(r) == [f \in Fields |-> B[f][r]]
<1>1. Depth \in Nat
  BY SchemaAssumption
<1>7. \A f \in Fields, g \in [Fields -> V] : B[f][g] \in V
  BY DEF IsRecursion
<1>8. \A f \in Fields, g, h \in [Fields -> V] :
        Each(g, f.fields) = Each(h, f.fields) => B[f][g] = B[f][h]
  BY DEF IsRecursion
<1>2. ASSUME NEW d \in 0 .. Depth, NEW r \in [Fields -> V], d = 0 \/ P(r, d - 1)
      PROVE  Over(r) \in [Fields -> V] /\ P(Over(r), d)
  <2> DEFINE q == Over(r)
  <2>1. q \in [Fields -> V] /\ \A f \in Fields : q[f] = B[f][r]
    BY <1>7
  <2> HIDE DEF q
  <2>2. ASSUME NEW f \in FieldsUpTo[d] PROVE q[f] = B[f][q]
    <3>1. f \in Fields
      BY LevelsAreFields
    <3>2. ASSUME NEW k \in DOMAIN f.fields PROVE q[f.fields[k]] = r[f.fields[k]]
      <4>1. d # 0 /\ f.fields[k] \in FieldsUpTo[d - 1] /\ f.fields[k] \in Fields
        BY SubFieldsAreBelow, <3>1, FieldIs
      <4>2. r[f.fields[k]] = B[f.fields[k]][r]
        BY <1>2, <4>1
      <4> QED BY <2>1, <4>1, <4>2
    <3>3. Each(q, f.fields) = Each(r, f.fields)
      BY <3>2 DEF Each
    <3>4. B[f][q] = B[f][r]
      BY <1>8, <2>1, <3>1, <3>3
    <3> QED BY <2>1, <3>1, <3>4
  <2>3. P(q, d)
    BY <2>2
  <2> QED BY <2>1, <2>3 DEF q
<1> HIDE DEF P, Over
<1>3. 0 \in H
  <2>1. PICK v \in V : TRUE
    OBVIOUS
  <2>2. [f \in Fields |-> v] \in [Fields -> V]
    OBVIOUS
  <2>4. 0 \in 0 .. Depth
    BY <1>1
  <2>3. \E r \in [Fields -> V] : P(r, 0)
    BY <1>2, <2>2, <2>4
  <2> QED BY <2>3
<1>4. ASSUME NEW d \in 1 .. Depth, d - 1 \in H PROVE d \in H
  <2>1. d - 1 \in 0 .. Depth /\ d \in 0 .. Depth
    BY <1>1
  <2>2. PICK r \in [Fields -> V] : P(r, d - 1)
    BY <1>4, <2>1
  <2>3. \E q \in [Fields -> V] : P(q, d)
    BY <1>2, <2>1, <2>2
  <2> QED BY <2>3
<1>5. \A d \in 0 .. Depth : d \in H
  <2> HIDE DEF H
  <2> QED BY <1>1, <1>3, <1>4, UpTo
<1>6. \E r \in [Fields -> V] : P(r, Depth)
  <2>1. Depth \in 0 .. Depth
    BY <1>1
  <2> QED BY <1>5, <2>1
<1> QED BY <1>6 DEF P, Fields, Solves

-----------------------------------------------------------------------------
(* Sums and offsets                                                        *)

(* Total by the sums it goes through. *)
Sums(sum, terms) ==
  /\ sum \in [0 .. Len(terms) -> Nat] /\ sum[0] = 0
  /\ \A k \in 1 .. Len(terms) : sum[k] = sum[k - 1] + terms[k]
  /\ Total(terms) = sum[Len(terms)]

LEMMA TotalIs ==
  ASSUME NEW terms \in Seq(Nat)
  PROVE  Total(terms) \in Nat /\ \E sum : Sums(sum, terms)
<1> DEFINE n == Len(terms)
           Fix(f) == f = [k \in 0 .. n |-> IF k = 0 THEN 0 ELSE f[k - 1] + terms[k]]
           sum == CHOOSE f : Fix(f)
<1>1. n \in Nat /\ \A k \in 1 .. n : terms[k] \in Nat
  OBVIOUS
<1>2. Total(terms) = sum[n]
  BY DEF Total
<1> HIDE DEF n
<1>3. \E f : Fix(f)
  <2> DEFINE F == [k \in 1 .. n |-> [x \in Nat |-> x + terms[k]]]
  <2>1. \A k \in 1 .. n, x \in Nat : F[k][x] = x + terms[k]
    BY <1>1
  <2>5. \A k \in 1 .. n, x \in Nat : F[k][x] \in Nat
    BY <1>1, <2>1
  <2> HIDE DEF F
  <2>6. IsStep(F, n, Nat)
    BY <2>5 DEF F, IsStep
  <2>7. \E f : Iterates(f, n, Nat, 0, F)
    <3> HIDE DEF Fix
    <3> QED BY <1>1, <2>6, IterationExists
  <2>2. PICK f \in [0 .. n -> Nat] : f[0] = 0 /\ \A k \in 1 .. n : f[k] = F[k][f[k - 1]]
    BY <2>7 DEF Iterates
  <2>3. ASSUME NEW k \in 0 .. n PROVE f[k] = IF k = 0 THEN 0 ELSE f[k - 1] + terms[k]
    <3>1. CASE k = 0
      BY <2>2, <3>1
    <3>2. CASE k # 0
      <4>1. k \in 1 .. n /\ k - 1 \in 0 .. n
        BY <1>1, <3>2
      <4>2. f[k - 1] \in Nat
        BY <2>2, <4>1
      <4> QED BY <2>1, <2>2, <3>2, <4>1, <4>2
    <3> QED BY <3>1, <3>2
  <2>4. Fix(f)
    BY <2>2, <2>3
  <2> QED BY <2>4
<1>4. Fix(sum)
  <2> HIDE DEF Fix
  <2> QED BY <1>3, Zenon
<1> HIDE DEF sum
<1> DEFINE G == {k \in Nat : k \in 0 .. n => sum[k] \in Nat}
<1>5. \A k \in 0 .. n : k \in G
  <2>1. 0 \in G
    BY <1>4
  <2>2. ASSUME NEW k \in 1 .. n, k - 1 \in G PROVE k \in G
    <3>1. k - 1 \in 0 .. n /\ k \in 0 .. n /\ k # 0
      BY <1>1
    <3>2. sum[k] = sum[k - 1] + terms[k] /\ sum[k - 1] \in Nat
      BY <1>4, <2>2, <3>1
    <3> QED BY <1>1, <3>2
  <2> HIDE DEF G
  <2> QED BY <1>1, <2>1, <2>2, UpTo
<1>6. n \in 0 .. n
  BY <1>1
<1>7. \A k \in 1 .. n : sum[k] = sum[k - 1] + terms[k]
  <2> TAKE k \in 1 .. n
  <2>1. k \in 0 .. n /\ k # 0
    BY <1>1
  <2> QED BY <1>4, <2>1
<1>8. sum \in [0 .. n -> Nat] /\ sum[0] = 0
  <2>1. 0 \in 0 .. n /\ \A k \in 0 .. n : sum[k] \in Nat
    BY <1>1, <1>5
  <2>2. sum = [k \in 0 .. n |-> sum[k]]
    BY <1>4
  <2> QED BY <1>4, <2>1, <2>2
<1>9. Sums(sum, terms)
  BY <1>2, <1>7, <1>8 DEF Sums, n
<1> QED BY <1>2, <1>5, <1>6, <1>9

(* Where fields in a row end: one after the other, each behind the last.   *)
LEMMA EndsAre ==
  ASSUME NEW sizes \in Seq([Nat -> Nat]), NEW offset \in Nat
  PROVE  /\ Ends(sizes, offset) \in [0 .. Len(sizes) -> Nat]
         /\ Ends(sizes, offset)[0] = offset
         /\ \A k \in 1 .. Len(sizes) :
              Ends(sizes, offset)[k]
                = Ends(sizes, offset)[k - 1] + sizes[k][Ends(sizes, offset)[k - 1]]
<1> DEFINE n == Len(sizes)
           Fix(f) == f = [k \in 0 .. n |->
                            IF k = 0 THEN offset ELSE f[k - 1] + sizes[k][f[k - 1]]]
           end == CHOOSE f : Fix(f)
<1>1. n \in Nat /\ \A k \in 1 .. n : sizes[k] \in [Nat -> Nat]
  BY SeqBasics
<1>2. Ends(sizes, offset) = end
  BY DEF Ends
<1> HIDE DEF n
<1>3. \E f : Fix(f)
  <2> DEFINE F == [k \in 1 .. n |-> [x \in Nat |-> x + sizes[k][x]]]
  <2>1. \A k \in 1 .. n, x \in Nat : F[k][x] = x + sizes[k][x]
    BY <1>1
  <2>5. ASSUME NEW k \in 1 .. n, NEW x \in Nat PROVE F[k][x] \in Nat
    <3>1. sizes[k][x] \in Nat
      BY <1>1
    <3>2. F[k][x] = x + sizes[k][x]
      BY <2>1
    <3> DEFINE y == sizes[k][x]
    <3>3. y \in Nat /\ F[k][x] = x + y
      BY <3>1, <3>2
    <3> HIDE DEF y, F
    <3> QED BY <3>3
  <2> HIDE DEF F
  <2>6. IsStep(F, n, Nat)
    BY <2>5 DEF F, IsStep
  <2>7. \E f : Iterates(f, n, Nat, offset, F)
    <3> HIDE DEF Fix
    <3> QED BY <1>1, <2>6, IterationExists
  <2>2. PICK f \in [0 .. n -> Nat] : f[0] = offset /\ \A k \in 1 .. n : f[k] = F[k][f[k - 1]]
    BY <2>7 DEF Iterates
  <2>3. ASSUME NEW k \in 0 .. n
        PROVE  f[k] = IF k = 0 THEN offset ELSE f[k - 1] + sizes[k][f[k - 1]]
    <3>1. CASE k = 0
      BY <2>2, <3>1
    <3>2. CASE k # 0
      <4>1. k \in 1 .. n /\ k - 1 \in 0 .. n
        BY <1>1, <3>2
      <4>2. f[k - 1] \in Nat
        BY <2>2, <4>1
      <4> QED BY <2>1, <2>2, <3>2, <4>1, <4>2
    <3> QED BY <3>1, <3>2
  <2>4. Fix(f)
    BY <2>2, <2>3
  <2> QED BY <2>4
<1>4. Fix(end)
  <2> HIDE DEF Fix
  <2> QED BY <1>3, Zenon
<1> HIDE DEF end
<1>5. end[0] = offset /\ \A k \in 1 .. n : end[k] = end[k - 1] + sizes[k][end[k - 1]]
  <2>1. 0 \in 0 .. n
    BY <1>1
  <2>2. ASSUME NEW k \in 1 .. n PROVE end[k] = end[k - 1] + sizes[k][end[k - 1]]
    <3>1. k \in 0 .. n /\ k # 0
      BY <1>1
    <3> QED BY <1>4, <3>1
  <2> QED BY <1>4, <2>1, <2>2
<1> DEFINE G == {k \in Nat : k \in 0 .. n => end[k] \in Nat}
<1>6. \A k \in 0 .. n : k \in G
  <2>1. 0 \in G
    BY <1>5
  <2>2. ASSUME NEW k \in 1 .. n, k - 1 \in G PROVE k \in G
    <3>1. k - 1 \in 0 .. n
      BY <1>1
    <3>2. end[k] = end[k - 1] + sizes[k][end[k - 1]] /\ end[k - 1] \in Nat
      BY <1>5, <2>2, <3>1
    <3>3. sizes[k][end[k - 1]] \in Nat
      BY <1>1, <3>2
    <3>4. end[k] \in Nat
      <4> DEFINE a == end[k - 1]
                 b == sizes[k][end[k - 1]]
      <4>1. a \in Nat /\ b \in Nat /\ end[k] = a + b
        BY <3>2, <3>3
      <4> HIDE DEF a, b
      <4> QED BY <4>1
    <3> QED BY <1>1, <3>4
  <2> HIDE DEF G
  <2> QED BY <1>1, <2>1, <2>2, UpTo
<1>7. end \in [0 .. n -> Nat]
  BY <1>4, <1>6
<1> QED BY <1>2, <1>5, <1>7 DEF n

LEMMA EndsGrow ==
  ASSUME NEW sizes \in Seq([Nat -> Nat]), NEW offset \in Nat,
         NEW j \in 0 .. Len(sizes), NEW k \in 0 .. Len(sizes), j <= k
  PROVE  Ends(sizes, offset)[j] <= Ends(sizes, offset)[k]
<1> DEFINE e == Ends(sizes, offset)
           n == Len(sizes)
           G == {i \in 0 .. n : j + i \in 0 .. n => e[j] <= e[j + i]}
<1>7. n \in Nat /\ \A i \in 1 .. n : sizes[i] \in [Nat -> Nat]
  BY SeqBasics
<1>8. e \in [0 .. n -> Nat] /\ \A i \in 1 .. n : e[i] = e[i - 1] + sizes[i][e[i - 1]]
  BY EndsAre
<1>1. /\ n \in Nat /\ e \in [0 .. n -> Nat]
      /\ \A i \in 1 .. n : e[i] = e[i - 1] + sizes[i][e[i - 1]]
      /\ \A i \in 1 .. n : sizes[i] \in [Nat -> Nat]
  BY <1>7, <1>8
<1>2. j \in 0 .. n /\ k \in 0 .. n
  OBVIOUS
<1> HIDE DEF e, n
<1>3. 0 \in G
  <2>1. e[j] \in Nat /\ j + 0 = j /\ 0 \in 0 .. n
    BY <1>1, <1>2
  <2> QED BY <2>1
<1>4. ASSUME NEW i \in 1 .. n, i - 1 \in G PROVE i \in G
  <2>1. ASSUME j + i \in 0 .. n PROVE e[j] <= e[j + i]
    <3>1. j + (i - 1) \in 0 .. n /\ j + i \in 1 .. n /\ (j + i) - 1 = j + (i - 1)
      BY <1>1, <1>2, <2>1
    <3>2. e[j + i] = e[j + (i - 1)] + sizes[j + i][e[j + (i - 1)]]
      BY <1>1, <3>1
    <3>3. e[j + (i - 1)] \in Nat /\ e[j] \in Nat
      BY <1>1, <1>2, <3>1
    <3>4. sizes[j + i][e[j + (i - 1)]] \in Nat
      BY <1>1, <3>1, <3>3
    <3>5. e[j] <= e[j + (i - 1)]
      BY <1>4, <3>1
    <3> DEFINE a == e[j + (i - 1)]
               b == sizes[j + i][e[j + (i - 1)]]
    <3>6. a \in Nat /\ b \in Nat /\ e[j + i] = a + b /\ e[j] <= a
      BY <3>2, <3>3, <3>4, <3>5
    <3> HIDE DEF a, b
    <3> QED BY <3>3, <3>6
  <2>2. i \in 0 .. n
    BY <1>1
  <2> QED BY <2>1, <2>2
<1>5. k - j \in G
  <2>1. \A i \in 0 .. n : i \in G
    <3> HIDE DEF G
    <3> QED BY <1>1, <1>3, <1>4, UpTo
  <2>2. k - j \in 0 .. n
    BY <1>1, <1>2
  <2> QED BY <2>1, <2>2
<1>6. j + (k - j) = k
  BY <1>2
<1> QED BY <1>2, <1>5, <1>6 DEF e, n

LEMMA ByteBasics ==
  /\ Base \in Nat /\ Base >= 2 /\ Bytes \subseteq Nat
  /\ {0, 1, DemoLength, Base - 1} \subseteq Bytes
BY SchemaAssumption DEF Bytes

(* A number in the input, by the numbers its first bytes make. *)
Counts(number, input, offset, n) ==
  /\ NumberAt(input, offset, n) = number[n] /\ number[0] = 0
  /\ \A k \in 0 .. n : number[k] \in Nat
  /\ \A k \in 1 .. n : number[k] = number[k - 1] * Base + ByteAt(input, offset + k - 1)

LEMMA NumberIs ==
  ASSUME NEW input \in Seq(Bytes), NEW offset \in Nat, NEW n \in Nat, offset + n <= Len(input)
  PROVE  \E number : Counts(number, input, offset, n)
<1> DEFINE Fix(f) == f = [k \in 0 .. n |->
                            IF k = 0 THEN 0
                            ELSE f[k - 1] * Base + ByteAt(input, offset + k - 1)]
           number == CHOOSE f : Fix(f)
<1>1. \A k \in 1 .. n : ByteAt(input, offset + k - 1) \in Nat
  <2> TAKE k \in 1 .. n
  <2>1. (offset + k - 1) + 1 \in 1 .. Len(input)
    BY SeqBasics
  <2>2. input[(offset + k - 1) + 1] \in Bytes
    BY <2>1, SeqBasics
  <2> QED BY <2>2, ByteBasics DEF ByteAt
<1>2. NumberAt(input, offset, n) = number[n]
  BY DEF NumberAt
<1>3. \E f : Fix(f)
  <2> DEFINE F == [k \in 1 .. n |-> [x \in Nat |-> x * Base + ByteAt(input, offset + k - 1)]]
  <2>1. \A k \in 1 .. n, x \in Nat : F[k][x] = x * Base + ByteAt(input, offset + k - 1)
    OBVIOUS
  <2>5. ASSUME NEW k \in 1 .. n, NEW x \in Nat PROVE F[k][x] \in Nat
    <3> DEFINE y == ByteAt(input, offset + k - 1)
    <3>1. F[k][x] = x * Base + y /\ y \in Nat
      BY <1>1
    <3> HIDE DEF F, y
    <3>2. x * Base \in Nat
      BY ByteBasics
    <3> QED BY <3>1, <3>2
  <2> HIDE DEF F
  <2>6. IsStep(F, n, Nat)
    BY <2>5 DEF F, IsStep
  <2>7. \E f : Iterates(f, n, Nat, 0, F)
    <3> HIDE DEF Fix
    <3> QED BY <2>6, IterationExists
  <2>2. PICK f \in [0 .. n -> Nat] : f[0] = 0 /\ \A k \in 1 .. n : f[k] = F[k][f[k - 1]]
    BY <2>7 DEF Iterates
  <2>3. ASSUME NEW k \in 0 .. n
        PROVE  f[k] = IF k = 0 THEN 0 ELSE f[k - 1] * Base + ByteAt(input, offset + k - 1)
    <3>1. CASE k = 0
      BY <2>2, <3>1
    <3>2. CASE k # 0
      <4>1. k \in 1 .. n /\ k - 1 \in 0 .. n
        BY <3>2
      <4>2. f[k - 1] \in Nat
        BY <2>2, <4>1
      <4> QED BY <2>1, <2>2, <3>2, <4>1, <4>2
    <3> QED BY <3>1, <3>2
  <2>4. Fix(f)
    BY <2>2, <2>3
  <2> QED BY <2>4
<1>4. Fix(number)
  <2> HIDE DEF Fix
  <2> QED BY <1>3, Zenon
<1> HIDE DEF number
<1> DEFINE G == {k \in Nat : k \in 0 .. n => number[k] \in Nat}
<1>5. \A k \in 0 .. n : k \in G
  <2>1. 0 \in G
    BY <1>4
  <2>2. ASSUME NEW k \in 1 .. n, k - 1 \in G PROVE k \in G
    <3> DEFINE y == ByteAt(input, offset + k - 1)
               x == number[k - 1]
    <3>1. k - 1 \in 0 .. n /\ k \in 0 .. n /\ k # 0
      OBVIOUS
    <3>2. number[k] = x * Base + y /\ x \in Nat
      BY <1>4, <2>2, <3>1
    <3>3. y \in Nat
      BY <1>1
    <3> HIDE DEF x, y
    <3>4. x * Base \in Nat
      BY <3>2, ByteBasics
    <3>5. number[k] \in Nat
      BY <3>2, <3>3, <3>4
    <3> QED BY <3>5
  <2> HIDE DEF G
  <2> QED BY <2>1, <2>2, UpTo
<1>6. 0 \in 0 .. n /\ \A k \in 1 .. n : k \in 0 .. n /\ k # 0
  OBVIOUS
<1>7. /\ number[0] = 0
      /\ \A k \in 1 .. n : number[k] = number[k - 1] * Base + ByteAt(input, offset + k - 1)
  BY <1>4, <1>6
<1> QED BY <1>2, <1>5, <1>7 DEF Counts

LEMMA NumberIsNat ==
  ASSUME NEW input \in Seq(Bytes), NEW offset \in Nat, NEW n \in Nat, offset + n <= Len(input)
  PROVE  NumberAt(input, offset, n) \in Nat
<1>1. PICK number : Counts(number, input, offset, n)
  BY NumberIs
<1>2. n \in 0 .. n
  OBVIOUS
<1> QED BY <1>1, <1>2 DEF Counts

(* A text ends at its first zero, or with the input. *)
LEMMA TextEnds ==
  ASSUME NEW input \in Seq(Bytes), NEW offset \in 0 .. Len(input)
  PROVE  EndOfText(input, offset) \in offset .. Len(input)
<1> DEFINE zeros == {k \in offset .. Len(input) - 1 : ByteAt(input, k) = 0}
<1>1. Len(input) \in Nat
  BY SeqBasics
<1>2. zeros \subseteq offset .. Len(input) - 1 /\ zeros \subseteq Nat
  BY <1>1
<1>3. EndOfText(input, offset) = IF zeros = {} THEN Len(input) ELSE Min(zeros)
  BY DEF EndOfText
<1> HIDE DEF zeros
<1>4. zeros # {} => Min(zeros) \in zeros
  <2>1. zeros # {} => \E x \in zeros : \A y \in zeros : x <= y
    BY <1>2, HasLeast
  <2> QED BY <2>1 DEF Min
<1>5. CASE zeros = {}
  BY <1>1, <1>3, <1>5
<1>6. CASE zeros # {}
  <2>1. Min(zeros) \in offset .. Len(input) - 1
    BY <1>2, <1>4, <1>6
  <2> QED BY <1>1, <1>3, <1>6, <2>1
<1> QED BY <1>5, <1>6

-----------------------------------------------------------------------------
(* Sizes of fields                                                         *)

LEMMA TypesAre ==
  /\ DOMAIN Width = {"u8", "u16", "u32"} /\ DOMAIN Prefix = {"lp8", "lp16", "lp32"}
  /\ Width["u8"] = 1 /\ Width["u16"] = 2 /\ Width["u32"] = 4
  /\ Prefix["lp8"] = 1 /\ Prefix["lp16"] = 2 /\ Prefix["lp32"] = 4
  /\ Types = {"u8", "u16", "u32", "lp8", "lp16", "lp32",
              "bytes", "magic", "padding", "cstring", "repeated"}
<1>1. DOMAIN Width = {"u8", "u16", "u32"} /\ DOMAIN Prefix = {"lp8", "lp16", "lp32"}
  BY DEF Width, Prefix
<1>2. /\ Width["u8"] = 1 /\ Width["u16"] = 2 /\ Width["u32"] = 4
      /\ Prefix["lp8"] = 1 /\ Prefix["lp16"] = 2 /\ Prefix["lp32"] = 4
  BY DEF Width, Prefix
<1> QED BY <1>1, <1>2 DEF Types

LEMMA WidthsAreNat ==
  /\ \A t \in DOMAIN Width : Width[t] \in {1, 2, 4}
  /\ \A t \in DOMAIN Prefix : Prefix[t] \in {1, 2, 4}
BY TypesAre

LEMMA EachIs ==
  ASSUME NEW V, NEW g, NEW fs \in Seq(Fields), \A k \in DOMAIN fs : g[fs[k]] \in V
  PROVE  /\ Each(g, fs) \in Seq(V) /\ Len(Each(g, fs)) = Len(fs)
         /\ \A k \in DOMAIN fs : Each(g, fs)[k] = g[fs[k]]
<1>1. Len(fs) \in Nat /\ DOMAIN fs = 1 .. Len(fs)
  BY SeqBasics
<1>2. Each(g, fs) = [k \in 1 .. Len(fs) |-> g[fs[k]]]
  BY <1>1 DEF Each
<1>3. Each(g, fs) \in [1 .. Len(fs) -> V]
  BY <1>1, <1>2
<1> HIDE DEF Each
<1>4. Each(g, fs) \in Seq(V) /\ Len(Each(g, fs)) = Len(fs)
  BY <1>1, <1>3
<1> QED BY <1>1, <1>2, <1>4

LEMMA CopiesOf ==
  ASSUME NEW f \in Fields
  PROVE  /\ [n \in 1 .. f.length |-> f.fields] \in Seq(Seq(Fields))
         /\ Len([n \in 1 .. f.length |-> f.fields]) = f.length
<1>1. f.fields \in Seq(Fields) /\ f.length \in Nat
  BY FieldIs
<1> QED BY <1>1

LEMMA UnrolledIs ==
  ASSUME NEW f \in Fields
  PROVE  /\ Unrolled(f) \in Seq(Fields)
         /\ \A k \in DOMAIN Unrolled(f) :
              \E j \in DOMAIN f.fields : Unrolled(f)[k] = f.fields[j]
<1> DEFINE seqs == [n \in 1 .. f.length |-> f.fields]
<1>1. Unrolled(f) = FlattenSeq(seqs)
  BY DEF Unrolled
<1>2. \A n \in DOMAIN seqs : seqs[n] = f.fields
  OBVIOUS
<1>3. seqs \in Seq(Seq(Fields))
  BY CopiesOf
<1> HIDE DEF seqs
<1>4. /\ FlattenSeq(seqs) \in Seq(Fields)
      /\ \A k \in DOMAIN FlattenSeq(seqs) :
           \E n \in DOMAIN seqs : \E j \in DOMAIN seqs[n] : FlattenSeq(seqs)[k] = seqs[n][j]
  BY <1>3, FlattenHolds
<1> QED BY <1>1, <1>2, <1>4

LEMMA UnrolledAgree ==
  ASSUME NEW f \in Fields, NEW g, NEW h, Each(g, f.fields) = Each(h, f.fields)
  PROVE  Each(g, Unrolled(f)) = Each(h, Unrolled(f))
<1>1. ASSUME NEW j \in DOMAIN f.fields PROVE g[f.fields[j]] = h[f.fields[j]]
  <2>1. Each(g, f.fields)[j] = g[f.fields[j]] /\ Each(h, f.fields)[j] = h[f.fields[j]]
    BY DEF Each
  <2> QED BY <2>1
<1>2. \A k \in DOMAIN Unrolled(f) : g[Unrolled(f)[k]] = h[Unrolled(f)[k]]
  BY <1>1, UnrolledIs
<1> QED BY <1>2 DEF Each

LEMMA LeafSizeIsNat ==
  ASSUME NEW input \in Seq(Bytes), NEW f \in Fields, f.type # "repeated", NEW offset \in Nat
  PROVE  LeafSize(f, input, offset) \in Nat
<1> DEFINE n == Prefix[f.type]
<1>1. Len(input) \in Nat
  BY SeqBasics
<1>2. offset < Len(input) => EndOfText(input, offset) \in offset .. Len(input)
  BY <1>1, TextEnds
<1>3. f.type \in DOMAIN Prefix => n \in Nat
  BY WidthsAreNat
<1>4. f.type \in DOMAIN Prefix /\ offset + n <= Len(input) => NumberAt(input, offset, n) \in Nat
  <2> HIDE DEF n
  <2> QED BY <1>3, NumberIsNat
<1>5. f.type \in DOMAIN Width => Width[f.type] \in Nat
  BY WidthsAreNat
<1>6. f.length \in Nat /\ f.type \in Types \ {"repeated"}
  BY FieldIs
<1>7. CASE f.type \in DOMAIN Width
  <2>1. LeafSize(f, input, offset) = Width[f.type]
    BY <1>7, TypesAre DEF LeafSize
  <2> QED BY <1>5, <1>7, <2>1
<1>8. CASE f.type \in {"bytes", "magic", "padding"}
  BY <1>6, <1>8, TypesAre DEF LeafSize
<1>9. CASE f.type = "cstring"
  <2>1. LeafSize(f, input, offset) =
          IF offset >= Len(input) THEN 1
          ELSE IF EndOfText(input, offset) = Len(input) THEN Len(input) - offset
          ELSE EndOfText(input, offset) - offset + 1
    BY <1>9, TypesAre DEF LeafSize
  <2> QED BY <1>1, <1>2, <2>1
<1>10. CASE f.type \in DOMAIN Prefix
  <2>1. LeafSize(f, input, offset) =
          IF offset + n <= Len(input) THEN n + NumberAt(input, offset, n) ELSE n
    BY <1>10, TypesAre DEF LeafSize
  <2> HIDE DEF n
  <2> QED BY <1>3, <1>4, <1>10, <2>1
<1> QED BY <1>6, <1>7, <1>8, <1>9, <1>10, TypesAre

(* What Sizes makes of a field, given the sizes of the copies of its       *)
(* sub-fields.                                                             *)
SizeBody(input, field, sizes) ==
  [offset \in Nat |->
    IF field.type # "repeated" THEN LeafSize(field, input, offset)
    ELSE Ends(sizes, offset)[Len(Unrolled(field))] - offset]

LEMMA SizeBodyType ==
  ASSUME NEW input \in Seq(Bytes), NEW f \in Fields, NEW sizes \in Seq([Nat -> Nat]),
         Len(sizes) = Len(Unrolled(f))
  PROVE  SizeBody(input, f, sizes) \in [Nat -> Nat]
<1> DEFINE row(offset) == Ends(sizes, offset)[Len(Unrolled(f))] - offset
           size(offset) == IF f.type # "repeated" THEN LeafSize(f, input, offset) ELSE row(offset)
<1>1. ASSUME NEW offset \in Nat PROVE size(offset) \in Nat
  <2>1. row(offset) \in Nat
    <3> DEFINE e == Ends(sizes, offset)
               n == Len(sizes)
    <3>1. n \in Nat /\ e \in [0 .. n -> Nat] /\ e[0] = offset
      BY EndsAre, SeqBasics
    <3>2. 0 \in 0 .. n /\ n \in 0 .. n /\ 0 <= n
      BY <3>1
    <3>3. e[0] <= e[n]
      <4> HIDE DEF e, n
      <4> QED BY <3>2, EndsGrow DEF e, n
    <3>4. row(offset) = e[n] - e[0]
      BY <3>1
    <3>5. e[n] \in Nat /\ e[0] \in Nat
      BY <3>1, <3>2
    <3> HIDE DEF e, n, row
    <3> QED BY <3>3, <3>4, <3>5
  <2>2. f.type # "repeated" => LeafSize(f, input, offset) \in Nat
    BY LeafSizeIsNat
  <2> HIDE DEF row
  <2> QED BY <2>1, <2>2
<1>2. SizeBody(input, f, sizes) = [offset \in Nat |-> size(offset)]
  BY DEF SizeBody
<1> HIDE DEF size
<1> QED BY <1>1, <1>2

LEMMA SizesAre ==
  ASSUME NEW input \in Seq(Bytes)
  PROVE  /\ Sizes(input) \in [Fields -> [Nat -> Nat]]
         /\ \A f \in Fields :
              Sizes(input)[f] = SizeBody(input, f, Each(Sizes(input), Unrolled(f)))
<1> DEFINE V == [Nat -> Nat]
           body(f, g) == SizeBody(input, f, Each(g, Unrolled(f)))
           Fix(g) == g = [f \in Fields |-> body(f, g)]
           size == CHOOSE g : Fix(g)
<1>1. Sizes(input) = size
  BY DEF Sizes, SizeBody
<1>2. ASSUME NEW f \in Fields, NEW g, \A k \in DOMAIN f.fields : g[f.fields[k]] \in V
      PROVE  body(f, g) \in V
  <2> HIDE DEF V
  <2>1. Unrolled(f) \in Seq(Fields) /\ \A k \in DOMAIN Unrolled(f) : g[Unrolled(f)[k]] \in V
    BY <1>2, UnrolledIs
  <2>2. Each(g, Unrolled(f)) \in Seq(V) /\ Len(Each(g, Unrolled(f))) = Len(Unrolled(f))
    BY <2>1, EachIs
  <2> QED BY <2>2, SizeBodyType DEF V
<1>3. \E g : Fix(g)
  <2> DEFINE B == [f \in Fields |-> [g \in [Fields -> V] |-> body(f, g)]]
  <2>1. \A f \in Fields, g \in [Fields -> V] : B[f][g] = body(f, g)
    OBVIOUS
  <2> HIDE DEF B
  <2>2. ASSUME NEW f \in Fields, NEW g \in [Fields -> V] PROVE B[f][g] \in V
    <3> HIDE DEF V, body
    <3>1. \A k \in DOMAIN f.fields : f.fields[k] \in Fields
      BY FieldIs, SeqBasics
    <3>2. \A k \in DOMAIN f.fields : g[f.fields[k]] \in V
      BY <3>1
    <3> QED BY <1>2, <2>1, <3>2
  <2>3. ASSUME NEW f \in Fields, NEW g \in [Fields -> V], NEW h \in [Fields -> V],
               Each(g, f.fields) = Each(h, f.fields)
        PROVE  B[f][g] = B[f][h]
    <3>1. body(f, g) = body(f, h)
      BY <2>3, UnrolledAgree
    <3> HIDE DEF body, V
    <3> QED BY <2>1, <3>1
  <2>4. IsRecursion(B, V)
    <3> HIDE DEF V
    <3> QED BY <2>2, <2>3 DEF IsRecursion
  <2>5. V # {}
    <3>1. [x \in Nat |-> 0] \in V
      OBVIOUS
    <3> QED BY <3>1
  <2>6. PICK r : Solves(r, B, V)
    <3> HIDE DEF V, Fix
    <3> QED BY <2>4, <2>5, FieldRecursion
  <2>7. r \in [Fields -> V] /\ \A f \in Fields : r[f] = body(f, r)
    <3> HIDE DEF V, body, Fix
    <3> QED BY <2>1, <2>6 DEF Solves
  <2>8. Fix(r)
    <3> HIDE DEF V, body
    <3> QED BY <2>7
  <2> QED BY <2>8
<1>4. Fix(size)
  <2> HIDE DEF Fix
  <2> QED BY <1>3, Zenon
<1> HIDE DEF size
<1>5. size = [f \in Fields |-> size[f]] /\ \A f \in Fields : size[f] = body(f, size)
  <2> HIDE DEF body
  <2> QED BY <1>4
<1> DEFINE G == {f \in Fields : size[f] \in V}
<1>6. Fields \subseteq G
  <2>1. ASSUME NEW f \in Fields, \A k \in DOMAIN f.fields : f.fields[k] \in G PROVE f \in G
    <3>1. size[f] \in V
      <4> HIDE DEF V, body
      <4> QED BY <1>2, <1>5, <2>1
    <3> QED BY <3>1
  <2> HIDE DEF G
  <2> QED BY <2>1, FieldInduction
<1>7. size \in [Fields -> V]
  <2> HIDE DEF V, body
  <2> QED BY <1>5, <1>6
<1> QED BY <1>1, <1>5, <1>7

-----------------------------------------------------------------------------
(* Messages                                                                *)

LEMMA FilledIs ==
  ASSUME NEW n \in Nat, NEW b \in Bytes
  PROVE  [k \in 1 .. n |-> b] \in Seq(Bytes)
OBVIOUS

LEMMA LeafMessageIs ==
  ASSUME NEW f \in Fields, f.type # "repeated"
  PROVE  LeafMessage(f) \in Seq(Bytes)
<1> DEFINE fill(n, b) == [k \in 1 .. n |-> b]
           w == Width[f.type]
           p == Prefix[f.type]
<1>1. 0 \in Bytes /\ 1 \in Bytes /\ DemoLength \in Bytes /\ DemoLength \in Nat
  BY ByteBasics
<1>2. f.length \in Nat /\ f.type \in Types \ {"repeated"}
  BY FieldIs
<1>3. \A n \in Nat : fill(n, 0) \in Seq(Bytes) /\ fill(n, 1) \in Seq(Bytes)
  BY <1>1, FilledIs
<1> HIDE DEF fill
<1>4. \A s \in Seq(Bytes), b \in Bytes : Append(s, b) \in Seq(Bytes)
  OBVIOUS
<1>5. \A s, t \in Seq(Bytes) : s \o t \in Seq(Bytes)
  OBVIOUS
<1>6. CASE f.type \in DOMAIN Width
  <2>1. LeafMessage(f) = Append(fill(w - 1, 0), 1)
    BY <1>6, TypesAre DEF LeafMessage, fill
  <2>2. w - 1 \in Nat
    BY <1>6, WidthsAreNat
  <2> HIDE DEF w
  <2> QED BY <1>1, <1>3, <1>4, <2>1, <2>2
<1>7. CASE f.type \in DOMAIN Prefix
  <2>1. LeafMessage(f) = Append(fill(p - 1, 0), DemoLength) \o fill(DemoLength, 1)
    BY <1>7, TypesAre DEF LeafMessage, fill
  <2>2. p - 1 \in Nat
    BY <1>7, WidthsAreNat
  <2> HIDE DEF p
  <2>3. Append(fill(p - 1, 0), DemoLength) \in Seq(Bytes)
    BY <1>1, <1>3, <1>4, <2>2
  <2> QED BY <1>1, <1>3, <1>5, <2>1, <2>3
<1>8. CASE f.type = "bytes"
  BY <1>2, <1>3, <1>8, TypesAre DEF LeafMessage, fill
<1>9. CASE f.type = "magic"
  BY <1>2, <1>3, <1>9, TypesAre DEF LeafMessage, fill
<1>10. CASE f.type = "padding"
  BY <1>2, <1>3, <1>10, TypesAre DEF LeafMessage, fill
<1>11. CASE f.type = "cstring"
  <2>1. LeafMessage(f) = Append(fill(DemoLength, 1), 0)
    BY <1>11, TypesAre DEF LeafMessage, fill
  <2> QED BY <1>1, <1>3, <1>4, <2>1
<1> QED BY <1>2, <1>6, <1>7, <1>8, <1>9, <1>10, <1>11, TypesAre

(* What Generate makes of a field, given the messages of its copies. *)
MessageBody(field, messages) ==
  IF field.type # "repeated" THEN LeafMessage(field) ELSE FlattenSeq(messages)

(* What Generate makes of each field. *)
MessagesOf(msg) ==
  /\ \A f \in Fields : msg[f] \in Seq(Bytes)
  /\ \A f \in Fields : msg[f] = MessageBody(f, Each(msg, Unrolled(f)))

LEMMA MessagesAre ==
  \E msg : MessagesOf(msg) /\ \A fs : Generate(fs) = FlattenSeq(Each(msg, fs))
<1> DEFINE V == Seq(Bytes)
           body(f, g) == MessageBody(f, Each(g, Unrolled(f)))
           Fix(g) == g = [f \in Fields |-> body(f, g)]
           msg == CHOOSE g : Fix(g)
<1>1. \A fs : Generate(fs) = FlattenSeq(Each(msg, fs))
  BY DEF Generate, MessageBody
<1>2. ASSUME NEW f \in Fields, NEW g, \A k \in DOMAIN f.fields : g[f.fields[k]] \in V
      PROVE  body(f, g) \in V
  <2>1. f.type # "repeated" => LeafMessage(f) \in V
    BY LeafMessageIs
  <2> HIDE DEF V
  <2>2. Unrolled(f) \in Seq(Fields) /\ \A k \in DOMAIN Unrolled(f) : g[Unrolled(f)[k]] \in V
    BY <1>2, UnrolledIs
  <2>3. Each(g, Unrolled(f)) \in Seq(V)
    BY <2>2, EachIs
  <2>4. FlattenSeq(Each(g, Unrolled(f))) \in V
    BY <2>3, FlattenHolds DEF V
  <2> QED BY <2>1, <2>4 DEF MessageBody
<1>3. \E g : Fix(g)
  <2> DEFINE B == [f \in Fields |-> [g \in [Fields -> V] |-> body(f, g)]]
  <2>1. \A f \in Fields, g \in [Fields -> V] : B[f][g] = body(f, g)
    OBVIOUS
  <2> HIDE DEF B
  <2>2. ASSUME NEW f \in Fields, NEW g \in [Fields -> V] PROVE B[f][g] \in V
    <3> HIDE DEF V, body
    <3>1. \A k \in DOMAIN f.fields : f.fields[k] \in Fields
      BY FieldIs, SeqBasics
    <3>2. \A k \in DOMAIN f.fields : g[f.fields[k]] \in V
      BY <3>1
    <3> QED BY <1>2, <2>1, <3>2
  <2>3. ASSUME NEW f \in Fields, NEW g \in [Fields -> V], NEW h \in [Fields -> V],
               Each(g, f.fields) = Each(h, f.fields)
        PROVE  B[f][g] = B[f][h]
    <3>1. body(f, g) = body(f, h)
      BY <2>3, UnrolledAgree
    <3> HIDE DEF body, V
    <3> QED BY <2>1, <3>1
  <2>4. IsRecursion(B, V)
    <3> HIDE DEF V
    <3> QED BY <2>2, <2>3 DEF IsRecursion
  <2>5. V # {}
    <3>1. <<>> \in V
      OBVIOUS
    <3> QED BY <3>1
  <2>6. PICK r : Solves(r, B, V)
    <3> HIDE DEF V, Fix
    <3> QED BY <2>4, <2>5, FieldRecursion
  <2>7. r \in [Fields -> V] /\ \A f \in Fields : r[f] = body(f, r)
    <3> HIDE DEF V, body, Fix
    <3> QED BY <2>1, <2>6 DEF Solves
  <2>8. Fix(r)
    <3> HIDE DEF V, body
    <3> QED BY <2>7
  <2> QED BY <2>8
<1>4. Fix(msg)
  <2> HIDE DEF Fix
  <2> QED BY <1>3, Zenon
<1> HIDE DEF msg
<1>5. msg = [f \in Fields |-> msg[f]] /\ \A f \in Fields : msg[f] = body(f, msg)
  <2> HIDE DEF body
  <2> QED BY <1>4
<1> DEFINE G == {f \in Fields : msg[f] \in V}
<1>6. Fields \subseteq G
  <2>1. ASSUME NEW f \in Fields, \A k \in DOMAIN f.fields : f.fields[k] \in G PROVE f \in G
    <3>1. msg[f] \in V
      <4> HIDE DEF V, body
      <4> QED BY <1>2, <1>5, <2>1
    <3> QED BY <3>1
  <2> HIDE DEF G
  <2> QED BY <2>1, FieldInduction
<1>7. /\ \A f \in Fields : msg[f] \in V
      /\ \A f \in Fields : msg[f] = MessageBody(f, Each(msg, Unrolled(f)))
  <2> HIDE DEF V
  <2> QED BY <1>5, <1>6
<1> HIDE DEF G, Fix
<1> QED BY <1>1, <1>7 DEF MessagesOf

LEMMA GenerateIs ==
  ASSUME NEW fs \in Seq(Fields)
  PROVE  Generate(fs) \in Seq(Bytes)
<1> DEFINE V == Seq(Bytes)
<1>1. PICK msg : MessagesOf(msg) /\ Generate(fs) = FlattenSeq(Each(msg, fs))
  BY MessagesAre
<1>2. \A k \in DOMAIN fs : msg[fs[k]] \in V
  BY <1>1, SeqBasics DEF MessagesOf
<1> HIDE DEF V
<1>3. Each(msg, fs) \in Seq(V)
  BY <1>2, EachIs
<1> QED BY <1>1, <1>3, FlattenHolds DEF V

LEMMA SizesAtIsNat ==
  ASSUME NEW input \in Seq(Bytes), NEW fs \in Seq(Fields), NEW offset \in Nat
  PROVE  SizesAt(fs, input, offset) \in Nat
<1> DEFINE n == Len(fs)
           t == [k \in DOMAIN fs |-> FieldSize(fs[k], input, offset)]
<1>1. n \in Nat /\ DOMAIN fs = 1 .. n /\ \A k \in 1 .. n : fs[k] \in Fields
  BY SeqBasics
<1>2. \A f \in Fields : FieldSize(f, input, offset) \in Nat
  <2> TAKE f \in Fields
  <2>1. Sizes(input) \in [Fields -> [Nat -> Nat]]
    BY SizesAre
  <2>2. Sizes(input)[f] \in [Nat -> Nat]
    BY <2>1
  <2> QED BY <2>2 DEF FieldSize
<1>3. \A k \in 1 .. n : t[k] \in Nat
  BY <1>1, <1>2
<1>4. t = [k \in 1 .. n |-> t[k]]
  BY <1>1
<1> HIDE DEF n, t
<1>5. t \in Seq(Nat)
  <2>1. n \in Nat
    BY <1>1
  <2> QED BY <2>1, <1>3, <1>4
<1> QED BY <1>5, TotalIs DEF SizesAt, t

LEMMA MinSizesAreNat == \A f \in Fields : MinSize(f) \in Nat
<1> TAKE f \in Fields
<1>1. f.type \in Types
  BY FieldIs
<1>2. f.type \in DOMAIN Width => Width[f.type] \in Nat
  BY WidthsAreNat
<1>3. f.type \in DOMAIN Prefix => Prefix[f.type] \in Nat
  BY WidthsAreNat
<1>4. CASE f.type \in DOMAIN Width
  BY <1>2, <1>4, TypesAre DEF MinSize
<1>5. CASE f.type \in DOMAIN Prefix
  BY <1>3, <1>5, TypesAre DEF MinSize
<1>6. CASE f.type \notin DOMAIN Width \union DOMAIN Prefix
  BY <1>6 DEF MinSize
<1> QED BY <1>4, <1>5, <1>6

LEMMA MinSizeOfIsNat ==
  ASSUME NEW fs \in Seq(Fields)
  PROVE  MinSizeOf(fs) \in Nat
<1> DEFINE n == Len(fs)
           t == [k \in DOMAIN fs |-> MinSize(fs[k])]
<1>1. n \in Nat /\ DOMAIN fs = 1 .. n /\ \A k \in 1 .. n : fs[k] \in Fields
  BY SeqBasics
<1>2. \A k \in 1 .. n : t[k] \in Nat
  BY <1>1, MinSizesAreNat
<1>3. t = [k \in 1 .. n |-> t[k]]
  BY <1>1
<1> HIDE DEF n, t
<1>4. t \in Seq(Nat)
  BY <1>1, <1>2, <1>3
<1> QED BY <1>4, TotalIs DEF MinSizeOf, t

-----------------------------------------------------------------------------
(* Where fields are                                                        *)

LEMMA CopiesAre ==
  ASSUME NEW input \in Seq(Bytes), NEW f \in Fields, NEW base \in Nat
  PROVE  /\ Copies(f, input, base) \in [1 .. f.length -> Nat]
         /\ \A n \in 1 .. f.length : base <= Copies(f, input, base)[n]
         /\ \A n \in 1 .. f.length :
              Copies(f, input, base)[n] =
                IF n = 1 THEN base
                ELSE Copies(f, input, base)[n - 1]
                       + SizesAt(f.fields, input, Copies(f, input, base)[n - 1])
<1> DEFINE m == f.length
           size(x) == SizesAt(f.fields, input, x)
           Fix(g) == g = [n \in 1 .. m |->
                            IF n = 1 THEN base
                            ELSE g[n - 1] + size(g[n - 1])]
           start == CHOOSE g : Fix(g)
<1>1. m \in Nat /\ f.fields \in Seq(Fields)
  BY FieldIs
<1>2. \A x \in Nat : size(x) \in Nat
  BY <1>1, SizesAtIsNat
<1>3. Copies(f, input, base) = start
  BY DEF Copies
<1> HIDE DEF m, size
<1>4. \E g : Fix(g)
  <2> DEFINE F == [k \in 1 .. m |-> [x \in Nat |-> IF k = 1 THEN base ELSE x + size(x)]]
  <2>1. \A k \in 1 .. m, x \in Nat : F[k][x] = IF k = 1 THEN base ELSE x + size(x)
    OBVIOUS
  <2>2. \A k \in 1 .. m, x \in Nat : F[k][x] \in Nat
    <3> TAKE k \in 1 .. m, x \in Nat
    <3> DEFINE y == size(x)
    <3>1. y \in Nat /\ F[k][x] = IF k = 1 THEN base ELSE x + y
      BY <1>2
    <3> HIDE DEF y, F
    <3> QED BY <3>1
  <2>3. IsStep(F, m, Nat)
    BY <2>2 DEF IsStep
  <2> HIDE DEF F
  <2>4. PICK g : Iterates(g, m, Nat, 0, F)
    <3> HIDE DEF Fix
    <3> QED BY <1>1, <2>3, IterationExists
  <2>5. g \in [0 .. m -> Nat] /\ \A k \in 1 .. m : g[k] = F[k][g[k - 1]]
    BY <2>4 DEF Iterates
  <2> DEFINE h == [n \in 1 .. m |-> g[n]]
  <2>6. ASSUME NEW n \in 1 .. m
        PROVE  h[n] = IF n = 1 THEN base ELSE h[n - 1] + size(h[n - 1])
    <3>1. n - 1 \in 0 .. m /\ (n # 1 => n - 1 \in 1 .. m)
      BY <1>1
    <3>2. g[n - 1] \in Nat
      BY <2>5, <3>1
    <3>3. h[n] = IF n = 1 THEN base ELSE g[n - 1] + size(g[n - 1])
      BY <2>1, <2>5, <3>2
    <3>4. n # 1 => h[n - 1] = g[n - 1]
      BY <3>1
    <3> HIDE DEF h
    <3> QED BY <3>3, <3>4
  <2>7. Fix(h)
    <3>1. h = [n \in 1 .. m |-> h[n]]
      OBVIOUS
    <3> HIDE DEF h
    <3> QED BY <2>6, <3>1
  <2> QED BY <2>7
<1>5. Fix(start)
  <2> HIDE DEF Fix
  <2> QED BY <1>4, Zenon
<1> HIDE DEF start
<1> DEFINE G == {k \in 0 .. m : k # 0 => start[k] \in Nat /\ base <= start[k]}
<1>6. \A k \in 0 .. m : k \in G
  <2>1. 0 \in G
    BY <1>1
  <2>2. ASSUME NEW k \in 1 .. m, k - 1 \in G PROVE k \in G
    <3>1. k \in 0 .. m
      BY <1>1
    <3>2. start[k] = IF k = 1 THEN base ELSE start[k - 1] + size(start[k - 1])
      BY <1>5
    <3>3. k # 1 => start[k - 1] \in Nat /\ base <= start[k - 1]
      BY <1>1, <2>2
    <3>4. k # 1 => size(start[k - 1]) \in Nat
      BY <1>2, <3>3
    <3> DEFINE a == start[k - 1]
               b == size(start[k - 1])
    <3>5. /\ start[k] = IF k = 1 THEN base ELSE a + b
          /\ k # 1 => a \in Nat /\ b \in Nat /\ base <= a
      BY <3>2, <3>3, <3>4
    <3> HIDE DEF a, b
    <3>6. start[k] \in Nat /\ base <= start[k]
      BY <3>5
    <3> QED BY <3>1, <3>6
  <2> HIDE DEF G
  <2> QED BY <1>1, <2>1, <2>2, UpTo
<1>7. \A k \in 1 .. m : start[k] \in Nat /\ base <= start[k]
  <2> TAKE k \in 1 .. m
  <2>1. k \in 0 .. m /\ k # 0
    BY <1>1
  <2> QED BY <1>6, <2>1
<1>8. start \in [1 .. m -> Nat]
  BY <1>5, <1>7
<1>9. \A k \in 1 .. m : start[k] = IF k = 1 THEN base ELSE start[k - 1] + size(start[k - 1])
  BY <1>5
<1> QED BY <1>3, <1>7, <1>8, <1>9 DEF m, size

(* A place of a field, and what is found by offset: places that do not lie *)
(* before it.                                                              *)
Place == [offset : Nat, field : Fields]
Finds == {g \in [Nat -> SUBSET Place] : \A x \in Nat : \A p \in g[x] : x <= p.offset}

LEMMA InRowIs ==
  ASSUME NEW found \in Seq(Finds), NEW sizes \in Seq([Nat -> Nat]),
         Len(found) = Len(sizes), NEW offset \in Nat
  PROVE  /\ InRow(found, sizes, offset) \subseteq Place
         /\ \A p \in InRow(found, sizes, offset) : offset <= p.offset
<1> DEFINE n == Len(sizes)
           e == Ends(sizes, offset)
<1>1. /\ n \in Nat /\ DOMAIN found = 1 .. n
      /\ \A k \in 1 .. n : found[k] \in Finds
  BY SeqBasics
<1>2. e \in [0 .. n -> Nat] /\ e[0] = offset
  BY EndsAre
<1>3. \A k \in 0 .. n : e[0] <= e[k]
  <2> TAKE k \in 0 .. n
  <2>1. 0 \in 0 .. n /\ 0 <= k /\ n \in Nat
    BY <1>1
  <2> QED BY <2>1, EndsGrow
<1>4. InRow(found, sizes, offset) = UNION {found[k][e[k - 1]] : k \in 1 .. n}
  BY <1>1 DEF InRow
<1> HIDE DEF n, e
<1>5. ASSUME NEW k \in 1 .. n, NEW p \in found[k][e[k - 1]]
      PROVE  p \in Place /\ offset <= p.offset
  <2> DEFINE x == e[k - 1]
             g == found[k]
  <2>1. k - 1 \in 0 .. n
    BY <1>1
  <2>2. x \in Nat /\ offset <= x /\ g \in Finds /\ p \in g[x]
    BY <1>1, <1>2, <1>3, <1>5, <2>1
  <2> HIDE DEF x, g
  <2>3. g[x] \subseteq Place /\ x <= p.offset
    BY <2>2 DEF Finds
  <2>4. p \in Place /\ p.offset \in Nat
    BY <2>2, <2>3 DEF Place
  <2> QED BY <2>2, <2>3, <2>4
<1> QED BY <1>4, <1>5

(* What Locations finds in a field, given what it finds in its sub-fields. *)
PlacesBody(input, field, found) ==
  [offset \in Nat |->
    IF field.type # "repeated" THEN LeafLocation(field, offset)
    ELSE IF ~field.mutable THEN {}
    ELSE UNION {InRow(found, Each(Sizes(input), field.fields),
                      Copies(field, input, offset)[n]) : n \in 1 .. field.length}]

LEMMA SizesOf ==
  ASSUME NEW input \in Seq(Bytes), NEW fs \in Seq(Fields)
  PROVE  /\ Each(Sizes(input), fs) \in Seq([Nat -> Nat])
         /\ Len(Each(Sizes(input), fs)) = Len(fs)
         /\ \A k \in DOMAIN fs : Each(Sizes(input), fs)[k] = Sizes(input)[fs[k]]
<1> DEFINE V == [Nat -> Nat]
<1>1. Sizes(input) \in [Fields -> V]
  BY SizesAre
<1>2. \A k \in DOMAIN fs : fs[k] \in Fields
  BY SeqBasics
<1> HIDE DEF V
<1>3. \A k \in DOMAIN fs : Sizes(input)[fs[k]] \in V
  BY <1>1, <1>2
<1>4. /\ Each(Sizes(input), fs) \in Seq(V) /\ Len(Each(Sizes(input), fs)) = Len(fs)
      /\ \A k \in DOMAIN fs : Each(Sizes(input), fs)[k] = Sizes(input)[fs[k]]
  <2> DEFINE g == Sizes(input)
  <2>1. \A k \in DOMAIN fs : g[fs[k]] \in V
    BY <1>3
  <2> HIDE DEF g
  <2>2. /\ Each(g, fs) \in Seq(V) /\ Len(Each(g, fs)) = Len(fs)
        /\ \A k \in DOMAIN fs : Each(g, fs)[k] = g[fs[k]]
    BY <2>1, EachIs
  <2> QED BY <2>2 DEF g
<1> QED BY <1>4 DEF V

LEMMA PlacesBodyIs ==
  ASSUME NEW input \in Seq(Bytes), NEW f \in Fields, NEW found \in Seq(Finds),
         Len(found) = Len(f.fields)
  PROVE  PlacesBody(input, f, found) \in Finds
<1> DEFINE s == Each(Sizes(input), f.fields)
           row(offset) == UNION {InRow(found, s, Copies(f, input, offset)[n]) :
                                   n \in 1 .. f.length}
           set(offset) == PlacesBody(input, f, found)[offset]
<1>1. f.fields \in Seq(Fields) /\ f.mutable \in BOOLEAN
  BY FieldIs
<1>2. s \in Seq([Nat -> Nat]) /\ Len(s) = Len(found)
  BY <1>1, SizesOf
<1> HIDE DEF s
<1>3. ASSUME NEW x \in Nat, NEW p \in row(x) PROVE p \in Place /\ x <= p.offset
  <2>1. PICK n \in 1 .. f.length : p \in InRow(found, s, Copies(f, input, x)[n])
    BY <1>3
  <2> DEFINE y == Copies(f, input, x)[n]
  <2>2. y \in Nat /\ x <= y
    <3> DEFINE c == Copies(f, input, x)
    <3>1. c \in [1 .. f.length -> Nat] /\ \A j \in 1 .. f.length : x <= c[j]
      BY CopiesAre
    <3> HIDE DEF c
    <3>2. c[n] \in Nat /\ x <= c[n]
      BY <3>1
    <3> QED BY <3>2 DEF c
  <2>3. p \in InRow(found, s, y)
    BY <2>1
  <2> HIDE DEF y
  <2>4. p \in Place /\ y <= p.offset
    BY <1>2, <2>2, <2>3, InRowIs
  <2>5. p.offset \in Nat
    BY <2>4 DEF Place
  <2> QED BY <2>2, <2>4, <2>5
<1>4. ASSUME NEW x \in Nat, NEW p \in set(x) PROVE p \in Place /\ x <= p.offset
  <2>1. set(x) = IF f.type # "repeated" THEN LeafLocation(f, x)
                 ELSE IF ~f.mutable THEN {} ELSE row(x)
    BY DEF PlacesBody, s
  <2> HIDE DEF row, set
  <2>2. CASE f.type # "repeated"
    <3>1. p = [offset |-> x, field |-> f]
      BY <1>4, <2>1, <2>2 DEF LeafLocation
    <3> QED BY <3>1 DEF Place
  <2>3. CASE f.type = "repeated"
    <3>1. p \in row(x)
      BY <1>1, <1>4, <2>1, <2>3
    <3> QED BY <1>3, <3>1
  <2> QED BY <2>2, <2>3
<1>5. PlacesBody(input, f, found) = [x \in Nat |-> set(x)]
  BY DEF PlacesBody
<1> HIDE DEF set, row
<1> DEFINE g == [x \in Nat |-> set(x)]
<1>6. g \in [Nat -> SUBSET Place]
  BY <1>4
<1>7. \A x \in Nat : g[x] = set(x)
  OBVIOUS
<1> HIDE DEF g
<1>8. g \in Finds
  BY <1>4, <1>6, <1>7 DEF Finds
<1> QED BY <1>5, <1>8 DEF g

(* What Locations finds: in a row of fields, places that each lie behind   *)
(* the fields before theirs.                                               *)
PlacesOf(input, places) ==
  /\ \A f \in Fields : places[f] \in Finds
  /\ \A f \in Fields : places[f] = PlacesBody(input, f, Each(places, f.fields))

LEMMA LocationsAre ==
  ASSUME NEW input \in Seq(Bytes)
  PROVE  \E places :
           /\ PlacesOf(input, places)
           /\ \A fs, base : Locations(input, fs, base) =
                              InRow(Each(places, fs), Each(Sizes(input), fs), base)
<1> DEFINE body(f, g) == PlacesBody(input, f, Each(g, f.fields))
           Fix(g) == g = [f \in Fields |-> body(f, g)]
           places == CHOOSE g : Fix(g)
<1>1. \A fs, base : Locations(input, fs, base) =
                      InRow(Each(places, fs), Each(Sizes(input), fs), base)
  BY DEF Locations, PlacesBody
<1>2. ASSUME NEW f \in Fields, NEW g, \A k \in DOMAIN f.fields : g[f.fields[k]] \in Finds
      PROVE  body(f, g) \in Finds
  <2> DEFINE fs == f.fields
  <2>1. fs \in Seq(Fields) /\ \A k \in DOMAIN fs : g[fs[k]] \in Finds
    BY <1>2, FieldIs
  <2>2. Each(g, fs) \in Seq(Finds) /\ Len(Each(g, fs)) = Len(fs)
    <3> HIDE DEF fs
    <3> QED BY <2>1, EachIs
  <2> QED BY <2>2, PlacesBodyIs
<1>3. \E g : Fix(g)
  <2> DEFINE B == [f \in Fields |-> [g \in [Fields -> Finds] |-> body(f, g)]]
  <2>1. \A f \in Fields, g \in [Fields -> Finds] : B[f][g] = body(f, g)
    OBVIOUS
  <2> HIDE DEF B
  <2>2. ASSUME NEW f \in Fields, NEW g \in [Fields -> Finds] PROVE B[f][g] \in Finds
    <3> HIDE DEF body
    <3>1. \A k \in DOMAIN f.fields : f.fields[k] \in Fields
      BY FieldIs, SeqBasics
    <3>2. \A k \in DOMAIN f.fields : g[f.fields[k]] \in Finds
      BY <3>1
    <3> QED BY <1>2, <2>1, <3>2
  <2>3. ASSUME NEW f \in Fields, NEW g \in [Fields -> Finds], NEW h \in [Fields -> Finds],
               Each(g, f.fields) = Each(h, f.fields)
        PROVE  B[f][g] = B[f][h]
    <3>1. body(f, g) = body(f, h)
      BY <2>3
    <3> HIDE DEF body
    <3> QED BY <2>1, <3>1
  <2>4. IsRecursion(B, Finds)
    BY <2>2, <2>3 DEF IsRecursion
  <2>5. Finds # {}
    <3> DEFINE g == [x \in Nat |-> {}]
    <3>1. g \in [Nat -> SUBSET Place] /\ \A x \in Nat : g[x] = {}
      OBVIOUS
    <3> HIDE DEF g
    <3>2. g \in Finds
      BY <3>1 DEF Finds
    <3> QED BY <3>2
  <2>6. PICK r : Solves(r, B, Finds)
    <3> HIDE DEF Fix
    <3> QED BY <2>4, <2>5, FieldRecursion
  <2>7. r \in [Fields -> Finds] /\ \A f \in Fields : r[f] = body(f, r)
    <3> HIDE DEF body, Fix
    <3> QED BY <2>1, <2>6 DEF Solves
  <2>8. Fix(r)
    <3> HIDE DEF body
    <3> QED BY <2>7
  <2> QED BY <2>8
<1>4. Fix(places)
  <2> HIDE DEF Fix
  <2> QED BY <1>3, Zenon
<1> HIDE DEF places
<1>5. \A f \in Fields : places[f] = body(f, places)
  <2> HIDE DEF body
  <2> QED BY <1>4
<1> DEFINE G == {f \in Fields : places[f] \in Finds}
<1>6. Fields \subseteq G
  <2>1. ASSUME NEW f \in Fields, \A k \in DOMAIN f.fields : f.fields[k] \in G PROVE f \in G
    <3>1. places[f] \in Finds
      <4> HIDE DEF body
      <4> QED BY <1>2, <1>5, <2>1
    <3> QED BY <3>1
  <2> HIDE DEF G
  <2> QED BY <2>1, FieldInduction
<1>7. PlacesOf(input, places)
  BY <1>5, <1>6 DEF PlacesOf
<1> QED BY <1>1, <1>7

-----------------------------------------------------------------------------
(* What a mutation does                                                    *)

(* A mutation at an offset gives a message, not an empty one if it was     *)
(* given one, and leaves what lies before the offset where it was.         *)
Keeps(buf, m, offset) ==
  /\ m \in Seq(Bytes)
  /\ Len(buf) > 0 => Len(m) > 0
  /\ \A k \in 1 .. offset : k <= Len(buf) => k <= Len(m) /\ m[k] = buf[k]

LEMMA MinOfTwo ==
  ASSUME NEW a \in Nat, NEW b \in Nat
  PROVE  Min({a, b}) \in Nat /\ Min({a, b}) = IF a <= b THEN a ELSE b
<1>1. \E x \in {a, b} : \A y \in {a, b} : x <= y
  OBVIOUS
<1>2. Min({a, b}) \in {a, b} /\ \A y \in {a, b} : Min({a, b}) <= y
  BY <1>1 DEF Min
<1> QED BY <1>2

LEMMA PutKeeps ==
  ASSUME NEW buf \in Seq(Bytes), NEW offset \in Nat, NEW j \in Nat, offset <= j, j < Len(buf),
         NEW values \in SUBSET Bytes, NEW m \in Put(buf, j, values)
  PROVE  Keeps(buf, m, offset)
<1>1. PICK v \in values : m = [buf EXCEPT ![j + 1] = v]
  BY DEF Put
<1>2. v \in Bytes /\ j + 1 \in 1 .. Len(buf)
  BY SeqBasics
<1>3. m \in Seq(Bytes) /\ Len(m) = Len(buf)
  BY <1>1, <1>2
<1>4. ASSUME NEW k \in 1 .. offset, k <= Len(buf) PROVE m[k] = buf[k]
  <2>1. k \in DOMAIN buf /\ k # j + 1
    BY <1>4, SeqBasics
  <2> QED BY <1>1, <2>1
<1> QED BY <1>3, <1>4 DEF Keeps

LEMMA PutOneKeeps ==
  ASSUME NEW buf \in Seq(Bytes), NEW offset \in Nat, NEW first \in Nat, offset <= first,
         NEW last \in Nat, last <= Len(buf), NEW m \in PutOne(buf, first, last, Bytes)
  PROVE  Keeps(buf, m, offset)
<1>1. PICK j \in first .. last - 1 : m \in Put(buf, j, Bytes)
  BY DEF PutOne
<1>2. j \in Nat /\ offset <= j /\ j < Len(buf)
  BY SeqBasics
<1> QED BY <1>1, <1>2, PutKeeps

LEMMA PutAnyKeeps ==
  ASSUME NEW buf \in Seq(Bytes), NEW offset \in Nat, NEW n \in Nat, offset + n <= Len(buf),
         NEW m \in PutAny(buf, offset, n)
  PROVE  Keeps(buf, m, offset)
<1>1. PICK v \in [1 .. n -> Bytes] :
        m = [k \in DOMAIN buf |-> IF k \in offset + 1 .. offset + n THEN v[k - offset] ELSE buf[k]]
  BY DEF PutAny
<1>2. Len(buf) \in Nat /\ DOMAIN buf = 1 .. Len(buf) /\ \A k \in DOMAIN buf : buf[k] \in Bytes
  BY SeqBasics
<1>3. ASSUME NEW k \in 1 .. Len(buf) PROVE m[k] \in Bytes /\ (k <= offset => m[k] = buf[k])
  <2>1. m[k] = IF k \in offset + 1 .. offset + n THEN v[k - offset] ELSE buf[k]
    BY <1>1, <1>2
  <2>2. k \in offset + 1 .. offset + n => k - offset \in 1 .. n
    BY <1>2
  <2> QED BY <1>2, <2>1, <2>2
<1>4. m \in [1 .. Len(buf) -> Bytes]
  <2>1. m = [k \in 1 .. Len(buf) |-> m[k]]
    BY <1>1, <1>2
  <2> QED BY <1>3, <2>1
<1>5. m \in Seq(Bytes) /\ Len(m) = Len(buf)
  BY <1>2, <1>4
<1> QED BY <1>2, <1>3, <1>5 DEF Keeps

LEMMA FillKeeps ==
  ASSUME NEW buf \in Seq(Bytes), NEW offset \in Nat, NEW end \in Nat, NEW b \in Bytes
  PROVE  Keeps(buf, [k \in DOMAIN buf |-> IF k \in offset + 1 .. end THEN b ELSE buf[k]], offset)
<1> DEFINE m == [k \in DOMAIN buf |-> IF k \in offset + 1 .. end THEN b ELSE buf[k]]
<1>1. Len(buf) \in Nat /\ DOMAIN buf = 1 .. Len(buf) /\ \A k \in DOMAIN buf : buf[k] \in Bytes
  BY SeqBasics
<1>2. m \in [1 .. Len(buf) -> Bytes]
  BY <1>1
<1>3. m \in Seq(Bytes) /\ Len(m) = Len(buf)
  <2> HIDE DEF m
  <2> QED BY <1>1, <1>2
<1>4. \A k \in 1 .. offset : k <= Len(buf) => m[k] = buf[k]
  BY <1>1
<1> HIDE DEF m
<1>5. Keeps(buf, m, offset)
  BY <1>1, <1>3, <1>4 DEF Keeps
<1> QED BY <1>5 DEF m

LEMMA InsertKeeps ==
  ASSUME NEW buf \in Seq(Bytes), NEW offset \in Nat, NEW j \in Nat, offset <= j, j < Len(buf),
         NEW b \in Bytes
  PROVE  Keeps(buf, InsertAt(buf, j + 1, b), offset)
<1> DEFINE x == SubSeq(buf, 1, j)
           y == SubSeq(buf, j + 1, Len(buf))
           m == x \o <<b>> \o y
<1>1. Len(buf) \in Nat /\ \A k \in 1 .. Len(buf) : buf[k] \in Bytes
  BY SeqBasics
<1>2. (j + 1) - 1 = j /\ InsertAt(buf, j + 1, b) = m
  BY DEF InsertAt
<1>3. x \in Seq(Bytes) /\ Len(x) = j /\ \A k \in 1 .. j : x[k] = buf[k]
  BY <1>1
<1>4. y \in Seq(Bytes) /\ Len(y) = Len(buf) - j
  BY <1>1
<1> HIDE DEF x, y
<1>5. m \in Seq(Bytes) /\ Len(m) = Len(buf) + 1
  BY <1>1, <1>3, <1>4
<1>6. \A k \in 1 .. j : m[k] = x[k]
  BY <1>1, <1>3, <1>4
<1> HIDE DEF m
<1>7. \A k \in 1 .. offset : k \in 1 .. j
  OBVIOUS
<1>8. Keeps(buf, m, offset)
  BY <1>1, <1>3, <1>5, <1>6, <1>7 DEF Keeps
<1> QED BY <1>2, <1>8

LEMMA RemoveKeeps ==
  ASSUME NEW buf \in Seq(Bytes), NEW offset \in Nat, NEW j \in Nat, offset <= j, j < Len(buf),
         Len(buf) > 1
  PROVE  Keeps(buf, RemoveAt(buf, j + 1), offset)
<1> DEFINE x == SubSeq(buf, 1, j)
           y == SubSeq(buf, j + 2, Len(buf))
           m == x \o y
<1>1. Len(buf) \in Nat /\ \A k \in 1 .. Len(buf) : buf[k] \in Bytes
  BY SeqBasics
<1>2. (j + 1) - 1 = j /\ (j + 1) + 1 = j + 2 /\ RemoveAt(buf, j + 1) = m
  BY DEF RemoveAt
<1>3. x \in Seq(Bytes) /\ Len(x) = j /\ \A k \in 1 .. j : x[k] = buf[k]
  BY <1>1
<1>4. y \in Seq(Bytes) /\ Len(y) = Len(buf) - (j + 1)
  BY <1>1
<1> HIDE DEF x, y
<1>5. m \in Seq(Bytes) /\ Len(m) = Len(buf) - 1
  BY <1>1, <1>3, <1>4
<1>6. \A k \in 1 .. j : m[k] = x[k]
  BY <1>1, <1>3, <1>4
<1> HIDE DEF m
<1>7. \A k \in 1 .. offset : k \in 1 .. j /\ (k <= Len(buf) => k <= Len(m))
  BY <1>1, <1>5
<1>8. Keeps(buf, m, offset)
  BY <1>1, <1>3, <1>5, <1>6, <1>7 DEF Keeps
<1> QED BY <1>2, <1>8

LEMMA SameKeeps ==
  ASSUME NEW buf \in Seq(Bytes), NEW offset \in Nat
  PROVE  Keeps(buf, buf, offset)
BY DEF Keeps

LEMMA BytesKeep ==
  ASSUME NEW buf \in Seq(Bytes), NEW offset \in Nat, offset < Len(buf),
         NEW end \in Nat, end <= Len(buf), NEW m \in MutateBytes(buf, offset, end)
  PROVE  Keeps(buf, m, offset)
<1>1. Len(buf) \in Nat
  BY SeqBasics
<1>2. CASE m \in PutOne(buf, offset, end, Bytes)
  BY <1>2, PutOneKeeps
<1>3. CASE m \in {InsertAt(buf, k + 1, v) : k \in offset .. end - 1, v \in Bytes}
  <2>1. PICK k \in offset .. end - 1, v \in Bytes : m = InsertAt(buf, k + 1, v)
    BY <1>3
  <2>2. k \in Nat /\ offset <= k /\ k < Len(buf)
    BY <1>1
  <2> QED BY <2>1, <2>2, InsertKeeps
<1>4. CASE m \in {RemoveAt(buf, k + 1) : k \in {j \in offset .. end - 1 : end > offset + 1}}
  <2>1. PICK k \in offset .. end - 1 : m = RemoveAt(buf, k + 1) /\ end > offset + 1
    BY <1>4
  <2>2. k \in Nat /\ offset <= k /\ k < Len(buf) /\ Len(buf) > 1
    BY <1>1, <2>1
  <2> QED BY <2>1, <2>2, RemoveKeeps
<1> QED BY <1>2, <1>3, <1>4 DEF MutateBytes

LEMMA TextKeeps ==
  ASSUME NEW buf \in Seq(Bytes), NEW offset \in Nat, offset < Len(buf),
         NEW m \in MutateText(buf, offset)
  PROVE  Keeps(buf, m, offset)
<1> DEFINE end == EndOfText(buf, offset)
<1>1. Len(buf) \in Nat
  BY SeqBasics
<1>2. end \in Nat /\ offset <= end /\ end <= Len(buf)
  <2>1. offset \in 0 .. Len(buf)
    BY <1>1
  <2>2. end \in offset .. Len(buf)
    BY <2>1, TextEnds
  <2> QED BY <1>1, <2>2
<1>3. \/ m \in PutOne(buf, offset, end, Bytes)
      \/ end < Len(buf) /\ m \in Put(buf, end, Bytes \ {0})
      \/ m \in Put(buf, offset, Bytes)
  BY DEF MutateText
<1> HIDE DEF end
<1>4. CASE m \in PutOne(buf, offset, end, Bytes)
  BY <1>2, <1>4, PutOneKeeps
<1>5. CASE end < Len(buf) /\ m \in Put(buf, end, Bytes \ {0})
  BY <1>2, <1>5, PutKeeps
<1>6. CASE m \in Put(buf, offset, Bytes)
  BY <1>6, PutKeeps
<1> QED BY <1>3, <1>4, <1>5, <1>6

LEMMA PrefixedKeeps ==
  ASSUME NEW buf \in Seq(Bytes), NEW offset \in Nat, NEW n \in Nat, offset + n <= Len(buf),
         NEW m \in MutatePrefixed(buf, offset, n)
  PROVE  Keeps(buf, m, offset)
<1> DEFINE start == offset + n
           a == start + NumberAt(buf, offset, n)
           end == Min({a, Len(buf)})
<1>1. Len(buf) \in Nat
  BY SeqBasics
<1>2. NumberAt(buf, offset, n) \in Nat
  BY NumberIsNat
<1>3. start \in Nat /\ offset <= start /\ a \in Nat
  BY <1>2
<1>4. \/ m \in PutAny(buf, offset, n)
      \/ m \in PutOne(buf, start, end, Bytes)
      \/ m = buf
  BY DEF MutatePrefixed
<1> HIDE DEF start, a
<1>5. end \in Nat /\ end <= Len(buf)
  BY <1>1, <1>3, MinOfTwo
<1> HIDE DEF end
<1>6. m \in PutOne(buf, start, end, Bytes) => Keeps(buf, m, offset)
  BY <1>3, <1>5, PutOneKeeps
<1> QED BY <1>4, <1>6, PutAnyKeeps, SameKeeps

LEMMA MutatedKeeps ==
  ASSUME NEW buf \in Seq(Bytes), NEW offset \in Nat, NEW field \in Fields,
         NEW m \in Mutated(buf, offset, field)
  PROVE  Keeps(buf, m, offset)
<1> DEFINE a == offset + field.length
           end == Min({a, Len(buf)})
           w == Width[field.type]
           p == Prefix[field.type]
<1>1. Len(buf) \in Nat /\ field.length \in Nat /\ field.type \in Types
  BY SeqBasics, FieldIs
<1>2. end \in Nat /\ end <= Len(buf)
  <2>1. a \in Nat
    BY <1>1
  <2> HIDE DEF a
  <2> QED BY <1>1, <2>1, MinOfTwo
<1>3. field.type \in DOMAIN Width => w \in Nat
  BY WidthsAreNat
<1>4. field.type \in DOMAIN Prefix => p \in Nat
  BY WidthsAreNat
<1>5. CASE field.type \in DOMAIN Width /\ offset + w <= Len(buf)
  <2>1. m \in PutAny(buf, offset, w)
    BY <1>5, TypesAre DEF Mutated
  <2> HIDE DEF w
  <2> QED BY <1>3, <1>5, <2>1, PutAnyKeeps
<1>6. CASE field.type \in DOMAIN Prefix /\ offset + p <= Len(buf)
  <2>1. m \in MutatePrefixed(buf, offset, p)
    BY <1>6, TypesAre DEF Mutated
  <2> HIDE DEF p
  <2> QED BY <1>4, <1>6, <2>1, PrefixedKeeps
<1>7. CASE field.type = "bytes" /\ offset + 1 <= Len(buf)
  <2>1. m \in MutateBytes(buf, offset, end)
    BY <1>7, TypesAre DEF Mutated
  <2>2. offset < Len(buf)
    BY <1>1, <1>7
  <2> HIDE DEF end
  <2> QED BY <1>2, <2>1, <2>2, BytesKeep
<1>8. CASE field.type = "cstring" /\ offset + 1 <= Len(buf)
  <2>1. m \in MutateText(buf, offset)
    BY <1>8, TypesAre DEF Mutated
  <2>2. offset < Len(buf)
    BY <1>1, <1>8
  <2> QED BY <2>1, <2>2, TextKeeps
<1>9. CASE field.type = "magic" /\ offset + 1 <= Len(buf)
  <2>1. m \in UNION {Put(buf, k, Bytes \ {ByteAt(buf, k)}) : k \in offset .. end - 1}
    BY <1>9, TypesAre DEF Mutated
  <2> HIDE DEF end
  <2>2. PICK k \in offset .. end - 1 : m \in Put(buf, k, Bytes \ {ByteAt(buf, k)})
    BY <2>1
  <2>3. k \in Nat /\ offset <= k /\ k < Len(buf)
    BY <1>1, <1>2
  <2>4. Bytes \ {ByteAt(buf, k)} \in SUBSET Bytes
    OBVIOUS
  <2> QED BY <2>2, <2>3, <2>4, PutKeeps
<1>10. CASE field.type = "padding" /\ offset + 1 <= Len(buf)
  <2>1. m \in {[k \in DOMAIN buf |-> IF k \in offset + 1 .. end THEN b ELSE buf[k]] :
                 b \in {0, Base - 1}}
    BY <1>10, TypesAre DEF Mutated
  <2> HIDE DEF end
  <2>2. PICK b \in {0, Base - 1} :
          m = [k \in DOMAIN buf |-> IF k \in offset + 1 .. end THEN b ELSE buf[k]]
    BY <2>1
  <2>3. b \in Bytes
    BY ByteBasics
  <2> QED BY <1>2, <2>2, <2>3, FillKeeps
<1>11. CASE /\ ~(field.type \in DOMAIN Width /\ offset + w <= Len(buf))
            /\ ~(field.type \in DOMAIN Prefix /\ offset + p <= Len(buf))
            /\ ~(field.type \in {"bytes", "cstring", "magic", "padding"}
                   /\ offset + 1 <= Len(buf))
  <2>1. m = buf
    BY <1>11 DEF Mutated
  <2> QED BY <2>1, SameKeeps
<1> QED BY <1>5, <1>6, <1>7, <1>8, <1>9, <1>10, <1>11

(* Padding keeps every byte there is and leaves no input shorter than the  *)
(* minimal size of the fields.                                             *)
LEMMA PaddedIs ==
  ASSUME NEW input \in Seq(Bytes), NEW fs \in Seq(Fields)
  PROVE  /\ Padded(input, fs) \in Seq(Bytes)
         /\ Len(input) <= Len(Padded(input, fs)) /\ MinSizeOf(fs) <= Len(Padded(input, fs))
         /\ \A k \in 1 .. Len(input) : Padded(input, fs)[k] = input[k]
<1> DEFINE n == MinSizeOf(fs)
           m == [k \in 1 .. n |-> IF k <= Len(input) THEN input[k] ELSE 0]
<1>1. /\ Len(input) \in Nat /\ n \in Nat
      /\ \A k \in 1 .. Len(input) : input[k] \in Bytes
  BY SeqBasics, MinSizeOfIsNat
<1>2. Padded(input, fs) = IF Len(input) >= n THEN input ELSE m
  BY DEF Padded
<1> HIDE DEF n
<1>3. CASE Len(input) >= n
  BY <1>1, <1>2, <1>3 DEF n
<1>4. CASE Len(input) < n
  <2>1. m \in [1 .. n -> Bytes]
    BY <1>1, ByteBasics
  <2>2. \A k \in 1 .. Len(input) : m[k] = input[k]
    BY <1>1, <1>4
  <2> HIDE DEF m
  <2>3. m \in Seq(Bytes) /\ Len(m) = n
    BY <1>1, <2>1
  <2> QED BY <1>1, <1>2, <1>4, <2>2, <2>3 DEF n
<1> QED BY <1>1, <1>3, <1>4

(* What schema_mutate gives: nothing but padding if there is nothing to    *)
(* mutate, or else a mutation at a place collect_mutable found.            *)
LEMMA SchemaMutateKeeps ==
  ASSUME NEW input \in Seq(Bytes), NEW fs \in Seq(Fields), NEW m \in SchemaMutate(input, fs),
         NEW bound \in Nat, \A p \in Locations(Padded(input, fs), fs, 0) : bound <= p.offset
  PROVE  /\ m \in Seq(Bytes)
         /\ MinSizeOf(fs) > 0 => m # <<>>
         /\ \A k \in 1 .. bound : k <= Len(input) => k <= Len(m) /\ m[k] = input[k]
<1> DEFINE buf == Padded(input, fs)
           places == Locations(buf, fs, 0)
<1>1. /\ buf \in Seq(Bytes) /\ Len(buf) \in Nat /\ Len(input) \in Nat
      /\ Len(input) <= Len(buf) /\ MinSizeOf(fs) <= Len(buf) /\ MinSizeOf(fs) \in Nat
      /\ \A k \in 1 .. Len(input) : buf[k] = input[k]
  BY PaddedIs, SeqBasics, MinSizeOfIsNat
<1>2. \A p \in places : p \in Place
  <2>1. PICK found : /\ PlacesOf(buf, found)
                     /\ \A b : Locations(buf, fs, b) =
                                 InRow(Each(found, fs), Each(Sizes(buf), fs), b)
    BY <1>1, LocationsAre
  <2>2. \A k \in DOMAIN fs : found[fs[k]] \in Finds
    BY <2>1, SeqBasics DEF PlacesOf
  <2>3. Each(found, fs) \in Seq(Finds) /\ Len(Each(found, fs)) = Len(fs)
    BY <2>2, EachIs
  <2>4. Each(Sizes(buf), fs) \in Seq([Nat -> Nat]) /\ Len(Each(Sizes(buf), fs)) = Len(fs)
    BY <1>1, SizesOf
  <2>5. InRow(Each(found, fs), Each(Sizes(buf), fs), 0) \subseteq Place
    BY <2>3, <2>4, InRowIs
  <2> QED BY <2>1, <2>5
<1>3. m = buf \/ \E p \in places : m \in Mutated(buf, p.offset, p.field)
  BY DEF SchemaMutate
<1>4. \A p \in places : bound <= p.offset
  OBVIOUS
<1> HIDE DEF buf, places
<1>5. Keeps(buf, m, bound)
  <2>1. CASE m = buf
    BY <1>1, <2>1, SameKeeps
  <2>2. CASE \E p \in places : m \in Mutated(buf, p.offset, p.field)
    <3>1. PICK p \in places : m \in Mutated(buf, p.offset, p.field)
      BY <2>2
    <3>2. p.offset \in Nat /\ p.field \in Fields /\ bound <= p.offset
      BY <1>2, <1>4 DEF Place
    <3>3. Keeps(buf, m, p.offset)
      BY <1>1, <3>1, <3>2, MutatedKeeps
    <3>4. \A k \in 1 .. bound : k \in 1 .. p.offset
      BY <3>2
    <3> QED BY <3>3, <3>4 DEF Keeps
  <2> QED BY <1>3, <2>1, <2>2
<1>6. MinSizeOf(fs) > 0 => m # <<>>
  <2>1. MinSizeOf(fs) > 0 => Len(m) > 0
    BY <1>1, <1>5 DEF Keeps
  <2>2. Len(<<>>) = 0
    OBVIOUS
  <2> QED BY <2>1, <2>2
<1>7. ASSUME NEW k \in 1 .. bound, k <= Len(input) PROVE k <= Len(m) /\ m[k] = input[k]
  <2>1. k \in 1 .. Len(input) /\ k <= Len(buf)
    BY <1>1, <1>7
  <2> QED BY <1>1, <1>5, <2>1 DEF Keeps
<1> QED BY <1>5, <1>6, <1>7 DEF Keeps

-----------------------------------------------------------------------------
(* Inferred schemas                                                        *)

LEMMA LeavesAre ==
  /\ \A type \in Types, length \in Nat : Plain(type, length) \in Fields
  /\ \A length \in Nat : Magic(length) \in Fields
BY LeafIsField, TypesAre DEF Plain, Magic

LEMMA RowsOfFields ==
  /\ <<>> \in Seq(Fields)
  /\ \A f \in Fields : <<f>> \in Seq(Fields) /\ Len(<<f>>) = 1 /\ <<f>>[1] = f
  /\ \A x, y \in Seq(Fields) : x \o y \in Seq(Fields)
OBVIOUS

(* The prefix all samples share. *)
LEMMA MagicEndIs ==
  ASSUME NEW corpus \in Seq(Seq(Bytes))
  PROVE  /\ MagicEnd(corpus) \in Nat
         /\ \A k \in DOMAIN corpus : MagicEnd(corpus) <= Len(corpus[k])
<1> DEFINE T == {n \in 0 .. MagicLimit :
                   \A k \in DOMAIN corpus :
                     /\ n <= Len(corpus[k])
                     /\ SubSeq(corpus[k], 1, n) = SubSeq(corpus[1], 1, n)}
<1>1. MagicLimit \in Nat
  BY InferenceAssumption
<1>2. 0 \in T
  <2>1. ASSUME NEW k \in DOMAIN corpus
        PROVE  0 <= Len(corpus[k]) /\ SubSeq(corpus[k], 1, 0) = SubSeq(corpus[1], 1, 0)
    <3>1. 1 \in DOMAIN corpus
      BY <2>1, SeqBasics
    <3>2. corpus[k] \in Seq(Bytes) /\ corpus[1] \in Seq(Bytes)
      BY <3>1, SeqBasics
    <3>3. \A s \in Seq(Bytes) : 0 <= Len(s) /\ SubSeq(s, 1, 0) = <<>>
      OBVIOUS
    <3> QED BY <3>2, <3>3
  <2> QED BY <1>1, <2>1
<1>3. T \subseteq 0 .. MagicLimit
  OBVIOUS
<1>4. \A n \in T : \A k \in DOMAIN corpus : n <= Len(corpus[k])
  OBVIOUS
<1>5. MagicEnd(corpus) = Max(T)
  BY DEF MagicEnd
<1> HIDE DEF T
<1>6. \E x \in T : \A y \in T : y <= x
  BY <1>1, <1>2, <1>3, HasGreatest
<1>7. \E x \in T : \A y \in T : x >= y
  <2>1. PICK x \in T : \A y \in T : y <= x
    BY <1>6
  <2>2. \A y \in T : x >= y
    BY <1>3, <2>1
  <2> QED BY <2>2
<1>8. Max(T) \in T
  BY <1>7, Zenon DEF Max
<1>9. Max(T) \in Nat
  <2>1. \A x \in 0 .. MagicLimit : x \in Nat
    BY <1>1
  <2> QED BY <1>3, <1>8, <2>1, Zenon
<1> QED BY <1>4, <1>5, <1>8, <1>9

(* Numbers of a row have a greatest one among them. *)
LEMMA RowHasGreatest ==
  ASSUME NEW n \in Nat, n > 0, NEW g \in [1 .. n -> Nat]
  PROVE  \E j \in 1 .. n : \A k \in 1 .. n : g[k] <= g[j]
<1> DEFINE G == {m \in 0 .. n : m > 0 => \E j \in 1 .. m : \A k \in 1 .. m : g[k] <= g[j]}
<1>1. 0 \in G
  OBVIOUS
<1>2. ASSUME NEW m \in 1 .. n, m - 1 \in G PROVE m \in G
  <2>1. CASE m = 1
    <3>1. \A k \in 1 .. 1 : k = 1 /\ g[k] \in Nat
      OBVIOUS
    <3>2. 1 \in 1 .. 1 /\ \A k \in 1 .. 1 : g[k] <= g[1]
      BY <3>1
    <3> QED BY <2>1, <3>2
  <2>2. CASE m # 1
    <3>1. PICK j \in 1 .. m - 1 : \A k \in 1 .. m - 1 : g[k] <= g[j]
      BY <1>2, <2>2
    <3>2. g[j] \in Nat /\ g[m] \in Nat /\ \A k \in 1 .. m : k = m \/ k \in 1 .. m - 1
      OBVIOUS
    <3>3. \A k \in 1 .. m - 1 : g[k] \in Nat
      OBVIOUS
    <3>4. CASE g[m] <= g[j]
      <4>1. \A k \in 1 .. m : g[k] <= g[j]
        BY <3>1, <3>2, <3>4
      <4> QED BY <4>1
    <3>5. CASE ~(g[m] <= g[j])
      <4>1. \A k \in 1 .. m : g[k] <= g[m]
        BY <3>1, <3>2, <3>3, <3>5
      <4> QED BY <4>1
    <3> QED BY <3>4, <3>5
  <2> QED BY <2>1, <2>2
<1>3. \A m \in 0 .. n : m \in G
  <2> HIDE DEF G
  <2> QED BY <1>1, <1>2, UpTo
<1>4. n \in G
  <2> HIDE DEF G
  <2>1. n \in 0 .. n
    OBVIOUS
  <2> QED BY <1>3, <2>1
<1> QED BY <1>4

LEMMA MedianIsNat ==
  ASSUME NEW corpus \in Seq(Seq(Bytes)), corpus # <<>>, NEW start \in Nat
  PROVE  MedianLength(corpus, start) \in Nat
<1> DEFINE n == Len(corpus)
           length(k) == IF Len(corpus[k]) > start THEN Len(corpus[k]) - start ELSE 0
           upTo(x) == Cardinality({k \in DOMAIN corpus : length(k) <= x})
           T == {x \in {length(k) : k \in DOMAIN corpus} : upTo(x) > Len(corpus) \div 2}
           g == [k \in 1 .. n |-> length(k)]
<1>1. n \in Nat /\ n > 0 /\ DOMAIN corpus = 1 .. n
  BY SeqBasics
<1>2. ASSUME NEW k \in 1 .. n PROVE length(k) \in Nat
  <2>1. Len(corpus[k]) \in Nat
    BY <1>1, SeqBasics
  <2> QED BY <2>1
<1>3. MedianLength(corpus, start) = Min(T)
  BY DEF MedianLength
<1> HIDE DEF length
<1>4. T \subseteq Nat
  BY <1>1, <1>2
<1>5. T # {}
  <2>1. g \in [1 .. n -> Nat] /\ \A k \in 1 .. n : g[k] = length(k)
    BY <1>2
  <2>2. PICK j \in 1 .. n : \A k \in 1 .. n : g[k] <= g[j]
    <3> HIDE DEF n, g
    <3> QED BY <1>1, <2>1, RowHasGreatest
  <2>3. {k \in DOMAIN corpus : length(k) <= length(j)} = 1 .. n
    BY <1>1, <2>1, <2>2
  <2>4. Cardinality(1 .. n) = n
    <3> HIDE DEF n
    <3>1. Cardinality(1 .. n) = IF 1 > n THEN 0 ELSE n - 1 + 1
      BY <1>1, FS_Interval
    <3> QED BY <1>1, <3>1
  <2>5. n > n \div 2
    BY <1>1
  <2>6. length(j) \in T
    BY <1>1, <2>3, <2>4, <2>5
  <2> QED BY <2>6
<1> HIDE DEF T
<1>6. \E x \in T : \A y \in T : x <= y
  BY <1>4, <1>5, HasLeast
<1>7. Min(T) \in T
  BY <1>6, Zenon DEF Min
<1> QED BY <1>3, <1>4, <1>7

LEMMA MaxOfTwo ==
  ASSUME NEW a \in Nat
  PROVE  Max({a, 1}) \in Nat /\ Max({a, 1}) >= 1
<1>1. \E x \in {a, 1} : \A y \in {a, 1} : x >= y
  OBVIOUS
<1>2. Max({a, 1}) \in {a, 1} /\ \A y \in {a, 1} : Max({a, 1}) >= y
  BY <1>1 DEF Max
<1> QED BY <1>2

LEMMA NarrowestIs ==
  ASSUME NEW types \in SUBSET DOMAIN Prefix, types # {}
  PROVE  Narrowest(types) \in types
<1>1. \E t \in types : \A u \in types : Prefix[t] <= Prefix[u]
  <2>1. CASE "lp8" \in types
    <3>1. \A u \in types : Prefix["lp8"] <= Prefix[u]
      BY TypesAre
    <3> QED BY <2>1, <3>1
  <2>2. CASE "lp8" \notin types /\ "lp16" \in types
    <3>1. \A u \in types : Prefix["lp16"] <= Prefix[u]
      BY <2>2, TypesAre
    <3> QED BY <2>2, <3>1
  <2>3. CASE "lp8" \notin types /\ "lp16" \notin types
    <3>1. types = {"lp32"}
      BY <2>3, TypesAre
    <3>2. \A u \in types : Prefix["lp32"] <= Prefix[u]
      BY <3>1, TypesAre
    <3> QED BY <3>1, <3>2
  <2> QED BY <2>1, <2>2, <2>3
<1> QED BY <1>1, Zenon DEF Narrowest

(* The fields an inferred schema may have: a leaf that validates.          *)
Inferred ==
  {f \in Fields : /\ f.type # "repeated"
                  /\ f.type \in {"bytes", "padding", "magic"} => f.length # None
                  /\ f.type \in DOMAIN Width => f.length = None}

(* Those that hold no length prefix. *)
Prefixless == {f \in Inferred : f.type \notin DOMAIN Prefix}

LEMMA InferredAre ==
  /\ \A n \in Nat \ {0} : Plain("bytes", n) \in Prefixless /\ Magic(n) \in Prefixless
  /\ \A type \in DOMAIN Width \union {"cstring"} : Plain(type, None) \in Prefixless
  /\ \A type \in DOMAIN Prefix : Plain(type, None) \in Inferred
<1>1. ASSUME NEW n \in Nat \ {0} PROVE Plain("bytes", n) \in Prefixless /\ Magic(n) \in Prefixless
  <2>1. Plain("bytes", n) \in Fields /\ Magic(n) \in Fields
    BY LeavesAre, TypesAre
  <2>2. /\ Plain("bytes", n).type = "bytes" /\ Plain("bytes", n).length = n
        /\ Magic(n).type = "magic" /\ Magic(n).length = n
    BY DEF Plain, Magic, Field
  <2>3. /\ "bytes" \notin DOMAIN Width \union DOMAIN Prefix
        /\ "magic" \notin DOMAIN Width \union DOMAIN Prefix
    BY TypesAre
  <2> QED BY <2>1, <2>2, <2>3 DEF Inferred, Prefixless, None
<1>2. ASSUME NEW type \in DOMAIN Width \union DOMAIN Prefix \union {"cstring"}
      PROVE  Plain(type, None) \in Inferred /\ Plain(type, None).type = type
  <2>1. type \in Types /\ type \notin {"bytes", "padding", "magic", "repeated"} /\ None \in Nat
    BY TypesAre DEF None
  <2>2. Plain(type, None) \in Fields
    BY <2>1, LeavesAre
  <2>3. Plain(type, None).type = type /\ Plain(type, None).length = None
    BY DEF Plain, Field
  <2> QED BY <2>1, <2>2, <2>3 DEF Inferred
<1>3. \A type \in DOMAIN Width \union {"cstring"} : type \notin DOMAIN Prefix
  BY TypesAre
<1> QED BY <1>1, <1>2, <1>3 DEF Prefixless

LEMMA PrefixlessRows ==
  /\ <<>> \in Seq(Prefixless)
  /\ \A f \in Prefixless : <<f>> \in Seq(Prefixless)
  /\ \A f, g \in Prefixless : <<f, g>> \in Seq(Prefixless)
  /\ \A f, g, h \in Prefixless : <<f, g, h>> \in Seq(Prefixless)
  /\ \A x, y \in Seq(Prefixless) : x \o y \in Seq(Prefixless)
OBVIOUS

LEMMA RemainderIs ==
  ASSUME NEW taken \in Nat, NEW length \in Nat
  PROVE  Remainder(taken, length) \in Seq(Prefixless)
<1>1. CASE length > taken
  <2>1. length - taken \in Nat \ {0}
    BY <1>1
  <2> QED BY <1>1, <2>1, InferredAre, PrefixlessRows DEF Remainder
<1>2. CASE ~(length > taken)
  BY <1>2, PrefixlessRows DEF Remainder
<1> QED BY <1>1, <1>2

LEMMA FixedLayoutIs ==
  ASSUME NEW length \in Nat
  PROVE  FixedLayout(length) \in Seq(Prefixless)
<1> DEFINE b == Plain("u8", None)
           s == Plain("u16", None)
           i == Plain("u32", None)
<1>1. b \in Prefixless /\ s \in Prefixless /\ i \in Prefixless
  BY InferredAre, TypesAre
<1>2. \A k \in Nat : Remainder(k, length) \in Seq(Prefixless)
  BY RemainderIs
<1>3. FixedLayout(length) =
        CASE length = 0 -> <<>>
          [] length \in 1 .. 2 -> <<b>> \o Remainder(1, length)
          [] length \in 3 .. 6 -> <<b, s>> \o Remainder(3, length)
          [] length >= 7 -> <<b, s, i>> \o Remainder(7, length)
  BY DEF FixedLayout
<1> HIDE DEF b, s, i
<1>4. CASE length = 0
  <2>1. FixedLayout(length) = <<>>
    BY <1>3, <1>4
  <2> QED BY <2>1, PrefixlessRows
<1>5. CASE length \in 1 .. 2
  <2>1. FixedLayout(length) = <<b>> \o Remainder(1, length)
    BY <1>3, <1>5
  <2> QED BY <1>1, <1>2, <2>1, PrefixlessRows
<1>6. CASE length \in 3 .. 6
  <2>1. FixedLayout(length) = <<b, s>> \o Remainder(3, length)
    BY <1>3, <1>6
  <2> QED BY <1>1, <1>2, <2>1, PrefixlessRows
<1>7. CASE length >= 7
  <2>1. FixedLayout(length) = <<b, s, i>> \o Remainder(7, length)
    BY <1>3, <1>7
  <2> QED BY <1>1, <1>2, <2>1, PrefixlessRows
<1> QED BY <1>4, <1>5, <1>6, <1>7

LEMMA InferredRows ==
  /\ Seq(Prefixless) \subseteq Seq(Inferred)
  /\ <<>> \in Seq(Inferred)
  /\ \A f \in Inferred : <<f>> \in Seq(Inferred)
  /\ \A x, y \in Seq(Inferred) : x \o y \in Seq(Inferred)
<1>1. Prefixless \subseteq Inferred
  BY DEF Prefixless
<1> QED BY <1>1

LEMMA BodyIs ==
  ASSUME NEW corpus \in Seq(Seq(Bytes)), corpus # <<>>
  PROVE  /\ Body(corpus) \in Seq(Inferred)
         /\ \/ Body(corpus) \in Seq(Prefixless)
            \/ LET types == PrefixTypes(corpus, MagicEnd(corpus))
               IN  /\ ~SameLength(corpus) /\ types # {}
                   /\ Body(corpus) = <<Plain(Narrowest(types), None)>>
<1> DEFINE start == MagicEnd(corpus)
           types == PrefixTypes(corpus, start)
           l == Len(corpus[1])
           m == Max({MedianLength(corpus, start), 1})
<1>1. start \in Nat /\ l \in Nat
  BY MagicEndIs, SeqBasics
<1>2. types \in SUBSET DOMAIN Prefix
  BY DEF PrefixTypes
<1>3. Body(corpus) =
        CASE SameLength(corpus) /\ start = 0 -> FixedLayout(l)
          [] SameLength(corpus) /\ start > 0 -> Remainder(start, l)
          [] ~SameLength(corpus) /\ types # {} -> <<Plain(Narrowest(types), None)>>
          [] ~SameLength(corpus) /\ types = {} -> <<TextOrBytes(corpus, start)>>
  BY DEF Body
<1>4. TextOrBytes(corpus, start) \in Prefixless
  <2>1. m \in Nat \ {0}
    <3> DEFINE x == MedianLength(corpus, start)
    <3>1. x \in Nat
      BY <1>1, MedianIsNat
    <3> HIDE DEF x
    <3>2. Max({x, 1}) \in Nat /\ Max({x, 1}) >= 1
      BY <3>1, MaxOfTwo
    <3> QED BY <3>2 DEF x
  <2>2. TextOrBytes(corpus, start) \in {Plain("cstring", None), Plain("bytes", m)}
    BY DEF TextOrBytes
  <2> QED BY <2>1, <2>2, InferredAre
<1> HIDE DEF start, types, l
<1>5. CASE SameLength(corpus) /\ start = 0
  <2>1. Body(corpus) = FixedLayout(l)
    BY <1>3, <1>5
  <2> QED BY <1>1, <2>1, FixedLayoutIs, InferredRows
<1>6. CASE SameLength(corpus) /\ start > 0
  <2>1. Body(corpus) = Remainder(start, l)
    BY <1>3, <1>6
  <2> QED BY <1>1, <2>1, RemainderIs, InferredRows
<1>7. CASE ~SameLength(corpus) /\ types # {}
  <2>1. Plain(Narrowest(types), None) \in Inferred
    BY <1>2, <1>7, NarrowestIs, InferredAre
  <2>2. Body(corpus) = <<Plain(Narrowest(types), None)>>
    BY <1>3, <1>7
  <2> QED BY <1>7, <2>1, <2>2, InferredRows DEF types, start
<1>8. CASE ~SameLength(corpus) /\ types = {}
  <2>2. Body(corpus) = <<TextOrBytes(corpus, start)>>
    BY <1>3, <1>8
  <2> QED BY <1>4, <2>2, PrefixlessRows, InferredRows
<1> QED BY <1>1, <1>5, <1>6, <1>7, <1>8

(* The magic bytes a schema of samples begins with. *)
MagicFields(corpus) ==
  IF MagicEnd(corpus) > 0 THEN <<Magic(MagicEnd(corpus))>> ELSE <<>>

(* Whatever the samples are, infer_schema gives fields, at least one, each *)
(* a leaf that validates.                                                  *)
LEMMA InferSchemaIs ==
  ASSUME NEW corpus \in Seq(Seq(Bytes))
  PROVE  /\ InferSchema(corpus) \in Seq(Inferred) /\ InferSchema(corpus) # <<>>
         /\ corpus # <<>> =>
              LET body == MagicFields(corpus) \o Body(corpus)
              IN  IF body # <<>> THEN InferSchema(corpus) = body
                  ELSE InferSchema(corpus) \in Seq(Prefixless)
<1> DEFINE magic == MagicFields(corpus)
           median == MedianLength(corpus, 0)
           last == IF median = 0 THEN DefaultLength ELSE median
<1>1. DefaultLength \in Nat \ {0}
  BY InferenceAssumption
<1>2. CASE corpus = <<>>
  <2>1. InferSchema(corpus) = <<Plain("bytes", DefaultLength)>>
    BY <1>2 DEF InferSchema
  <2>2. \A f \in Inferred : <<f>> # <<>>
    OBVIOUS
  <2>3. Plain("bytes", DefaultLength) \in Inferred
    BY <1>1, InferredAre DEF Prefixless
  <2> QED BY <1>2, <2>1, <2>2, <2>3, InferredRows
<1>3. CASE corpus # <<>>
  <2>1. InferSchema(corpus) =
          IF magic \o Body(corpus) # <<>> THEN magic \o Body(corpus)
          ELSE <<Plain("bytes", last)>>
    BY <1>3 DEF InferSchema, MagicFields
  <2>2. magic \in Seq(Prefixless)
    <3>1. MagicEnd(corpus) > 0 => MagicEnd(corpus) \in Nat \ {0}
      BY MagicEndIs
    <3> QED BY <3>1, InferredAre, PrefixlessRows DEF MagicFields
  <2>3. magic \o Body(corpus) \in Seq(Inferred)
    BY <1>3, <2>2, BodyIs, InferredRows
  <2>4. last \in Nat \ {0}
    BY <1>1, <1>3, MedianIsNat
  <2> HIDE DEF magic, last
  <2>5. <<Plain("bytes", last)>> \in Seq(Prefixless)
    BY <2>4, InferredAre, PrefixlessRows
  <2>6. <<Plain("bytes", last)>> # <<>>
    OBVIOUS
  <2> QED BY <1>3, <2>1, <2>3, <2>5, <2>6, InferredRows DEF magic
<1> QED BY <1>2, <1>3

-----------------------------------------------------------------------------
(* The invariants                                                          *)

(* The size of a field without sub-fields is that of LeafSize. *)
LEMMA LeafIsSized ==
  ASSUME NEW input \in Seq(Bytes), NEW f \in Fields, f.type # "repeated", NEW x \in Nat
  PROVE  Sizes(input)[f][x] = LeafSize(f, input, x)
<1>1. Sizes(input)[f] = SizeBody(input, f, Each(Sizes(input), Unrolled(f)))
  BY SizesAre
<1> QED BY <1>1 DEF SizeBody

(* Where a row of fields ends in an input. *)
LEMMA RowEnds ==
  ASSUME NEW input \in Seq(Bytes), NEW fs \in Seq(Fields)
  PROVE  LET e == Ends(Each(Sizes(input), fs), 0)
         IN  /\ e \in [0 .. Len(fs) -> Nat] /\ e[0] = 0
             /\ FieldsSize(fs, input, 0) = e[Len(fs)]
             /\ \A k \in 1 .. Len(fs) : e[k] = e[k - 1] + Sizes(input)[fs[k]][e[k - 1]]
             /\ \A j, k \in 0 .. Len(fs) : j <= k => e[j] <= e[k]
<1> DEFINE s == Each(Sizes(input), fs)
           e == Ends(s, 0)
           n == Len(fs)
<1>1. /\ s \in Seq([Nat -> Nat]) /\ Len(s) = n
      /\ \A k \in 1 .. n : s[k] = Sizes(input)[fs[k]]
  BY SizesOf, SeqBasics
<1>2. FieldsSize(fs, input, 0) = e[n] - 0
  BY DEF FieldsSize
<1>4. n \in Nat
  BY SeqBasics
<1> HIDE DEF s, n
<1>3. /\ e \in [0 .. n -> Nat] /\ e[0] = 0
      /\ \A k \in 1 .. n : e[k] = e[k - 1] + s[k][e[k - 1]]
  <2>1. /\ Ends(s, 0) \in [0 .. Len(s) -> Nat] /\ Ends(s, 0)[0] = 0
        /\ \A k \in 1 .. Len(s) :
             Ends(s, 0)[k] = Ends(s, 0)[k - 1] + s[k][Ends(s, 0)[k - 1]]
    <3>1. 0 \in Nat
      OBVIOUS
    <3> QED BY <1>1, <3>1, EndsAre
  <2> HIDE DEF e
  <2> QED BY <1>1, <2>1 DEF e
<1>5. \A j, k \in 0 .. n : j <= k => e[j] <= e[k]
  BY <1>1, EndsGrow
<1> HIDE DEF e
<1>6. e[n] \in Nat
  BY <1>3, <1>4
<1>7. e[n] - 0 = e[n]
  BY <1>6
<1> QED BY <1>1, <1>2, <1>3, <1>5, <1>7 DEF e, n, s

IsFixed(f) == ~f.mutable /\ f.type \in DOMAIN Width \union {"bytes", "magic", "padding"}

LEMMA FixedIsSized ==
  ASSUME NEW f \in Fields, IsFixed(f)
  PROVE  f.type # "repeated" /\ \A i, j \in Seq(Bytes), x \in Nat :
                                  Sizes(i)[f][x] = Sizes(j)[f][x]
<1>1. f.type # "repeated"
  BY TypesAre DEF IsFixed
<1>2. \A i, j \in Seq(Bytes), x \in Nat : LeafSize(f, i, x) = LeafSize(f, j, x)
  <2>1. CASE f.type \in DOMAIN Width
    <3>1. \A i \in Seq(Bytes), x \in Nat : LeafSize(f, i, x) = Width[f.type]
      BY <2>1, TypesAre DEF LeafSize
    <3> QED BY <3>1
  <2>2. CASE f.type \in {"bytes", "magic", "padding"}
    <3>1. \A i \in Seq(Bytes), x \in Nat : LeafSize(f, i, x) = f.length
      BY <2>2, TypesAre DEF LeafSize
    <3> QED BY <3>1
  <2> QED BY <2>1, <2>2 DEF IsFixed
<1> QED BY <1>1, <1>2, LeafIsSized

(* Nothing is mutated before the end of the immutable fields of fixed size *)
(* the schema begins with, whatever the message holds.                     *)
LEMMA PrefixIsSpared ==
  ASSUME fields \in Seq(Fields), NEW input \in Seq(Bytes)
  PROVE  /\ PrefixLength \in Nat
         /\ \A p \in Locations(input, fields, 0) : PrefixLength <= p.offset
<1> DEFINE m == Len(fields)
           T == {0} \union {k \in DOMAIN fields : \A j \in 1 .. k : IsFixed(fields[j])}
           n == Max(T)
           sub == SubSeq(fields, 1, n)
           a == Ends(Each(Sizes(<<>>), sub), 0)
           e == Ends(Each(Sizes(input), fields), 0)
<1>1. m \in Nat /\ DOMAIN fields = 1 .. m /\ \A k \in 1 .. m : fields[k] \in Fields
  BY SeqBasics
<1>2. PrefixLength = FieldsSize(sub, <<>>, 0)
  BY DEF PrefixLength, IsFixed
<1>3. n \in 0 .. m /\ \A j \in 1 .. n : IsFixed(fields[j])
  <2>1. T \subseteq 0 .. m /\ 0 \in T
    BY <1>1
  <2>2. \A k \in T : \A j \in 1 .. k : IsFixed(fields[j])
    OBVIOUS
  <2> HIDE DEF T, m
  <2>3. \E x \in T : \A y \in T : y <= x
    BY <1>1, <2>1, HasGreatest
  <2>4. \E x \in T : \A y \in T : x >= y
    <3>1. PICK x \in T : \A y \in T : y <= x
      BY <2>3
    <3>2. \A y \in T : x >= y
      BY <2>1, <3>1
    <3> QED BY <3>2
  <2>5. Max(T) \in T
    BY <2>4, Zenon DEF Max
  <2>6. n \in T
    BY <2>5
  <2> HIDE DEF n
  <2> QED BY <2>1, <2>2, <2>6
<1> HIDE DEF n
<1>4. sub \in Seq(Fields) /\ Len(sub) = n /\ \A k \in 1 .. n : sub[k] = fields[k]
  BY <1>1, <1>3
<1> HIDE DEF m, sub
<1>5. /\ a \in [0 .. n -> Nat] /\ a[0] = 0 /\ PrefixLength = a[n]
      /\ \A k \in 1 .. n : a[k] = a[k - 1] + Sizes(<<>>)[sub[k]][a[k - 1]]
  <2>1. <<>> \in Seq(Bytes)
    OBVIOUS
  <2> QED BY <1>2, <1>4, <2>1, RowEnds
<1>6. /\ e \in [0 .. m -> Nat] /\ e[0] = 0
      /\ \A k \in 1 .. m : e[k] = e[k - 1] + Sizes(input)[fields[k]][e[k - 1]]
      /\ \A j, k \in 0 .. m : j <= k => e[j] <= e[k]
  BY RowEnds DEF m
<1>7. Locations(input, fields, 0) = Locations(input, fields, 0)
  OBVIOUS
<1>8. PICK places :
        /\ PlacesOf(input, places)
        /\ \A fs, base : Locations(input, fs, base) =
                           InRow(Each(places, fs), Each(Sizes(input), fs), base)
  BY LocationsAre
<1>9. \A p \in Locations(input, fields, 0) :
        \E k \in 1 .. m : p \in places[fields[k]][e[k - 1]]
  <2>1. Locations(input, fields, 0) = InRow(Each(places, fields), Each(Sizes(input), fields), 0)
    BY <1>8
  <2>2. DOMAIN Each(places, fields) = 1 .. m
    BY <1>1 DEF Each
  <2>3. \A k \in 1 .. m : Each(places, fields)[k] = places[fields[k]]
    BY <1>1 DEF Each
  <2>4. Locations(input, fields, 0) = UNION {Each(places, fields)[k][e[k - 1]] : k \in 1 .. m}
    BY <2>1, <2>2 DEF InRow
  <2> HIDE DEF e
  <2> QED BY <2>3, <2>4
<1> HIDE DEF a, e
<1> DEFINE G == {k \in 0 .. n : a[k] = e[k]}
<1>10. \A k \in 0 .. n : k \in G
  <2>1. n \in Nat /\ 0 \in G
    BY <1>1, <1>3, <1>5, <1>6
  <2>2. ASSUME NEW k \in 1 .. n, k - 1 \in G PROVE k \in G
    <3> DEFINE x == a[k - 1]
               f == fields[k]
    <3>1. k \in 1 .. m /\ k - 1 \in 0 .. n /\ k \in 0 .. n /\ a[k - 1] = e[k - 1]
      BY <1>1, <1>3, <2>1, <2>2
    <3>2. x \in Nat /\ f \in Fields /\ IsFixed(f)
      BY <1>1, <1>3, <1>5, <3>1
    <3>3. a[k] = x + Sizes(<<>>)[f][x] /\ e[k] = x + Sizes(input)[f][x]
      BY <1>4, <1>5, <1>6, <3>1
    <3> HIDE DEF x, f
    <3>4. <<>> \in Seq(Bytes)
      OBVIOUS
    <3>5. Sizes(<<>>)[f][x] = Sizes(input)[f][x]
      BY <3>2, <3>4, FixedIsSized
    <3> QED BY <3>1, <3>3, <3>5
  <2> HIDE DEF G
  <2> QED BY <2>1, <2>2, UpTo
<1>11. PrefixLength = e[n] /\ PrefixLength \in Nat
  <2>1. n \in 0 .. n
    BY <1>1, <1>3
  <2> QED BY <1>5, <1>10, <2>1
<1>12. ASSUME NEW p \in Locations(input, fields, 0) PROVE PrefixLength <= p.offset
  <2>1. PICK k \in 1 .. m : p \in places[fields[k]][e[k - 1]]
    BY <1>9
  <2> DEFINE f == fields[k]
             x == e[k - 1]
  <2>2. /\ f \in Fields /\ k - 1 \in 0 .. m /\ x \in Nat /\ p \in places[f][x]
        /\ (k <= n => k \in 1 .. n)
    BY <1>1, <1>3, <1>6, <2>1
  <2>3. k <= n => IsFixed(f)
    BY <1>3, <2>2
  <2>4. n <= k - 1 => e[n] <= x
    BY <1>3, <1>6, <2>2
  <2> HIDE DEF f, x
  <2>5. places[f] = PlacesBody(input, f, Each(places, f.fields)) /\ places[f] \in Finds
    BY <1>8, <2>2 DEF PlacesOf
  <2>6. ~IsFixed(f)
    <3>1. ASSUME IsFixed(f) PROVE FALSE
      <4>1. f.type # "repeated" /\ ~f.mutable
        BY <2>2, <3>1, FixedIsSized DEF IsFixed
      <4>2. places[f][x] = LeafLocation(f, x)
        BY <2>2, <2>5, <4>1 DEF PlacesBody
      <4> QED BY <2>2, <4>1, <4>2 DEF LeafLocation
    <3> QED BY <3>1
  <2>7. e[n] <= x
    BY <1>1, <1>3, <2>2, <2>3, <2>4, <2>6
  <2>8. x <= p.offset /\ p.offset \in Nat
    BY <2>2, <2>5 DEF Finds, Place
  <2>9. e[n] \in Nat
    BY <1>11
  <2> QED BY <1>11, <2>2, <2>7, <2>8, <2>9
<1> QED BY <1>11, <1>12

(* What holds of a campaign's schema and messages all along.               *)
Inv ==
  /\ TypeOK
  /\ samples \in Seq(Seq(Bytes))
  /\ fields \in Seq(Fields)
  /\ samples # <<>> => fields = InferSchema(samples)
  /\ MagicSurvives

LEMMA InitInv == Init => Inv
<1> SUFFICES ASSUME Init PROVE Inv
  OBVIOUS
<1>1. message = seed /\ rounds = 0
  BY DEF Init
<1>2. /\ samples \in SampleSets \union {<<>>} /\ samples \in Seq(Seq(Bytes))
      /\ fields \in Seq(Fields) /\ (samples # <<>> => fields = InferSchema(samples))
      /\ seed \in Seq(Bytes)
  <2>1. CASE samples = <<>> /\ fields \in Files /\ seed \in {Generate(fields)} \union Seeds
    <3>1. fields \in Seq(Fields)
      BY <2>1, MutatorAssumption
    <3>2. seed \in Seq(Bytes)
      BY <2>1, <3>1, GenerateIs, MutatorAssumption
    <3>3. samples \in Seq(Seq(Bytes))
      BY <2>1
    <3> QED BY <2>1, <3>1, <3>2, <3>3
  <2>2. CASE /\ samples \in SampleSets
             /\ fields = InferSchema(samples)
             /\ seed \in {samples[k] : k \in DOMAIN samples} \union {Generate(fields)}
    <3>1. samples \in Seq(Seq(Bytes))
      BY <2>2, MutatorAssumption
    <3>2. fields \in Seq(Inferred)
      BY <2>2, <3>1, InferSchemaIs
    <3>3. fields \in Seq(Fields)
      BY <3>2 DEF Inferred
    <3>4. \A k \in DOMAIN samples : samples[k] \in Seq(Bytes)
      BY <3>1, SeqBasics
    <3>5. seed \in Seq(Bytes)
      BY <2>2, <3>3, <3>4, GenerateIs
    <3> QED BY <2>2, <3>1, <3>3, <3>5
  <2> QED BY <2>1, <2>2 DEF Init
<1>3. TypeOK
  BY <1>1, <1>2, MutatorAssumption DEF TypeOK
<1>4. MagicSurvives
  BY <1>1 DEF MagicSurvives
<1> QED BY <1>2, <1>3, <1>4 DEF Inv

LEMMA StepInv == Inv /\ [Next]_vars => Inv'
<1> SUFFICES ASSUME Inv, [Next]_vars PROVE Inv'
  OBVIOUS
<1>1. CASE UNCHANGED vars
  <2>1. TypeOK' /\ MagicSurvives'
    BY <1>1 DEF Inv, TypeOK, MagicSurvives, PrefixLength, vars
  <2> QED BY <1>1, <2>1 DEF Inv, vars
<1>2. CASE Mutate
  <2> DEFINE n == PrefixLength
             buf == Padded(message, fields)
  <2>1. /\ message' \in SchemaMutate(message, fields) /\ rounds' = rounds + 1
        /\ rounds < MaxRounds /\ samples' = samples /\ fields' = fields /\ seed' = seed
    BY <1>2 DEF Mutate
  <2>2. message \in Seq(Bytes) /\ seed \in Seq(Bytes) /\ fields \in Seq(Fields)
    BY DEF Inv, TypeOK
  <2>3. buf \in Seq(Bytes)
    BY <2>2, PaddedIs
  <2>4. n \in Nat /\ \A p \in Locations(buf, fields, 0) : n <= p.offset
    BY <2>2, <2>3, PrefixIsSpared
  <2> HIDE DEF n
  <2>5. /\ message' \in Seq(Bytes) /\ (MinSizeOf(fields) > 0 => message' # <<>>)
        /\ \A k \in 1 .. n : k <= Len(message) => k <= Len(message') /\ message'[k] = message[k]
    BY <2>1, <2>2, <2>4, SchemaMutateKeeps
  <2>6. TypeOK'
    <3>1. MinSizeOf(fields)' = MinSizeOf(fields)
      BY <2>1
    <3> QED BY <2>1, <2>5, <3>1, MutatorAssumption DEF Inv, TypeOK
  <2>7. PrefixLength' = n
    BY <2>1 DEF PrefixLength, n
  <2>8. ASSUME NEW k \in DOMAIN seed, k <= n
        PROVE  k \in DOMAIN message' /\ message'[k] = seed[k]
    <3>1. k \in DOMAIN message /\ message[k] = seed[k]
      BY <2>8 DEF Inv, MagicSurvives, n
    <3>2. k \in 1 .. n /\ k <= Len(message)
      BY <2>2, <2>4, <2>8, <3>1, SeqBasics
    <3>3. k <= Len(message') /\ message'[k] = message[k]
      BY <2>5, <3>2
    <3>4. k \in DOMAIN message'
      BY <2>4, <2>5, <3>2, <3>3, SeqBasics
    <3> QED BY <3>1, <3>3, <3>4
  <2>9. MagicSurvives'
    BY <2>1, <2>7, <2>8 DEF MagicSurvives
  <2> QED BY <2>1, <2>6, <2>9 DEF Inv
<1> QED BY <1>1, <1>2 DEF Next

LEMMA Invariance == Spec => []Inv
BY InitInv, StepInv, PTL DEF Spec

(* Messages are messages, and none that was padded is empty, however often *)
(* and in whatever way schema_mutate changed them.                         *)
THEOREM TypeCorrect == Spec => []TypeOK
<1>1. Inv => TypeOK
  BY DEF Inv
<1> QED BY <1>1, Invariance, PTL

(* However many mutations there are, and whatever they do to lengths and   *)
(* terminators, the immutable bytes a schema begins with stay those of the *)
(* seed: collect_mutable finds no place before their end.                  *)
THEOREM MagicBytesSurvive == Spec => []MagicSurvives
<1>1. Inv => MagicSurvives
  BY DEF Inv
<1> QED BY <1>1, Invariance, PTL

LEMMA InferredIsValid ==
  ASSUME NEW fs \in Seq(Inferred), fs # <<>>
  PROVE  IsValid(fs)
<1> DEFINE rule(f) == /\ f.type \in {"bytes", "padding", "magic"} => f.length # None
                      /\ f.type \in DOMAIN Width => f.length = None
           body(f, g) == /\ f.type \in {"bytes", "padding", "magic"} => f.length # None
                         /\ f.type \in DOMAIN Width => f.length = None
                         /\ f.type = "repeated" =>
                              f.fields # <<>> /\ \A k \in DOMAIN f.fields : g[f.fields[k]]
           Fix(g) == g = [f \in Fields |-> body(f, g)]
           valid == CHOOSE g : Fix(g)
<1>1. IsValid(fs) <=> fs # <<>> /\ \A k \in DOMAIN fs : valid[fs[k]]
  BY DEF IsValid
<1>2. \E g : Fix(g)
  <2> DEFINE B == [f \in Fields |-> [g \in [Fields -> BOOLEAN] |-> body(f, g)]]
  <2>1. \A f \in Fields, g \in [Fields -> BOOLEAN] : B[f][g] = body(f, g)
    OBVIOUS
  <2>2. \A f, g : body(f, g) \in BOOLEAN
    OBVIOUS
  <2> HIDE DEF B
  <2>3. ASSUME NEW f \in Fields, NEW g \in [Fields -> BOOLEAN], NEW h \in [Fields -> BOOLEAN],
               Each(g, f.fields) = Each(h, f.fields)
        PROVE  B[f][g] = B[f][h]
    <3>1. \A k \in DOMAIN f.fields : g[f.fields[k]] = h[f.fields[k]]
      <4> TAKE k \in DOMAIN f.fields
      <4>1. Each(g, f.fields)[k] = g[f.fields[k]] /\ Each(h, f.fields)[k] = h[f.fields[k]]
        BY DEF Each
      <4> QED BY <2>3, <4>1
    <3>2. body(f, g) = body(f, h)
      BY <3>1
    <3> HIDE DEF body
    <3> QED BY <2>1, <3>2
  <2> HIDE DEF body
  <2>4. IsRecursion(B, BOOLEAN)
    BY <2>1, <2>2, <2>3 DEF IsRecursion
  <2>5. PICK r : Solves(r, B, BOOLEAN)
    <3> HIDE DEF Fix
    <3> QED BY <2>4, FieldRecursion
  <2>6. r \in [Fields -> BOOLEAN] /\ \A f \in Fields : r[f] = body(f, r)
    <3> HIDE DEF Fix
    <3> QED BY <2>1, <2>5 DEF Solves
  <2>7. Fix(r)
    BY <2>6
  <2> QED BY <2>7
<1>3. Fix(valid)
  <2> HIDE DEF Fix
  <2> QED BY <1>2, Zenon
<1> HIDE DEF valid
<1>4. ASSUME NEW f \in Inferred PROVE valid[f]
  <2>1. f \in Fields /\ rule(f) /\ f.type # "repeated"
    BY DEF Inferred
  <2>2. body(f, valid)
    BY <2>1
  <2> HIDE DEF body
  <2>3. valid[f] = body(f, valid)
    BY <1>3, <2>1
  <2> QED BY <2>2, <2>3
<1>5. \A k \in DOMAIN fs : fs[k] \in Inferred
  BY SeqBasics
<1> QED BY <1>1, <1>4, <1>5

(* A field behind a row of fields lies where the row ends. *)
LEMMA SizeOfAppended ==
  ASSUME NEW input \in Seq(Bytes), NEW x \in Seq(Fields), NEW f \in Fields,
         f.type # "repeated"
  PROVE  /\ FieldsSize(x, input, 0) \in Nat
         /\ FieldsSize(Append(x, f), input, 0) =
              FieldsSize(x, input, 0) + LeafSize(f, input, FieldsSize(x, input, 0))
<1> DEFINE n == Len(x)
           y == Append(x, f)
           a == Ends(Each(Sizes(input), x), 0)
           b == Ends(Each(Sizes(input), y), 0)
<1>1. n \in Nat /\ y \in Seq(Fields) /\ Len(y) = n + 1 /\ y[n + 1] = f
  OBVIOUS
<1>2. \A k \in 1 .. n : y[k] = x[k] /\ x[k] \in Fields
  OBVIOUS
<1> HIDE DEF y, n
<1>3. /\ a \in [0 .. n -> Nat] /\ a[0] = 0 /\ FieldsSize(x, input, 0) = a[n]
      /\ \A k \in 1 .. n : a[k] = a[k - 1] + Sizes(input)[x[k]][a[k - 1]]
  BY RowEnds DEF n
<1>4. /\ b \in [0 .. n + 1 -> Nat] /\ b[0] = 0 /\ FieldsSize(y, input, 0) = b[n + 1]
      /\ \A k \in 1 .. n + 1 : b[k] = b[k - 1] + Sizes(input)[y[k]][b[k - 1]]
  <2>1. /\ b \in [0 .. Len(y) -> Nat] /\ b[0] = 0 /\ FieldsSize(y, input, 0) = b[Len(y)]
        /\ \A k \in 1 .. Len(y) : b[k] = b[k - 1] + Sizes(input)[y[k]][b[k - 1]]
    BY <1>1, RowEnds
  <2> HIDE DEF b
  <2> QED BY <1>1, <2>1
<1> HIDE DEF a, b
<1> DEFINE G == {k \in 0 .. n : a[k] = b[k]}
<1>5. \A k \in 0 .. n : k \in G
  <2>1. 0 \in G
    BY <1>1, <1>3, <1>4
  <2>2. ASSUME NEW k \in 1 .. n, k - 1 \in G PROVE k \in G
    <3>1. k \in 0 .. n /\ k \in 1 .. n + 1 /\ a[k - 1] = b[k - 1]
      BY <1>1, <2>2
    <3> QED BY <1>2, <1>3, <1>4, <3>1
  <2> HIDE DEF G
  <2> QED BY <1>1, <2>1, <2>2, UpTo
<1>6. a[n] = b[n] /\ a[n] \in Nat
  <2>1. n \in 0 .. n
    BY <1>1
  <2> QED BY <1>3, <1>5, <2>1
<1>7. b[n + 1] = a[n] + Sizes(input)[f][a[n]]
  <2>1. n + 1 \in 1 .. n + 1 /\ (n + 1) - 1 = n
    BY <1>1
  <2>2. b[n + 1] = b[n] + Sizes(input)[y[n + 1]][b[n]]
    BY <1>4, <2>1
  <2> QED BY <1>1, <1>6, <2>2
<1>8. Sizes(input)[f][a[n]] = LeafSize(f, input, a[n])
  BY <1>6, LeafIsSized
<1> QED BY <1>3, <1>4, <1>6, <1>7, <1>8 DEF y

LEMMA PlainSizes ==
  ASSUME NEW input \in Seq(Bytes), NEW x \in Nat
  PROVE  /\ LeafSize(Plain("u8", None), input, x) = 1
         /\ LeafSize(Plain("u16", None), input, x) = 2
         /\ LeafSize(Plain("u32", None), input, x) = 4
         /\ \A n : LeafSize(Plain("bytes", n), input, x) = n
         /\ \A n : LeafSize(Magic(n), input, x) = n
<1>1. \A t, n : Plain(t, n).type = t /\ Plain(t, n).length = n
  BY DEF Plain, Field
<1>2. \A n : Magic(n).type = "magic" /\ Magic(n).length = n
  BY DEF Magic, Field
<1> QED BY <1>1, <1>2, TypesAre DEF LeafSize

(* One field more in a row of inferred fields. *)
LEMMA OneMore ==
  ASSUME NEW input \in Seq(Bytes), NEW x \in Seq(Inferred), NEW f \in Inferred
  PROVE  /\ Append(x, f) \in Seq(Inferred)
         /\ FieldsSize(x, input, 0) \in Nat
         /\ FieldsSize(Append(x, f), input, 0) =
              FieldsSize(x, input, 0) + LeafSize(f, input, FieldsSize(x, input, 0))
<1>1. x \in Seq(Fields) /\ f \in Fields /\ f.type # "repeated"
  <2>1. Inferred \subseteq Fields
    BY DEF Inferred
  <2>2. x \in Seq(Fields)
    BY <2>1
  <2> QED BY <2>2 DEF Inferred
<1>2. Append(x, f) \in Seq(Inferred)
  OBVIOUS
<1> QED BY <1>1, <1>2, SizeOfAppended

LEMMA NothingIsEmpty ==
  ASSUME NEW input \in Seq(Bytes)
  PROVE  FieldsSize(<<>>, input, 0) = 0
<1> DEFINE x == <<>>
           e == Ends(Each(Sizes(input), x), 0)
<1>1. x \in Seq(Fields) /\ Len(x) = 0
  OBVIOUS
<1> HIDE DEF x
<1>2. e[0] = 0 /\ FieldsSize(x, input, 0) = e[Len(x)]
  BY <1>1, RowEnds
<1> HIDE DEF e
<1>3. FieldsSize(x, input, 0) = 0
  BY <1>1, <1>2
<1> QED BY <1>3 DEF x

(* The rows FixedLayout begins with. *)
LEMMA HeadsAre ==
  ASSUME NEW input \in Seq(Bytes)
  PROVE  LET b == Plain("u8", None)
             s == Plain("u16", None)
             i == Plain("u32", None)
         IN  /\ {<<b>>, <<b, s>>, <<b, s, i>>} \subseteq Seq(Inferred)
             /\ FieldsSize(<<b>>, input, 0) = 1
             /\ FieldsSize(<<b, s>>, input, 0) = 3
             /\ FieldsSize(<<b, s, i>>, input, 0) = 7
<1> DEFINE b == Plain("u8", None)
           s == Plain("u16", None)
           i == Plain("u32", None)
           size(x) == FieldsSize(x, input, 0)
<1>1. b \in Inferred /\ s \in Inferred /\ i \in Inferred
  BY InferredAre, TypesAre DEF Prefixless
<1>2. \A x \in Nat : LeafSize(b, input, x) = 1 /\ LeafSize(s, input, x) = 2
                     /\ LeafSize(i, input, x) = 4
  BY PlainSizes
<1> HIDE DEF b, s, i
<1>3. /\ <<b>> = Append(<<>>, b) /\ <<b, s>> = Append(<<b>>, s)
      /\ <<b, s, i>> = Append(<<b, s>>, i)
  OBVIOUS
<1>4. <<b>> \in Seq(Inferred) /\ size(<<b>>) = 1
  <2>1. <<>> \in Seq(Inferred)
    OBVIOUS
  <2>2. size(<<>>) = 0
    BY NothingIsEmpty
  <2>3. Append(<<>>, b) \in Seq(Inferred) /\ size(Append(<<>>, b)) = 0 + LeafSize(b, input, 0)
    BY <1>1, <2>1, <2>2, OneMore
  <2> HIDE DEF size
  <2> QED BY <1>2, <1>3, <2>3
<1>5. <<b, s>> \in Seq(Inferred) /\ size(<<b, s>>) = 3
  <2>1. /\ Append(<<b>>, s) \in Seq(Inferred)
        /\ size(Append(<<b>>, s)) = 1 + LeafSize(s, input, 1)
    BY <1>1, <1>4, OneMore
  <2>2. LeafSize(s, input, 1) = 2
    BY <1>2
  <2>3. size(Append(<<b>>, s)) = 3
    BY <2>1, <2>2
  <2> QED BY <1>3, <2>1, <2>3, Zenon
<1>6. <<b, s, i>> \in Seq(Inferred) /\ size(<<b, s, i>>) = 7
  <2>1. /\ Append(<<b, s>>, i) \in Seq(Inferred)
        /\ size(Append(<<b, s>>, i)) = 3 + LeafSize(i, input, 3)
    <3> DEFINE x == <<b, s>>
    <3>1. x \in Seq(Inferred) /\ size(x) = 3
      BY <1>5
    <3> HIDE DEF x
    <3>2. Append(x, i) \in Seq(Inferred) /\ size(Append(x, i)) = 3 + LeafSize(i, input, 3)
      BY <1>1, <3>1, OneMore
    <3> QED BY <3>2 DEF x
  <2>2. LeafSize(i, input, 3) = 4
    BY <1>2
  <2>3. size(Append(<<b, s>>, i)) = 7
    BY <2>1, <2>2
  <2> QED BY <1>3, <2>1, <2>3, Zenon
<1> QED BY <1>4, <1>5, <1>6 DEF b, s, i

(* The remainder fills what a row leaves of a length. *)
LEMMA RemainderFills ==
  ASSUME NEW input \in Seq(Bytes), NEW x \in Seq(Inferred), NEW length \in Nat,
         NEW taken \in Nat, FieldsSize(x, input, 0) = taken, taken <= length
  PROVE  FieldsSize(x \o Remainder(taken, length), input, 0) = length
<1> DEFINE f == Plain("bytes", length - taken)
<1>1. CASE length > taken
  <2>1. length - taken \in Nat \ {0}
    BY <1>1
  <2>2. f \in Inferred
    BY <2>1, InferredAre DEF Prefixless
  <2>3. LeafSize(f, input, taken) = length - taken
    BY PlainSizes
  <2>4. Remainder(taken, length) = <<f>>
    BY <1>1 DEF Remainder
  <2> HIDE DEF f
  <2>5. x \o <<f>> = Append(x, f)
    OBVIOUS
  <2>6. FieldsSize(Append(x, f), input, 0) = taken + LeafSize(f, input, taken)
    BY <2>2, OneMore
  <2>7. taken + (length - taken) = length
    OBVIOUS
  <2> QED BY <2>3, <2>4, <2>5, <2>6, <2>7
<1>2. CASE length = taken
  <2>1. Remainder(taken, length) = <<>>
    BY <1>2 DEF Remainder
  <2>2. x \o <<>> = x
    OBVIOUS
  <2> QED BY <1>2, <2>1, <2>2
<1> QED BY <1>1, <1>2

LEMMA LayoutFills ==
  ASSUME NEW input \in Seq(Bytes), NEW length \in Nat, length > 0
  PROVE  /\ FieldsSize(FixedLayout(length), input, 0) = length
         /\ FixedLayout(length) # <<>>
<1> DEFINE b == Plain("u8", None)
           s == Plain("u16", None)
           i == Plain("u32", None)
<1>1. /\ <<b>> \in Seq(Inferred) /\ <<b, s>> \in Seq(Inferred) /\ <<b, s, i>> \in Seq(Inferred)
      /\ FieldsSize(<<b>>, input, 0) = 1
      /\ FieldsSize(<<b, s>>, input, 0) = 3
      /\ FieldsSize(<<b, s, i>>, input, 0) = 7
  BY HeadsAre
<1>2. FixedLayout(length) =
        CASE length = 0 -> <<>>
          [] length \in 1 .. 2 -> <<b>> \o Remainder(1, length)
          [] length \in 3 .. 6 -> <<b, s>> \o Remainder(3, length)
          [] length >= 7 -> <<b, s, i>> \o Remainder(7, length)
  BY DEF FixedLayout
<1>3. \A k \in Nat : Remainder(k, length) \in Seq(Prefixless)
  BY RemainderIs
<1> HIDE DEF b, s, i
<1>4. \A r \in Seq(Prefixless) : /\ <<b>> \o r # <<>> /\ <<b, s>> \o r # <<>>
                                 /\ <<b, s, i>> \o r # <<>>
  OBVIOUS
<1>5. CASE length \in 1 .. 2
  <2>1. FixedLayout(length) = <<b>> \o Remainder(1, length) /\ 1 <= length
    BY <1>2, <1>5
  <2>2. FieldsSize(<<b>> \o Remainder(1, length), input, 0) = length
    BY <1>1, <2>1, RemainderFills
  <2>3. <<b>> \o Remainder(1, length) # <<>>
    BY <1>3, <1>4
  <2> QED BY <2>1, <2>2, <2>3
<1>6. CASE length \in 3 .. 6
  <2>1. FixedLayout(length) = <<b, s>> \o Remainder(3, length) /\ 3 <= length
    BY <1>2, <1>6
  <2>2. FieldsSize(<<b, s>> \o Remainder(3, length), input, 0) = length
    BY <1>1, <2>1, RemainderFills
  <2>3. <<b, s>> \o Remainder(3, length) # <<>>
    BY <1>3, <1>4
  <2> QED BY <2>1, <2>2, <2>3
<1>7. CASE length >= 7
  <2>1. FixedLayout(length) = <<b, s, i>> \o Remainder(7, length) /\ 7 <= length
    BY <1>2, <1>7
  <2>2. FieldsSize(<<b, s, i>> \o Remainder(7, length), input, 0) = length
    BY <1>1, <2>1, RemainderFills
  <2>3. <<b, s, i>> \o Remainder(7, length) # <<>>
    BY <1>3, <1>4
  <2> QED BY <2>1, <2>2, <2>3
<1> QED BY <1>5, <1>6, <1>7

LEMMA MagicFieldsAre ==
  ASSUME NEW corpus \in Seq(Seq(Bytes)), NEW input \in Seq(Bytes)
  PROVE  /\ MagicFields(corpus) \in Seq(Prefixless)
         /\ FieldsSize(MagicFields(corpus), input, 0) = MagicEnd(corpus)
<1> DEFINE n == MagicEnd(corpus)
           f == Magic(n)
<1>1. n \in Nat
  BY MagicEndIs
<1>2. CASE n > 0
  <2>1. f \in Prefixless /\ f \in Inferred
    BY <1>1, <1>2, InferredAre DEF Prefixless
  <2>2. LeafSize(f, input, 0) = n
    BY PlainSizes
  <2>3. MagicFields(corpus) = <<f>>
    BY <1>2 DEF MagicFields
  <2> HIDE DEF f, n
  <2>4. <<f>> = Append(<<>>, f) /\ <<>> \in Seq(Inferred)
    OBVIOUS
  <2>5. FieldsSize(Append(<<>>, f), input, 0) = 0 + LeafSize(f, input, 0)
    BY <2>1, <2>4, NothingIsEmpty, OneMore
  <2>6. 0 + n = n
    BY <1>1
  <2> QED BY <2>1, <2>2, <2>3, <2>4, <2>5, <2>6, PrefixlessRows DEF n
<1>3. CASE n = 0
  <2>1. MagicFields(corpus) = <<>>
    BY <1>3 DEF MagicFields
  <2> QED BY <1>3, <2>1, NothingIsEmpty, PrefixlessRows
<1> QED BY <1>1, <1>2, <1>3

(* Samples of one length: the fields fill each of them. *)
LEMMA SameLengthFits ==
  ASSUME NEW corpus \in Seq(Seq(Bytes)), SameLength(corpus), corpus # <<>>,
         corpus[1] # <<>>, NEW k \in DOMAIN corpus
  PROVE  FieldsSize(InferSchema(corpus), corpus[k], 0) = Len(corpus[k])
<1> DEFINE start == MagicEnd(corpus)
           l == Len(corpus[1])
           magic == MagicFields(corpus)
           body == Body(corpus)
           input == corpus[k]
           row == magic \o body
<1>1. 1 \in DOMAIN corpus /\ corpus[1] \in Seq(Bytes) /\ input \in Seq(Bytes)
  BY SeqBasics
<1>2. l \in Nat /\ l > 0 /\ Len(input) = l
  BY <1>1 DEF SameLength
<1>3. start \in Nat /\ start <= l
  BY <1>1, MagicEndIs
<1>4. magic \in Seq(Prefixless) /\ FieldsSize(magic, input, 0) = start
  BY <1>1, MagicFieldsAre
<1>5. magic \in Seq(Inferred)
  BY <1>4, InferredRows
<1>6. InferSchema(corpus) = row /\ FieldsSize(row, input, 0) = l
  <2>1. row # <<>> => InferSchema(corpus) = row
    BY InferSchemaIs
  <2>2. CASE start = 0
    <3>1. magic = <<>>
      BY <2>2 DEF MagicFields
    <3>2. body = FixedLayout(l)
      BY <2>2 DEF Body
    <3> HIDE DEF magic, body, l, start
    <3>3. FixedLayout(l) \in Seq(Prefixless) /\ FixedLayout(l) # <<>>
      BY <1>2, FixedLayoutIs, LayoutFills, <1>1
    <3>4. row = FixedLayout(l)
      BY <3>1, <3>2, <3>3
    <3> HIDE DEF row
    <3> QED BY <1>1, <1>2, <2>1, <3>3, <3>4, LayoutFills
  <2>3. CASE start > 0
    <3>1. magic = <<Magic(start)>>
      BY <2>3 DEF MagicFields
    <3>2. body = Remainder(start, l)
      BY <2>3 DEF Body
    <3> HIDE DEF magic, body, l, start
    <3>3. Remainder(start, l) \in Seq(Prefixless)
      BY <1>2, <1>3, RemainderIs
    <3>4. row # <<>>
      BY <3>1, <3>2, <3>3
    <3>5. FieldsSize(magic \o Remainder(start, l), input, 0) = l
      BY <1>1, <1>2, <1>3, <1>4, <1>5, RemainderFills
    <3> QED BY <2>1, <3>2, <3>4, <3>5
  <2> QED BY <1>3, <2>2, <2>3
<1> QED BY <1>2, <1>6

(* A length prefix behind the magic bytes: the fields fill every sample    *)
(* that holds a prefix of the kind there and what it announces.            *)
LEMMA PrefixFits ==
  ASSUME NEW corpus \in Seq(Seq(Bytes)), NEW t \in DOMAIN Prefix, NEW k \in DOMAIN corpus,
         IsPrefixed(corpus[k], MagicEnd(corpus), Prefix[t])
  PROVE  FieldsSize(MagicFields(corpus) \o <<Plain(t, None)>>, corpus[k], 0) = Len(corpus[k])
<1> DEFINE start == MagicEnd(corpus)
           magic == MagicFields(corpus)
           input == corpus[k]
           f == Plain(t, None)
           n == Prefix[t]
           m == NumberAt(input, start, n)
<1>1. input \in Seq(Bytes) /\ Len(input) \in Nat
  BY SeqBasics
<1>2. n \in Nat /\ start \in Nat
  <2>1. n \in Nat
    <3>1. n \in {1, 2, 4}
      BY WidthsAreNat, Zenon
    <3> HIDE DEF n
    <3> QED BY <3>1
  <2>2. start \in Nat
    <3> HIDE DEF n, input
    <3> QED BY MagicEndIs, Zenon
  <2> QED BY <2>1, <2>2
<1>3. start + n <= Len(input) /\ Len(input) = start + n + m
  BY DEF IsPrefixed
<1>4. m \in Nat
  <2> HIDE DEF n, start, input
  <2> QED BY <1>1, <1>2, <1>3, NumberIsNat
<1>5. magic \in Seq(Inferred) /\ FieldsSize(magic, input, 0) = start
  BY <1>1, MagicFieldsAre, InferredRows
<1>6. f \in Inferred /\ f.type = t
  BY InferredAre DEF Plain, Field
<1>7. LeafSize(f, input, start) = n + m
  <2>1. LeafSize(f, input, start) = IF start + n <= Len(input) THEN n + m ELSE n
    BY <1>6, TypesAre DEF LeafSize
  <2> QED BY <1>3, <2>1
<1> HIDE DEF start, magic, input, f, n, m
<1>8. magic \o <<f>> = Append(magic, f)
  BY <1>5
<1>9. FieldsSize(Append(magic, f), input, 0) = start + LeafSize(f, input, start)
  BY <1>1, <1>5, <1>6, OneMore
<1>10. start + (n + m) = start + n + m
  BY <1>2, <1>4
<1>11. FieldsSize(magic \o <<f>>, input, 0) = Len(input)
  BY <1>3, <1>7, <1>8, <1>9, <1>10
<1> QED BY <1>11 DEF magic, f, input

(* An inferred schema with a length prefix was inferred from samples most  *)
(* of which hold one.                                                      *)
LEMMA PrefixWasFound ==
  ASSUME NEW corpus \in Seq(Seq(Bytes)), corpus # <<>>,
         NEW j \in DOMAIN InferSchema(corpus), InferSchema(corpus)[j].type \in DOMAIN Prefix
  PROVE  \E t \in PrefixTypes(corpus, MagicEnd(corpus)) :
           InferSchema(corpus) = MagicFields(corpus) \o <<Plain(t, None)>>
<1> DEFINE types == PrefixTypes(corpus, MagicEnd(corpus))
           magic == MagicFields(corpus)
           body == Body(corpus)
           row == magic \o body
           fs == InferSchema(corpus)
<1>1. IF row # <<>> THEN fs = row ELSE fs \in Seq(Prefixless)
  BY InferSchemaIs
<1>2. \/ body \in Seq(Prefixless)
      \/ types # {} /\ body = <<Plain(Narrowest(types), None)>>
  BY BodyIs
<1>3. magic \in Seq(Prefixless)
  <2>1. <<>> \in Seq(Bytes)
    OBVIOUS
  <2> QED BY <2>1, MagicFieldsAre
<1>4. types \in SUBSET DOMAIN Prefix
  BY DEF PrefixTypes
<1>5. j \in DOMAIN fs /\ fs[j].type \in DOMAIN Prefix
  OBVIOUS
<1> HIDE DEF types, magic, body, fs
<1>6. fs \notin Seq(Prefixless)
  <2>1. ASSUME fs \in Seq(Prefixless) PROVE FALSE
    <3>1. fs[j] \in Prefixless
      BY <1>5, <2>1, SeqBasics
    <3> QED BY <1>5, <3>1 DEF Prefixless
  <2> QED BY <2>1
<1>7. fs = row /\ body \notin Seq(Prefixless)
  BY <1>1, <1>3, <1>6, PrefixlessRows
<1>8. types # {} /\ body = <<Plain(Narrowest(types), None)>>
  BY <1>2, <1>7
<1>9. Narrowest(types) \in types
  BY <1>4, <1>8, NarrowestIs
<1> QED BY <1>7, <1>8, <1>9 DEF types, magic, fs

LEMMA InferenceHolds == Inv => InferenceIsSound
<1> SUFFICES ASSUME Inv PROVE InferenceIsSound
  OBVIOUS
<1>1. samples \in Seq(Seq(Bytes)) /\ (samples # <<>> => fields = InferSchema(samples))
  BY DEF Inv
<1>2. InferredSchemaIsValid
  BY <1>1, InferSchemaIs, InferredIsValid DEF InferredSchemaIsValid
<1>3. ASSUME samples # <<>>, SameLength(samples), samples[1] # <<>>
      PROVE  Cardinality({k \in DOMAIN samples : Fits(samples[k])}) = Len(samples)
  <2> DEFINE n == Len(samples)
  <2>1. n \in Nat /\ DOMAIN samples = 1 .. n
    BY <1>1, SeqBasics
  <2>2. \A k \in DOMAIN samples : Fits(samples[k])
    BY <1>1, <1>3, SameLengthFits DEF Fits
  <2>3. {k \in DOMAIN samples : Fits(samples[k])} = 1 .. n
    BY <2>1, <2>2
  <2> HIDE DEF n
  <2>4. Cardinality(1 .. n) = IF 1 > n THEN 0 ELSE n - 1 + 1
    BY <2>1, FS_Interval
  <2>5. Cardinality(1 .. n) = n
    BY <2>1, <2>4
  <2> QED BY <2>3, <2>5 DEF n
<1>4. ASSUME samples # <<>>, NEW j \in DOMAIN fields, fields[j].type \in DOMAIN Prefix
      PROVE  Cardinality({k \in DOMAIN samples : Fits(samples[k])}) * 10 >= Len(samples) * 7
  <2> DEFINE start == MagicEnd(samples)
  <2>1. PICK t \in PrefixTypes(samples, start) :
          fields = MagicFields(samples) \o <<Plain(t, None)>>
    BY <1>1, <1>4, PrefixWasFound
  <2> DEFINE S == {k \in DOMAIN samples : IsPrefixed(samples[k], start, Prefix[t])}
             T == {k \in DOMAIN samples : Fits(samples[k])}
  <2>2. t \in DOMAIN Prefix /\ Cardinality(S) * 10 >= Len(samples) * 7
    BY DEF PrefixTypes
  <2>3. S \subseteq T
    BY <1>1, <2>1, <2>2, PrefixFits DEF Fits
  <2>4. IsFiniteSet(T)
    <3>1. DOMAIN samples = 1 .. Len(samples) /\ Len(samples) \in Nat
      BY <1>1, SeqBasics
    <3>2. IsFiniteSet(1 .. Len(samples))
      BY <3>1, FS_Interval
    <3>3. T \in SUBSET (1 .. Len(samples))
      BY <3>1
    <3> HIDE DEF T
    <3> QED BY <3>2, <3>3, FS_Subset
  <2> HIDE DEF S, T
  <2>5. /\ Cardinality(S) \in Nat /\ Cardinality(T) \in Nat
        /\ Cardinality(S) <= Cardinality(T)
    BY <2>3, <2>4, FS_Subset, FS_CardinalityType
  <2>6. Len(samples) \in Nat
    BY <1>1, SeqBasics
  <2>7. Cardinality(T) * 10 >= Len(samples) * 7
    BY <2>2, <2>5, <2>6
  <2> QED BY <2>7 DEF T
<1>5. InferredSchemaFitsSamples
  BY <1>3, <1>4 DEF InferredSchemaFitsSamples
<1> QED BY <1>2, <1>5 DEF InferenceIsSound

(* What infer_schema writes can be loaded whatever the corpus is, and it   *)
(* describes the corpus: samples of one length fill the fields exactly,    *)
(* and seven samples of ten do if there is a length prefix among them.     *)
THEOREM InferenceSound == Spec => []InferenceIsSound
BY Invariance, InferenceHolds, PTL

-----------------------------------------------------------------------------
(* Copies of repeated fields                                               *)

LEMMA ConcatIs ==
  ASSUME NEW S, NEW s \in Seq(S), NEW t \in Seq(S)
  PROVE  /\ s \o t \in Seq(S) /\ Len(s \o t) = Len(s) + Len(t)
         /\ \A k \in 1 .. Len(s) : (s \o t)[k] = s[k]
         /\ \A k \in 1 .. Len(t) : (s \o t)[Len(s) + k] = t[k]
OBVIOUS

Gives(g, V) == \A f \in Fields : g[f] \in V

LEMMA EachOfRow ==
  ASSUME NEW V, NEW g, Gives(g, V), NEW z \in Seq(Fields)
  PROVE  /\ Each(g, z) \in Seq(V) /\ Len(Each(g, z)) = Len(z)
         /\ \A k \in 1 .. Len(z) : Each(g, z)[k] = g[z[k]]
<1>1. Len(z) \in Nat /\ DOMAIN z = 1 .. Len(z) /\ \A k \in 1 .. Len(z) : g[z[k]] \in V
  BY SeqBasics DEF Gives
<1>2. Each(g, z) = [k \in 1 .. Len(z) |-> g[z[k]]]
  BY <1>1 DEF Each
<1>3. Each(g, z) \in [1 .. Len(z) -> V]
  BY <1>1, <1>2
<1>4. Each(g, z) \in Seq(V) /\ Len(Each(g, z)) = Len(z)
  BY <1>1, <1>3
<1> QED BY <1>2, <1>4

LEMMA EachOfConcat ==
  ASSUME NEW V, NEW g, NEW x \in Seq(Fields), NEW y \in Seq(Fields), Gives(g, V)
  PROVE  Each(g, x \o y) = Each(g, x) \o Each(g, y)
<1>1. \A z \in Seq(Fields) : /\ Each(g, z) \in Seq(V) /\ Len(Each(g, z)) = Len(z)
                             /\ \A k \in 1 .. Len(z) : Each(g, z)[k] = g[z[k]]
  BY EachOfRow
<1> DEFINE a == Each(g, x)
           b == Each(g, y)
           c == Each(g, x \o y)
           n == Len(x)
           m == Len(y)
<1>2. /\ x \o y \in Seq(Fields) /\ Len(x \o y) = n + m /\ n \in Nat /\ m \in Nat
      /\ \A k \in 1 .. n : (x \o y)[k] = x[k]
      /\ \A k \in 1 .. m : (x \o y)[n + k] = y[k]
  BY ConcatIs
<1>3. /\ a \in Seq(V) /\ b \in Seq(V) /\ c \in Seq(V)
      /\ Len(a) = n /\ Len(b) = m /\ Len(c) = n + m
      /\ \A k \in 1 .. n : a[k] = g[x[k]]
      /\ \A k \in 1 .. m : b[k] = g[y[k]]
      /\ \A k \in 1 .. n + m : c[k] = g[(x \o y)[k]]
  BY <1>1, <1>2
<1> HIDE DEF a, b, c, n, m
<1>4. /\ a \o b \in Seq(V) /\ Len(a \o b) = n + m
      /\ \A k \in 1 .. n : (a \o b)[k] = a[k]
      /\ \A k \in 1 .. m : (a \o b)[n + k] = b[k]
  <2>1. /\ a \o b \in Seq(V) /\ Len(a \o b) = Len(a) + Len(b)
        /\ \A k \in 1 .. Len(a) : (a \o b)[k] = a[k]
        /\ \A k \in 1 .. Len(b) : (a \o b)[Len(a) + k] = b[k]
    <3>1. a \in Seq(V) /\ b \in Seq(V)
      BY <1>3
    <3> QED BY <3>1
  <2>2. Len(a) = n /\ Len(b) = m
    BY <1>3
  <2> QED BY <2>1, <2>2
<1> DEFINE d == a \o b
           z == x \o y
<1>7. /\ d \in Seq(V) /\ Len(d) = n + m
      /\ \A k \in 1 .. n : d[k] = a[k]
      /\ \A k \in 1 .. m : d[n + k] = b[k]
  BY <1>4
<1>8. /\ \A k \in 1 .. n : z[k] = x[k]
      /\ \A k \in 1 .. m : z[n + k] = y[k]
  BY <1>2
<1>9. \A k \in 1 .. n + m : c[k] = g[z[k]]
  BY <1>3
<1> HIDE DEF d, z
<1>5. ASSUME NEW k \in 1 .. n + m PROVE c[k] = d[k]
  <2>1. CASE k <= n
    <3>1. k \in 1 .. n
      BY <1>2, <2>1
    <3>2. d[k] = a[k] /\ z[k] = x[k] /\ a[k] = g[x[k]] /\ c[k] = g[z[k]]
      BY <1>3, <1>7, <1>8, <1>9, <3>1
    <3> QED BY <3>2
  <2>2. CASE k > n
    <3> DEFINE j == k - n
    <3>1. j \in 1 .. m /\ k = n + j
      BY <1>2, <2>2
    <3> HIDE DEF j
    <3>2. d[k] = b[j] /\ z[k] = y[j] /\ b[j] = g[y[j]] /\ c[k] = g[z[k]]
      BY <1>3, <1>7, <1>8, <1>9, <3>1
    <3> QED BY <3>2
  <2> QED BY <1>2, <2>1, <2>2
<1>6. c = d
  <2>1. c = [k \in 1 .. n + m |-> c[k]] /\ d = [k \in 1 .. n + m |-> d[k]]
    BY <1>3, <1>7
  <2> QED BY <1>5, <2>1, Zenon
<1> QED BY <1>6 DEF a, b, c, d

LEMMA EndsOfConcat ==
  ASSUME NEW s \in Seq([Nat -> Nat]), NEW t \in Seq([Nat -> Nat]), NEW base \in Nat
  PROVE  LET last == Ends(s, base)[Len(s)]
         IN  /\ last \in Nat /\ base <= last
             /\ \A k \in 0 .. Len(s) : Ends(s \o t, base)[k] = Ends(s, base)[k]
             /\ \A k \in 0 .. Len(t) : Ends(s \o t, base)[Len(s) + k] = Ends(t, last)[k]
<1> DEFINE V == [Nat -> Nat]
           n == Len(s)
           m == Len(t)
           u == s \o t
           a == Ends(s, base)
           last == a[n]
           b == Ends(t, last)
           e == Ends(u, base)
<1>1. /\ u \in Seq(V) /\ Len(u) = n + m /\ n \in Nat /\ m \in Nat
      /\ \A k \in 1 .. n : u[k] = s[k]
      /\ \A k \in 1 .. m : u[n + k] = t[k]
  <2> HIDE DEF V
  <2>1. s \in Seq(V) /\ t \in Seq(V)
    BY DEF V
  <2> QED BY <2>1, ConcatIs, SeqBasics
<1>2. /\ a \in [0 .. n -> Nat] /\ a[0] = base
      /\ \A k \in 1 .. n : a[k] = a[k - 1] + s[k][a[k - 1]]
  BY EndsAre
<1>3. last \in Nat /\ base <= last
  <2>1. 0 \in 0 .. n /\ n \in 0 .. n /\ 0 <= n
    BY <1>1
  <2>2. a[0] <= a[n]
    <3> HIDE DEF a
    <3> QED BY <2>1, EndsGrow DEF a
  <2> HIDE DEF a, n
  <2> QED BY <1>2, <2>1, <2>2
<1> HIDE DEF u, a, last
<1>4. /\ b \in [0 .. m -> Nat] /\ b[0] = last
      /\ \A k \in 1 .. m : b[k] = b[k - 1] + t[k][b[k - 1]]
  BY <1>3, EndsAre
<1>5. /\ e \in [0 .. n + m -> Nat] /\ e[0] = base
      /\ \A k \in 1 .. n + m : e[k] = e[k - 1] + u[k][e[k - 1]]
  <2>1. /\ e \in [0 .. Len(u) -> Nat] /\ e[0] = base
        /\ \A k \in 1 .. Len(u) : e[k] = e[k - 1] + u[k][e[k - 1]]
    BY <1>1, EndsAre
  <2> HIDE DEF e
  <2> QED BY <1>1, <2>1
<1> HIDE DEF b, e, n, m
<1> DEFINE G == {k \in 0 .. n : e[k] = a[k]}
           H == {k \in 0 .. m : e[n + k] = b[k]}
<1>6. \A k \in 0 .. n : k \in G
  <2>1. 0 \in G
    BY <1>1, <1>2, <1>5
  <2>2. ASSUME NEW k \in 1 .. n, k - 1 \in G PROVE k \in G
    <3>1. k \in 0 .. n /\ k \in 1 .. n + m /\ e[k - 1] = a[k - 1]
      BY <1>1, <2>2
    <3>2. e[k] = e[k - 1] + u[k][e[k - 1]] /\ u[k] = s[k]
      BY <1>1, <1>5, <3>1
    <3>3. a[k] = a[k - 1] + s[k][a[k - 1]]
      BY <1>2
    <3>4. e[k] = a[k]
      BY <3>1, <3>2, <3>3
    <3> QED BY <3>1, <3>4
  <2> HIDE DEF G
  <2> QED BY <1>1, <2>1, <2>2, UpTo
<1>7. \A k \in 0 .. m : k \in H
  <2>1. 0 \in H
    <3>1. n \in 0 .. n /\ n + 0 = n /\ 0 \in 0 .. m
      BY <1>1
    <3> QED BY <1>4, <1>6, <3>1 DEF last
  <2>2. ASSUME NEW k \in 1 .. m, k - 1 \in H PROVE k \in H
    <3>1. /\ k \in 0 .. m /\ n + k \in 1 .. n + m /\ (n + k) - 1 = n + (k - 1)
          /\ e[n + (k - 1)] = b[k - 1]
      <4>1. /\ k \in 0 .. m /\ n + k \in 1 .. n + m /\ (n + k) - 1 = n + (k - 1)
        <5>1. n \in Nat /\ m \in Nat
          BY <1>1
        <5> QED BY <5>1
      <4>2. e[n + (k - 1)] = b[k - 1]
        BY <2>2
      <4> QED BY <4>1, <4>2
    <3>2. e[n + k] = e[n + (k - 1)] + u[n + k][e[n + (k - 1)]]
      BY <1>5, <3>1
    <3> QED BY <1>1, <1>4, <3>1, <3>2
  <2> HIDE DEF H
  <2> QED BY <1>1, <2>1, <2>2, UpTo
<1> QED BY <1>3, <1>6, <1>7 DEF a, b, e, u, n, m, last

(* What is found in a row of fields, and where the row ends. *)
Found(input, places, fs, x) == InRow(Each(places, fs), Each(Sizes(input), fs), x)
RowEnd(input, fs, x) == Ends(Each(Sizes(input), fs), x)[Len(fs)]

LEMMA RowOfConcat ==
  ASSUME NEW input \in Seq(Bytes), NEW places, PlacesOf(input, places),
         NEW x \in Seq(Fields), NEW y \in Seq(Fields), NEW base \in Nat
  PROVE  /\ RowEnd(input, x, base) \in Nat
         /\ RowEnd(input, x \o y, base) = RowEnd(input, y, RowEnd(input, x, base))
         /\ Found(input, places, x \o y, base) =
              Found(input, places, x, base)
                \union Found(input, places, y, RowEnd(input, x, base))
<1> DEFINE s == Each(Sizes(input), x)
           t == Each(Sizes(input), y)
           p == Each(places, x)
           q == Each(places, y)
           n == Len(x)
           m == Len(y)
           a == Ends(s, base)
           last == a[n]
           b == Ends(t, last)
           e == Ends(s \o t, base)
<1>1. /\ s \in Seq([Nat -> Nat]) /\ Len(s) = n /\ t \in Seq([Nat -> Nat]) /\ Len(t) = m
  BY SizesOf
<1>2. p \in Seq(Finds) /\ Len(p) = n /\ q \in Seq(Finds) /\ Len(q) = m
  <2>1. Gives(places, Finds)
    BY DEF PlacesOf, Gives
  <2> QED BY <2>1, EachOfRow
<1>3. Each(Sizes(input), x \o y) = s \o t
  <2> DEFINE V == [Nat -> Nat]
             g == Sizes(input)
  <2>1. g \in [Fields -> V]
    BY SizesAre
  <2> HIDE DEF V, g
  <2>2. Gives(g, V)
    BY <2>1 DEF Gives
  <2>3. Each(g, x \o y) = Each(g, x) \o Each(g, y)
    BY <2>2, EachOfConcat
  <2> QED BY <2>3 DEF g
<1>4. Each(places, x \o y) = p \o q
  <2>1. Gives(places, Finds)
    BY DEF PlacesOf, Gives
  <2> QED BY <2>1, EachOfConcat
<1>5. n \in Nat /\ m \in Nat /\ Len(x \o y) = n + m
  BY SeqBasics, ConcatIs
<1> HIDE DEF s, t, p, q, n, m
<1>6. /\ last \in Nat
      /\ \A k \in 0 .. n : e[k] = a[k]
      /\ \A k \in 0 .. m : e[n + k] = b[k]
  <2> DEFINE z == Ends(s, base)[Len(s)]
  <2>1. /\ z \in Nat
        /\ \A k \in 0 .. Len(s) : Ends(s \o t, base)[k] = Ends(s, base)[k]
        /\ \A k \in 0 .. Len(t) : Ends(s \o t, base)[Len(s) + k] = Ends(t, z)[k]
    BY <1>1, EndsOfConcat
  <2>2. z = last
    BY <1>1
  <2> HIDE DEF z
  <2> QED BY <1>1, <2>1, <2>2
<1>7. RowEnd(input, x, base) = last /\ RowEnd(input, x \o y, base) = e[n + m]
  BY <1>3, <1>5 DEF RowEnd, s, n
<1>8. RowEnd(input, y, last) = b[m]
  BY DEF RowEnd, t, m
<1>9. e[n + m] = b[m]
  <2>1. m \in 0 .. m
    BY <1>5
  <2> QED BY <1>6, <2>1
<1>10. /\ DOMAIN p = 1 .. n /\ DOMAIN q = 1 .. m /\ DOMAIN (p \o q) = 1 .. n + m
       /\ \A k \in 1 .. n : (p \o q)[k] = p[k]
       /\ \A k \in 1 .. m : (p \o q)[n + k] = q[k]
  <2>1. /\ p \o q \in Seq(Finds) /\ Len(p \o q) = n + m
        /\ \A k \in 1 .. n : (p \o q)[k] = p[k]
        /\ \A k \in 1 .. m : (p \o q)[n + k] = q[k]
    <3>1. /\ p \o q \in Seq(Finds) /\ Len(p \o q) = Len(p) + Len(q)
          /\ \A k \in 1 .. Len(p) : (p \o q)[k] = p[k]
          /\ \A k \in 1 .. Len(q) : (p \o q)[Len(p) + k] = q[k]
      <4>1. p \in Seq(Finds) /\ q \in Seq(Finds)
        BY <1>2
      <4> QED BY <4>1
    <3>2. Len(p) = n /\ Len(q) = m
      BY <1>2
    <3> QED BY <3>1, <3>2
  <2>2. DOMAIN p = 1 .. n /\ DOMAIN q = 1 .. m
    BY <1>2, SeqBasics
  <2>3. DOMAIN (p \o q) = 1 .. n + m
    BY <2>1, SeqBasics
  <2> QED BY <2>1, <2>2, <2>3
<1>11. /\ Found(input, places, x, base) = UNION {p[k][a[k - 1]] : k \in 1 .. n}
       /\ Found(input, places, y, last) = UNION {q[k][b[k - 1]] : k \in 1 .. m}
       /\ Found(input, places, x \o y, base) =
            UNION {(p \o q)[k][e[k - 1]] : k \in 1 .. n + m}
  BY <1>3, <1>4, <1>10 DEF Found, InRow, s, t, p, q
<1> HIDE DEF a, b, e, last
<1> DEFINE r == p \o q
<1>12. ASSUME NEW k \in 1 .. n PROVE k \in 1 .. n + m /\ r[k][e[k - 1]] = p[k][a[k - 1]]
  <2>1. k - 1 \in 0 .. n /\ k \in 1 .. n + m
    BY <1>5
  <2>2. e[k - 1] = a[k - 1]
    BY <1>6, <2>1
  <2> QED BY <1>10, <2>1, <2>2
<1>13. ASSUME NEW k \in 1 .. m PROVE n + k \in 1 .. n + m /\ r[n + k][e[(n + k) - 1]] = q[k][b[k - 1]]
  <2>1. k - 1 \in 0 .. m /\ n + k \in 1 .. n + m /\ (n + k) - 1 = n + (k - 1)
    BY <1>5
  <2>2. e[(n + k) - 1] = b[k - 1]
    BY <1>6, <2>1
  <2> QED BY <1>10, <2>1, <2>2
<1>14. ASSUME NEW k \in 1 .. n + m PROVE k \in 1 .. n \/ \E j \in 1 .. m : k = n + j
  <2>1. k <= n => k \in 1 .. n
    BY <1>5
  <2>2. k > n => k - n \in 1 .. m /\ k = n + (k - n)
    BY <1>5
  <2> QED BY <1>5, <2>1, <2>2
<1> HIDE DEF r
<1>15. UNION {r[k][e[k - 1]] : k \in 1 .. n + m} =
         (UNION {p[k][a[k - 1]] : k \in 1 .. n}) \union UNION {q[k][b[k - 1]] : k \in 1 .. m}
  <2>1. ASSUME NEW z, z \in UNION {r[k][e[k - 1]] : k \in 1 .. n + m}
        PROVE  z \in (UNION {p[k][a[k - 1]] : k \in 1 .. n})
                       \union UNION {q[k][b[k - 1]] : k \in 1 .. m}
    <3>1. PICK k \in 1 .. n + m : z \in r[k][e[k - 1]]
      BY <2>1
    <3>2. CASE k \in 1 .. n
      BY <1>12, <3>1, <3>2
    <3>3. CASE \E j \in 1 .. m : k = n + j
      BY <1>13, <3>1, <3>3
    <3> QED BY <1>14, <3>2, <3>3
  <2>2. ASSUME NEW k \in 1 .. n, NEW z \in p[k][a[k - 1]]
        PROVE  z \in UNION {r[j][e[j - 1]] : j \in 1 .. n + m}
    BY <1>12
  <2>3. ASSUME NEW k \in 1 .. m, NEW z \in q[k][b[k - 1]]
        PROVE  z \in UNION {r[j][e[j - 1]] : j \in 1 .. n + m}
    BY <1>13
  <2> QED BY <2>1, <2>2, <2>3
<1> QED BY <1>6, <1>7, <1>8, <1>9, <1>11, <1>15 DEF r

(* A row of rows of fields: what is found in each, where the last one ends. *)
Chains(e, input, seqs, base) ==
  /\ e \in [0 .. Len(seqs) -> Nat] /\ e[0] = base
  /\ \A k \in 1 .. Len(seqs) : e[k] = RowEnd(input, seqs[k], e[k - 1])

FoundAlong(e, input, places, seqs) ==
  UNION {Found(input, places, seqs[k], e[k - 1]) : k \in 1 .. Len(seqs)}

LEMMA SmallRows ==
  ASSUME NEW input \in Seq(Bytes), NEW places, PlacesOf(input, places), NEW x \in Nat
  PROVE  /\ RowEnd(input, <<>>, x) = x /\ Found(input, places, <<>>, x) = {}
         /\ \A f \in Fields : /\ RowEnd(input, <<f>>, x) = x + Sizes(input)[f][x]
                              /\ Found(input, places, <<f>>, x) = places[f][x]
<1>1. RowEnd(input, <<>>, x) = x /\ Found(input, places, <<>>, x) = {}
  <2> DEFINE z == <<>>
             s == Each(Sizes(input), z)
  <2>1. z \in Seq(Fields) /\ Len(z) = 0 /\ DOMAIN z = {}
    OBVIOUS
  <2> HIDE DEF z
  <2>2. s \in Seq([Nat -> Nat]) /\ Len(s) = 0
    BY <2>1, SizesOf
  <2> HIDE DEF s
  <2>3. Ends(s, x)[0] = x
    BY <2>2, EndsAre
  <2>4. RowEnd(input, z, x) = x
    BY <2>1, <2>3 DEF RowEnd, s
  <2>5. DOMAIN Each(places, z) = {}
    BY <2>1 DEF Each
  <2>6. Found(input, places, z, x) = {}
    BY <2>5 DEF Found, InRow
  <2> QED BY <2>4, <2>6 DEF z
<1>2. ASSUME NEW f \in Fields
      PROVE  /\ RowEnd(input, <<f>>, x) = x + Sizes(input)[f][x]
             /\ Found(input, places, <<f>>, x) = places[f][x]
  <2> DEFINE z == <<f>>
             s == Each(Sizes(input), z)
             e == Ends(s, x)
  <2>1. z \in Seq(Fields) /\ Len(z) = 1 /\ DOMAIN z = 1 .. 1 /\ z[1] = f
    OBVIOUS
  <2> HIDE DEF z
  <2>2. s \in Seq([Nat -> Nat]) /\ Len(s) = 1 /\ s[1] = Sizes(input)[f]
    <3>1. /\ s \in Seq([Nat -> Nat]) /\ Len(s) = Len(z)
          /\ \A k \in 1 .. Len(z) : s[k] = Sizes(input)[z[k]]
      BY <2>1, SizesOf
    <3> HIDE DEF s
    <3>2. 1 \in 1 .. Len(z)
      BY <2>1
    <3> QED BY <2>1, <3>1, <3>2
  <2> HIDE DEF s
  <2>3. e[0] = x /\ e[1] = e[0] + s[1][e[0]]
    <3>1. \A k \in 1 .. Len(s) : Ends(s, x)[k] = Ends(s, x)[k - 1] + s[k][Ends(s, x)[k - 1]]
      BY <2>2, EndsAre
    <3>2. Ends(s, x)[0] = x
      BY <2>2, EndsAre
    <3>3. 1 \in 1 .. Len(s) /\ 1 - 1 = 0
      BY <2>2
    <3> HIDE DEF e
    <3> QED BY <3>1, <3>2, <3>3 DEF e
  <2> HIDE DEF e
  <2>4. RowEnd(input, z, x) = e[1]
    BY <2>1 DEF RowEnd, s, e
  <2>5. DOMAIN Each(places, z) = 1 .. 1 /\ Each(places, z)[1] = places[f]
    BY <2>1 DEF Each
  <2>6. Found(input, places, z, x) = UNION {Each(places, z)[k][e[k - 1]] : k \in 1 .. 1}
    BY <2>5 DEF Found, InRow, s, e
  <2>7. \A k \in 1 .. 1 : k = 1
    OBVIOUS
  <2>8. 1 \in 1 .. 1 /\ 1 - 1 = 0
    OBVIOUS
  <2>9. Found(input, places, z, x) = Each(places, z)[1][e[0]]
    BY <2>6, <2>7, <2>8
  <2> QED BY <2>2, <2>3, <2>4, <2>5, <2>9 DEF z
<1> QED BY <1>1, <1>2

LEMMA RowOfRows ==
  ASSUME NEW input \in Seq(Bytes), NEW places, PlacesOf(input, places),
         NEW seqs \in Seq(Seq(Fields)), NEW base \in Nat, NEW e, Chains(e, input, seqs, base)
  PROVE  /\ RowEnd(input, FlattenSeq(seqs), base) = e[Len(seqs)]
         /\ Found(input, places, FlattenSeq(seqs), base) = FoundAlong(e, input, places, seqs)
<1> DEFINE n == Len(seqs)
           row(k) == Found(input, places, seqs[k], e[k - 1])
           F(x) == Found(input, places, x, base)
           R(x) == RowEnd(input, x, base)
<1>1. n \in Nat /\ \A k \in 1 .. n : seqs[k] \in Seq(Fields)
  BY SeqBasics
<1>2. PICK flat : Flattens(flat, seqs, Fields)
  BY FlattenIs
<1>3. /\ flat \in [0 .. n -> Seq(Fields)] /\ flat[0] = <<>>
      /\ \A k \in 1 .. n : flat[k] = flat[k - 1] \o seqs[k]
      /\ FlattenSeq(seqs) = flat[n]
  BY <1>2 DEF Flattens
<1>4. /\ e \in [0 .. n -> Nat] /\ e[0] = base
      /\ \A k \in 1 .. n : e[k] = RowEnd(input, seqs[k], e[k - 1])
  BY DEF Chains
<1> HIDE DEF n
<1> DEFINE G == {k \in 0 .. n : /\ R(flat[k]) = e[k]
                                /\ F(flat[k]) = UNION {row(j) : j \in 1 .. k}}
<1>5. \A k \in 0 .. n : k \in G
  <2>1. 0 \in G
    <3>1. R(<<>>) = base /\ F(<<>>) = {}
      BY SmallRows
    <3>2. 1 .. 0 = {} /\ 0 \in 0 .. n
      BY <1>1
    <3>3. UNION {row(j) : j \in 1 .. 0} = {}
      BY <3>2
    <3> HIDE DEF R, F, row
    <3> QED BY <1>3, <1>4, <3>1, <3>2, <3>3
  <2>2. ASSUME NEW k \in 1 .. n, k - 1 \in G PROVE k \in G
    <3> DEFINE x == flat[k - 1]
               y == seqs[k]
    <3>1. k \in 0 .. n /\ k - 1 \in 0 .. n
      BY <1>1
    <3>2. x \in Seq(Fields) /\ y \in Seq(Fields) /\ flat[k] = x \o y
      BY <1>1, <1>3, <3>1
    <3>3. R(x) = e[k - 1] /\ F(x) = UNION {row(j) : j \in 1 .. k - 1}
      <4> HIDE DEF R, F, row
      <4> QED BY <2>2
    <3> HIDE DEF x
    <3>4. /\ R(x \o y) = RowEnd(input, y, R(x))
          /\ F(x \o y) = F(x) \union Found(input, places, y, R(x))
      <4> HIDE DEF y
      <4> QED BY <3>2, RowOfConcat
    <3>5. R(flat[k]) = e[k] /\ F(flat[k]) = F(x) \union row(k)
      <4>1. RowEnd(input, y, R(x)) = e[k] /\ Found(input, places, y, R(x)) = row(k)
        <5> HIDE DEF R
        <5> QED BY <1>4, <3>3
      <4> HIDE DEF R, F, row, y
      <4> QED BY <3>2, <3>4, <4>1
    <3>6. 1 .. k = (1 .. k - 1) \union {k}
      BY <3>1
    <3>7. UNION {row(j) : j \in 1 .. k} = (UNION {row(j) : j \in 1 .. k - 1}) \union row(k)
      <4> HIDE DEF row
      <4> QED BY <3>6
    <3> HIDE DEF R, F, row
    <3> QED BY <3>1, <3>3, <3>5, <3>7
  <2> HIDE DEF G
  <2> QED BY <1>1, <2>1, <2>2, UpTo
<1>6. n \in G
  <2> HIDE DEF G
  <2>1. n \in 0 .. n
    BY <1>1
  <2> QED BY <1>5, <2>1
<1>7. R(flat[n]) = e[n] /\ F(flat[n]) = UNION {row(j) : j \in 1 .. n}
  <2> HIDE DEF R, F, row
  <2> QED BY <1>6
<1> QED BY <1>3, <1>7 DEF n, FoundAlong

(* WrittenOut by its recursion over fields. *)
LeavesBody(field, copies) ==
  IF field.type = "repeated" /\ field.mutable THEN FlattenSeq(copies) ELSE <<field>>

LeavesOf(leaves) ==
  /\ \A f \in Fields : leaves[f] \in Seq(Fields)
  /\ \A f \in Fields : leaves[f] = LeavesBody(f, Each(leaves, Unrolled(f)))

LEMMA WrittenOutIs ==
  \E leaves : LeavesOf(leaves) /\ \A fs : WrittenOut(fs) = FlattenSeq(Each(leaves, fs))
<1> DEFINE V == Seq(Fields)
           body(f, g) == LeavesBody(f, Each(g, Unrolled(f)))
           Fix(g) == g = [f \in Fields |-> body(f, g)]
           leaves == CHOOSE g : Fix(g)
<1>1. \A fs : WrittenOut(fs) = FlattenSeq(Each(leaves, fs))
  BY DEF WrittenOut, LeavesBody
<1>2. ASSUME NEW f \in Fields, NEW g, \A k \in DOMAIN f.fields : g[f.fields[k]] \in V
      PROVE  body(f, g) \in V
  <2>1. <<f>> \in V
    BY RowsOfFields
  <2> HIDE DEF V
  <2>2. Unrolled(f) \in Seq(Fields) /\ \A k \in DOMAIN Unrolled(f) : g[Unrolled(f)[k]] \in V
    BY <1>2, UnrolledIs
  <2>3. Each(g, Unrolled(f)) \in Seq(V)
    BY <2>2, EachIs
  <2>4. FlattenSeq(Each(g, Unrolled(f))) \in V
    BY <2>3, FlattenHolds DEF V
  <2> QED BY <2>1, <2>4 DEF LeavesBody
<1>3. \E g : Fix(g)
  <2> DEFINE B == [f \in Fields |-> [g \in [Fields -> V] |-> body(f, g)]]
  <2>1. \A f \in Fields, g \in [Fields -> V] : B[f][g] = body(f, g)
    OBVIOUS
  <2> HIDE DEF B
  <2>2. ASSUME NEW f \in Fields, NEW g \in [Fields -> V] PROVE B[f][g] \in V
    <3> HIDE DEF V, body
    <3>1. \A k \in DOMAIN f.fields : f.fields[k] \in Fields
      BY FieldIs, SeqBasics
    <3>2. \A k \in DOMAIN f.fields : g[f.fields[k]] \in V
      BY <3>1
    <3> QED BY <1>2, <2>1, <3>2
  <2>3. ASSUME NEW f \in Fields, NEW g \in [Fields -> V], NEW h \in [Fields -> V],
               Each(g, f.fields) = Each(h, f.fields)
        PROVE  B[f][g] = B[f][h]
    <3>1. body(f, g) = body(f, h)
      BY <2>3, UnrolledAgree
    <3> HIDE DEF body, V
    <3> QED BY <2>1, <3>1
  <2>4. IsRecursion(B, V)
    <3> HIDE DEF V
    <3> QED BY <2>2, <2>3 DEF IsRecursion
  <2>5. V # {}
    BY RowsOfFields
  <2>6. PICK r : Solves(r, B, V)
    <3> HIDE DEF V, Fix
    <3> QED BY <2>4, <2>5, FieldRecursion
  <2>7. r \in [Fields -> V] /\ \A f \in Fields : r[f] = body(f, r)
    <3> HIDE DEF V, body, Fix
    <3> QED BY <2>1, <2>6 DEF Solves
  <2>8. Fix(r)
    <3> HIDE DEF V, body
    <3> QED BY <2>7
  <2> QED BY <2>8
<1>4. Fix(leaves)
  <2> HIDE DEF Fix
  <2> QED BY <1>3, Zenon
<1> HIDE DEF leaves
<1>5. \A f \in Fields : leaves[f] = body(f, leaves)
  <2> HIDE DEF body
  <2> QED BY <1>4
<1> DEFINE G == {f \in Fields : leaves[f] \in V}
<1>6. Fields \subseteq G
  <2>1. ASSUME NEW f \in Fields, \A k \in DOMAIN f.fields : f.fields[k] \in G PROVE f \in G
    <3>1. leaves[f] \in V
      <4> HIDE DEF V, body
      <4> QED BY <1>2, <1>5, <2>1
    <3> QED BY <3>1
  <2> HIDE DEF G
  <2> QED BY <2>1, FieldInduction
<1>7. LeavesOf(leaves)
  BY <1>5, <1>6 DEF LeavesOf
<1> QED BY <1>1, <1>7

(* A field that has the same size wherever it is. *)
HasOneSize(field) ==
  \A input \in Seq(Bytes), x, y \in Nat :
    FieldSize(field, input, x) = FieldSize(field, input, y)

LEMMA FixedHasOneSize ==
  \A f \in Fields : f.type \in DOMAIN Width \union {"bytes", "magic", "padding"} => HasOneSize(f)
<1> SUFFICES ASSUME NEW f \in Fields, NEW input \in Seq(Bytes), NEW x \in Nat, NEW y \in Nat,
                    f.type \in DOMAIN Width \union {"bytes", "magic", "padding"}
             PROVE  FieldSize(f, input, x) = FieldSize(f, input, y)
  BY DEF HasOneSize
<1>1. f.type # "repeated"
  BY TypesAre
<1>2. LeafSize(f, input, x) = LeafSize(f, input, y)
  <2>1. CASE f.type \in DOMAIN Width
    BY <2>1, TypesAre DEF LeafSize
  <2>2. CASE f.type \in {"bytes", "magic", "padding"}
    BY <2>2, TypesAre DEF LeafSize
  <2> QED BY <2>1, <2>2
<1> QED BY <1>1, <1>2, LeafIsSized DEF FieldSize

(* If all of them but the first do, what collect_mutable takes for the     *)
(* size of a row of fields is its size.                                    *)
LEMMA SizesAtIsRow ==
  ASSUME NEW input \in Seq(Bytes), NEW fs \in Seq(Fields), NEW x \in Nat,
         \A k \in DOMAIN fs : k > 1 => HasOneSize(fs[k])
  PROVE  RowEnd(input, fs, x) = x + SizesAt(fs, input, x)
<1> DEFINE n == Len(fs)
           s == Each(Sizes(input), fs)
           e == Ends(s, x)
           t == [k \in DOMAIN fs |-> FieldSize(fs[k], input, x)]
<1>1. n \in Nat /\ DOMAIN fs = 1 .. n /\ \A k \in 1 .. n : fs[k] \in Fields
  BY SeqBasics
<1>2. \A f \in Fields, y \in Nat : FieldSize(f, input, y) \in Nat
  <2> TAKE f \in Fields, y \in Nat
  <2>1. Sizes(input)[f] \in [Nat -> Nat]
    BY SizesAre
  <2> QED BY <2>1 DEF FieldSize
<1>3. t \in Seq(Nat) /\ Len(t) = n /\ \A k \in 1 .. n : t[k] = FieldSize(fs[k], input, x)
  <2>1. t = [k \in 1 .. n |-> FieldSize(fs[k], input, x)]
    BY <1>1
  <2>2. t \in [1 .. n -> Nat]
    BY <1>1, <1>2, <2>1
  <2> HIDE DEF t
  <2> QED BY <1>1, <2>1, <2>2
<1>4. SizesAt(fs, input, x) = Total(t)
  BY DEF SizesAt
<1>5. /\ s \in Seq([Nat -> Nat]) /\ Len(s) = n
      /\ \A k \in 1 .. n : s[k] = Sizes(input)[fs[k]]
  BY <1>1, SizesOf
<1>6. RowEnd(input, fs, x) = e[n]
  BY DEF RowEnd
<1> HIDE DEF t, s
<1>7. /\ e \in [0 .. n -> Nat] /\ e[0] = x
      /\ \A k \in 1 .. n : e[k] = e[k - 1] + s[k][e[k - 1]]
  <2>1. /\ Ends(s, x) \in [0 .. Len(s) -> Nat] /\ Ends(s, x)[0] = x
        /\ \A k \in 1 .. Len(s) :
             Ends(s, x)[k] = Ends(s, x)[k - 1] + s[k][Ends(s, x)[k - 1]]
    BY <1>5, EndsAre
  <2> HIDE DEF e
  <2> QED BY <1>5, <2>1 DEF e
<1>8. PICK sum : Sums(sum, t)
  BY <1>3, TotalIs
<1>9. /\ sum \in [0 .. n -> Nat] /\ sum[0] = 0 /\ Total(t) = sum[n]
      /\ \A k \in 1 .. n : sum[k] = sum[k - 1] + t[k]
  BY <1>3, <1>8 DEF Sums
<1> HIDE DEF e, n
<1>10. ASSUME NEW k \in 1 .. n PROVE s[k][e[k - 1]] = t[k] /\ t[k] \in Nat
  <2>1. k - 1 \in 0 .. n /\ e[k - 1] \in Nat
    BY <1>1, <1>7
  <2>2. s[k][e[k - 1]] = FieldSize(fs[k], input, e[k - 1])
    BY <1>5 DEF FieldSize
  <2>3. k = 1 => e[k - 1] = x
    BY <1>7
  <2>4. k > 1 => HasOneSize(fs[k])
    BY <1>1
  <2>5. FieldSize(fs[k], input, e[k - 1]) = FieldSize(fs[k], input, x)
    BY <1>1, <2>1, <2>3, <2>4 DEF HasOneSize
  <2> QED BY <1>1, <1>2, <1>3, <2>2, <2>5
<1> DEFINE G == {k \in 0 .. n : e[k] = x + sum[k]}
<1>11. \A k \in 0 .. n : k \in G
  <2>1. 0 \in G
    BY <1>1, <1>7, <1>9
  <2>2. ASSUME NEW k \in 1 .. n, k - 1 \in G PROVE k \in G
    <3>1. k \in 0 .. n /\ k - 1 \in 0 .. n
      BY <1>1
    <3> DEFINE d == sum[k - 1]
               c == e[k - 1]
    <3>2. c = x + d /\ d \in Nat
      BY <1>9, <2>2, <3>1
    <3>3. e[k] = c + t[k] /\ sum[k] = d + t[k] /\ t[k] \in Nat
      BY <1>7, <1>9, <1>10
    <3> HIDE DEF c, d
    <3>4. e[k] = x + sum[k]
      BY <3>2, <3>3
    <3> QED BY <3>1, <3>4
  <2> HIDE DEF G
  <2> QED BY <1>1, <2>1, <2>2, UpTo
<1>12. e[n] = x + sum[n]
  <2>1. n \in 0 .. n
    BY <1>1
  <2>2. n \in G
    <3> HIDE DEF G
    <3> QED BY <1>11, <2>1
  <2> QED BY <2>2
<1> QED BY <1>4, <1>6, <1>9, <1>12 DEF n

(* A field written out ends where it ends, and holds the same places.      *)
Stands(input, places, leaves, f) ==
  \A x \in Nat : /\ RowEnd(input, leaves[f], x) = x + Sizes(input)[f][x]
                 /\ Found(input, places, leaves[f], x) = places[f][x]

LEMMA RowStands ==
  ASSUME NEW input \in Seq(Bytes), NEW places, PlacesOf(input, places),
         NEW leaves, LeavesOf(leaves), NEW z \in Seq(Fields), NEW base \in Nat,
         \A k \in DOMAIN z : Stands(input, places, leaves, z[k])
  PROVE  /\ RowEnd(input, FlattenSeq(Each(leaves, z)), base) = RowEnd(input, z, base)
         /\ Found(input, places, FlattenSeq(Each(leaves, z)), base)
              = Found(input, places, z, base)
<1> DEFINE n == Len(z)
           s == Each(Sizes(input), z)
           e == Ends(s, base)
           seqs == Each(leaves, z)
           found == Each(places, z)
<1>1. n \in Nat /\ DOMAIN z = 1 .. n /\ \A k \in 1 .. n : z[k] \in Fields
  BY SeqBasics
<1>2. s \in Seq([Nat -> Nat]) /\ Len(s) = n /\ \A k \in 1 .. n : s[k] = Sizes(input)[z[k]]
  BY <1>1, SizesOf
<1>3. /\ seqs \in Seq(Seq(Fields)) /\ Len(seqs) = n
      /\ \A k \in 1 .. n : seqs[k] = leaves[z[k]]
  <2> DEFINE V == Seq(Fields)
  <2>1. Gives(leaves, V)
    BY DEF Gives, LeavesOf
  <2> HIDE DEF V
  <2>2. /\ Each(leaves, z) \in Seq(V) /\ Len(Each(leaves, z)) = Len(z)
        /\ \A k \in 1 .. Len(z) : Each(leaves, z)[k] = leaves[z[k]]
    BY <2>1, EachOfRow
  <2> QED BY <2>2 DEF V
<1>4. DOMAIN found = 1 .. n /\ \A k \in 1 .. n : found[k] = places[z[k]]
  BY <1>1 DEF Each
<1>5. RowEnd(input, z, base) = e[n]
  BY DEF RowEnd
<1>6. Found(input, places, z, base) = UNION {found[k][e[k - 1]] : k \in 1 .. n}
  BY <1>4 DEF Found, InRow
<1> HIDE DEF s, seqs, found
<1>7. /\ e \in [0 .. n -> Nat] /\ e[0] = base
      /\ \A k \in 1 .. n : e[k] = e[k - 1] + s[k][e[k - 1]]
  <2>1. /\ Ends(s, base) \in [0 .. Len(s) -> Nat] /\ Ends(s, base)[0] = base
        /\ \A k \in 1 .. Len(s) :
             Ends(s, base)[k] = Ends(s, base)[k - 1] + s[k][Ends(s, base)[k - 1]]
    BY <1>2, EndsAre
  <2> HIDE DEF e
  <2> QED BY <1>2, <2>1 DEF e
<1> HIDE DEF e, n
<1>8. ASSUME NEW k \in 1 .. n
      PROVE  /\ e[k] = RowEnd(input, seqs[k], e[k - 1])
             /\ found[k][e[k - 1]] = Found(input, places, seqs[k], e[k - 1])
  <2>1. k - 1 \in 0 .. n /\ e[k - 1] \in Nat
    BY <1>1, <1>7
  <2>2. Stands(input, places, leaves, z[k])
    BY <1>1
  <2>3. /\ RowEnd(input, leaves[z[k]], e[k - 1]) = e[k - 1] + Sizes(input)[z[k]][e[k - 1]]
        /\ Found(input, places, leaves[z[k]], e[k - 1]) = places[z[k]][e[k - 1]]
    BY <2>1, <2>2 DEF Stands
  <2> QED BY <1>2, <1>3, <1>4, <1>7, <2>3
<1>9. Chains(e, input, seqs, base)
  BY <1>3, <1>7, <1>8 DEF Chains
<1>10. /\ RowEnd(input, FlattenSeq(seqs), base) = e[n]
       /\ Found(input, places, FlattenSeq(seqs), base) =
            UNION {Found(input, places, seqs[k], e[k - 1]) : k \in 1 .. n}
  <2>1. /\ RowEnd(input, FlattenSeq(seqs), base) = e[Len(seqs)]
        /\ Found(input, places, FlattenSeq(seqs), base) = FoundAlong(e, input, places, seqs)
    BY <1>3, <1>9, RowOfRows
  <2> QED BY <1>3, <2>1 DEF FoundAlong
<1>11. {Found(input, places, seqs[k], e[k - 1]) : k \in 1 .. n}
         = {found[k][e[k - 1]] : k \in 1 .. n}
  BY <1>8
<1> QED BY <1>5, <1>6, <1>10, <1>11 DEF seqs

(* The copies of a repeated field, all but the first of its sub-fields     *)
(* being of one size each: its places are those of its copies in a row.    *)
LEMMA CopiesStand ==
  ASSUME NEW input \in Seq(Bytes), NEW places, PlacesOf(input, places),
         NEW f \in Fields, f.type = "repeated", f.mutable, NEW x \in Nat,
         \A k \in DOMAIN f.fields : k > 1 => HasOneSize(f.fields[k])
  PROVE  Found(input, places, Unrolled(f), x) = places[f][x]
<1> DEFINE m == f.length
           fs == f.fields
           c == Copies(f, input, x)
           seqs == [n \in 1 .. m |-> fs]
           e == [n \in 0 .. m |-> IF n = 0 THEN x ELSE RowEnd(input, fs, c[n])]
<1>1. m \in Nat /\ fs \in Seq(Fields)
  BY FieldIs
<1>2. seqs \in Seq(Seq(Fields)) /\ Len(seqs) = m /\ Unrolled(f) = FlattenSeq(seqs)
  BY CopiesOf DEF Unrolled
<1>3. \A n \in 1 .. m : seqs[n] = fs
  OBVIOUS
<1> HIDE DEF seqs
<1>4. /\ c \in [1 .. m -> Nat]
      /\ \A n \in 1 .. m : c[n] = IF n = 1 THEN x
                                  ELSE c[n - 1] + SizesAt(fs, input, c[n - 1])
  BY CopiesAre
<1>5. places[f][x] = UNION {Found(input, places, fs, c[n]) : n \in 1 .. m}
  <2>1. places[f] = PlacesBody(input, f, Each(places, fs))
    BY DEF PlacesOf
  <2>2. places[f][x] = UNION {InRow(Each(places, fs), Each(Sizes(input), fs), c[n]) :
                                n \in 1 .. m}
    BY <2>1 DEF PlacesBody
  <2> QED BY <2>2 DEF Found
<1>6. \A y \in Nat : RowEnd(input, fs, y) \in Nat
  <2> HIDE DEF fs
  <2> QED BY <1>1, RowOfConcat, RowsOfFields
<1>7. \A y \in Nat : RowEnd(input, fs, y) = y + SizesAt(fs, input, y)
  BY <1>1, SizesAtIsRow
<1> HIDE DEF fs, m, c
<1>8. e \in [0 .. m -> Nat] /\ e[0] = x /\ \A n \in 1 .. m : e[n] = RowEnd(input, fs, c[n])
  <2>1. ASSUME NEW n \in 0 .. m
        PROVE  (IF n = 0 THEN x ELSE RowEnd(input, fs, c[n])) \in Nat
    <3>1. n # 0 => n \in 1 .. m
      BY <1>1
    <3> QED BY <1>4, <1>6, <3>1
  <2>2. 0 \in 0 .. m /\ \A n \in 1 .. m : n \in 0 .. m /\ n # 0
    BY <1>1
  <2> QED BY <2>1, <2>2
<1> HIDE DEF e
<1>9. ASSUME NEW n \in 1 .. m PROVE e[n - 1] = c[n]
  <2>1. CASE n = 1
    BY <1>4, <1>8, <2>1
  <2>2. CASE n # 1
    <3>1. n - 1 \in 1 .. m
      BY <1>1, <2>2
    <3>2. c[n] = c[n - 1] + SizesAt(fs, input, c[n - 1]) /\ c[n - 1] \in Nat
      BY <1>4, <2>2, <3>1
    <3>3. e[n - 1] = RowEnd(input, fs, c[n - 1])
      BY <1>8, <3>1
    <3> QED BY <1>7, <3>2, <3>3
  <2> QED BY <2>1, <2>2
<1>10. Chains(e, input, seqs, x)
  BY <1>2, <1>3, <1>8, <1>9 DEF Chains
<1>11. Found(input, places, FlattenSeq(seqs), x) = FoundAlong(e, input, places, seqs)
  BY <1>2, <1>10, RowOfRows
<1>12. {Found(input, places, seqs[k], e[k - 1]) : k \in 1 .. m}
         = {Found(input, places, fs, c[n]) : n \in 1 .. m}
  BY <1>3, <1>9
<1> QED BY <1>2, <1>5, <1>11, <1>12 DEF FoundAlong

(* Fields in whose repeated fields, however deep, only the first sub-field *)
(* has a size that varies.                                                 *)
AreRegular(A) ==
  /\ A \subseteq Fields
  /\ \A f \in A : f.type = "repeated" /\ f.mutable =>
       \A k \in DOMAIN f.fields : /\ f.fields[k] \in A
                                  /\ k > 1 => HasOneSize(f.fields[k])

LEMMA RegularStand ==
  ASSUME NEW A, AreRegular(A), NEW input \in Seq(Bytes), NEW places, PlacesOf(input, places),
         NEW leaves, LeavesOf(leaves)
  PROVE  \A f \in A : Stands(input, places, leaves, f)
<1> DEFINE G == {f \in Fields : f \in A => Stands(input, places, leaves, f)}
<1>1. ASSUME NEW f \in Fields, \A k \in DOMAIN f.fields : f.fields[k] \in G, f \in A
      PROVE  Stands(input, places, leaves, f)
  <2>1. leaves[f] = LeavesBody(f, Each(leaves, Unrolled(f)))
    BY DEF LeavesOf
  <2>2. CASE ~(f.type = "repeated" /\ f.mutable)
    <3>1. leaves[f] = <<f>>
      BY <2>1, <2>2 DEF LeavesBody
    <3> QED BY <3>1, SmallRows DEF Stands
  <2>3. CASE f.type = "repeated" /\ f.mutable
    <3> DEFINE u == Unrolled(f)
               s == Each(Sizes(input), u)
    <3>1. leaves[f] = FlattenSeq(Each(leaves, u))
      BY <2>1, <2>3 DEF LeavesBody
    <3>2. u \in Seq(Fields) /\ \A k \in DOMAIN u : \E j \in DOMAIN f.fields : u[k] = f.fields[j]
      BY UnrolledIs
    <3>3. \A j \in DOMAIN f.fields : f.fields[j] \in A /\ (j > 1 => HasOneSize(f.fields[j]))
      BY <1>1, <2>3 DEF AreRegular
    <3>4. \A k \in DOMAIN u : Stands(input, places, leaves, u[k])
      <4> HIDE DEF u
      <4> QED BY <1>1, <3>2, <3>3
    <3>5. ASSUME NEW x \in Nat
          PROVE  /\ RowEnd(input, leaves[f], x) = x + Sizes(input)[f][x]
                 /\ Found(input, places, leaves[f], x) = places[f][x]
      <4>1. /\ RowEnd(input, leaves[f], x) = RowEnd(input, u, x)
            /\ Found(input, places, leaves[f], x) = Found(input, places, u, x)
        <5> HIDE DEF u
        <5> QED BY <3>1, <3>2, <3>4, RowStands
      <4>2. Found(input, places, u, x) = places[f][x]
        BY <2>3, <3>3, CopiesStand
      <4>3. RowEnd(input, u, x) = x + Sizes(input)[f][x]
        <5>1. Sizes(input)[f] = SizeBody(input, f, s)
          BY SizesAre
        <5>2. Sizes(input)[f][x] = RowEnd(input, u, x) - x
          BY <2>3, <5>1 DEF SizeBody, RowEnd
        <5>3. RowEnd(input, u, x) \in Nat
          <6> HIDE DEF u
          <6> QED BY <3>2, RowOfConcat, RowsOfFields
        <5> QED BY <5>2, <5>3
      <4> QED BY <4>1, <4>2, <4>3
    <3> QED BY <3>5 DEF Stands
  <2> QED BY <2>2, <2>3
<1>2. Fields \subseteq G
  <2>1. ASSUME NEW f \in Fields, \A k \in DOMAIN f.fields : f.fields[k] \in G PROVE f \in G
    BY <1>1, <2>1
  <2> HIDE DEF G
  <2> QED BY <2>1, FieldInduction
<1> QED BY <1>2 DEF AreRegular

LEMMA CopiesHold ==
  ASSUME NEW A, AreRegular(A), Files \subseteq Seq(A), Inv,
         fields \in Files \/ fields = InferSchema(samples)
  PROVE  CopiesAreFields
<1> DEFINE B == A \union {f \in Fields : f.type # "repeated"}
<1>1. AreRegular(B)
  BY DEF AreRegular
<1>2. fields \in Seq(B)
  <2>1. CASE fields \in Files
    <3>1. fields \in Seq(A)
      BY <2>1
    <3> HIDE DEF B
    <3> QED BY <3>1 DEF B
  <2>2. CASE fields = InferSchema(samples)
    <3>1. fields \in Seq(Inferred)
      BY <2>2, InferSchemaIs DEF Inv
    <3>2. Inferred \subseteq B
      BY DEF Inferred
    <3> HIDE DEF B
    <3> QED BY <3>1, <3>2
  <2> QED BY <2>1, <2>2
<1>3. message \in Seq(Bytes) /\ fields \in Seq(Fields)
  BY DEF Inv, TypeOK
<1>4. PICK places :
        /\ PlacesOf(message, places)
        /\ \A fs, base : Locations(message, fs, base) =
                           InRow(Each(places, fs), Each(Sizes(message), fs), base)
  BY <1>3, LocationsAre
<1>5. PICK leaves : LeavesOf(leaves) /\ \A fs : WrittenOut(fs) = FlattenSeq(Each(leaves, fs))
  BY WrittenOutIs
<1> HIDE DEF B
<1>6. \A k \in DOMAIN fields : Stands(message, places, leaves, fields[k])
  <2>1. \A k \in DOMAIN fields : fields[k] \in B
    BY <1>2, SeqBasics
  <2> QED BY <1>1, <1>3, <1>4, <1>5, <2>1, RegularStand
<1>7. Found(message, places, FlattenSeq(Each(leaves, fields)), 0)
        = Found(message, places, fields, 0)
  BY <1>3, <1>4, <1>5, <1>6, RowStands
<1>8. /\ Locations(message, fields, 0) = Found(message, places, fields, 0)
      /\ Locations(message, WrittenOut(fields), 0)
           = Found(message, places, WrittenOut(fields), 0)
  BY <1>4 DEF Found
<1> QED BY <1>5, <1>7, <1>8 DEF CopiesAreFields

(* If in the repeated fields of the schema files only the first sub-field  *)
(* has a size that varies, then a repeated field stands for its copies one *)
(* after the other in every message mutations lead to, whatever lengths    *)
(* they made it announce.  Without the condition it does not:              *)
(* collect_mutable adds up the sizes the sub-fields would have if each of  *)
(* them began where the copy does.                                         *)
THEOREM LayoutStays ==
  ASSUME NEW A, AreRegular(A), Files \subseteq Seq(A)
  PROVE  Spec => []LayoutIsStable
<1> DEFINE J == fields \in Files \/ fields = InferSchema(samples)
<1>1. Init => J
  BY DEF Init
<1>2. J /\ [Next]_vars => J'
  BY DEF Next, Mutate, vars
<1>3. Inv /\ J => LayoutIsStable
  BY CopiesHold DEF Inv, LayoutIsStable
<1> HIDE DEF J
<1> QED BY <1>1, <1>2, <1>3, Invariance, PTL DEF Spec

-----------------------------------------------------------------------------
(* Where the bytes of a generated message are                              *)

LEMMA Within ==
  ASSUME NEW a \in Nat, NEW l \in Nat, NEW j \in 1 .. l, NEW d \in Nat, a + l <= d
  PROVE  a + j \in 1 .. d
OBVIOUS

LEMMA Behind ==
  ASSUME NEW a \in Nat, NEW l \in Nat, NEW j \in 1 .. l, NEW d \in Nat, d <= a
  PROVE  d < a + j
OBVIOUS

(* Where each of the sequences begins in the sequence of all. *)
Offsets(c, seqs) ==
  /\ c \in [0 .. Len(seqs) -> Nat] /\ c[0] = 0
  /\ \A k \in 1 .. Len(seqs) : c[k] = c[k - 1] + Len(seqs[k])

LEMMA OffsetsAre ==
  ASSUME NEW S, NEW seqs \in Seq(Seq(S)), NEW flat, Flattens(flat, seqs, S)
  PROVE  Offsets([k \in 0 .. Len(seqs) |-> Len(flat[k])], seqs)
<1> DEFINE n == Len(seqs)
           V == Seq(S)
           len == [k \in 0 .. n |-> Len(flat[k])]
<1>1. n \in Nat /\ \A k \in 1 .. n : seqs[k] \in V
  BY SeqBasics
<1>2. /\ flat \in [0 .. n -> V] /\ flat[0] = <<>>
      /\ \A k \in 1 .. n : flat[k] = flat[k - 1] \o seqs[k]
  BY DEF Flattens
<1>3. /\ \A x \in V : Len(x) \in Nat
      /\ \A x, y \in V : Len(x \o y) = Len(x) + Len(y)
  OBVIOUS
<1>4. Len(<<>>) = 0
  OBVIOUS
<1> HIDE DEF n, V
<1>5. \A k \in 1 .. n : k \in 0 .. n /\ k - 1 \in 0 .. n
  BY <1>1
<1>6. len \in [0 .. n -> Nat] /\ len[0] = 0 /\ \A k \in 0 .. n : Len(flat[k]) = len[k]
  <2>1. 0 \in 0 .. n
    BY <1>1
  <2> QED BY <1>2, <1>3, <1>4, <2>1
<1> HIDE DEF len
<1>7. \A k \in 1 .. n : len[k] = len[k - 1] + Len(seqs[k])
  <2> TAKE k \in 1 .. n
  <2> DEFINE x == flat[k - 1]
             y == seqs[k]
  <2>1. x \in V /\ y \in V /\ Len(x) = len[k - 1] /\ Len(flat[k]) = len[k]
    BY <1>1, <1>2, <1>5, <1>6
  <2>2. flat[k] = x \o y
    BY <1>2
  <2> HIDE DEF x, y
  <2>3. Len(x \o y) = Len(x) + Len(y)
    BY <1>3, <2>1
  <2> QED BY <2>1, <2>2, <2>3 DEF y
<1>8. Offsets(len, seqs)
  BY <1>6, <1>7 DEF Offsets, n
<1> QED BY <1>8 DEF len, n

LEMMA HasOffsets ==
  ASSUME NEW S, NEW seqs \in Seq(Seq(S))
  PROVE  \E c : Offsets(c, seqs)
<1>1. PICK flat : Flattens(flat, seqs, S)
  BY FlattenIs
<1> QED BY <1>1, OffsetsAre

(* Each place in the sequence of all is one of a sequence. *)
Covers(c, seqs) ==
  \A i \in 1 .. Len(FlattenSeq(seqs)) :
    \E k \in 1 .. Len(seqs) : \E j \in 1 .. Len(seqs[k]) : i = c[k - 1] + j

(* Where the elements of the sequences are in the sequence of all. *)
LEMMA FlatIndex ==
  ASSUME NEW S, NEW seqs \in Seq(Seq(S)), NEW c, Offsets(c, seqs)
  PROVE  /\ Len(FlattenSeq(seqs)) = c[Len(seqs)]
         /\ \A j, k \in 0 .. Len(seqs) : j <= k => c[j] <= c[k]
         /\ \A k \in 1 .. Len(seqs) : \A j \in 1 .. Len(seqs[k]) :
              FlattenSeq(seqs)[c[k - 1] + j] = seqs[k][j]
         /\ Covers(c, seqs)
<1> DEFINE n == Len(seqs)
           V == Seq(S)
<1>1. n \in Nat /\ \A k \in 1 .. n : seqs[k] \in V
  BY SeqBasics
<1>2. PICK flat : Flattens(flat, seqs, S)
  BY FlattenIs
<1>3. /\ flat \in [0 .. n -> V] /\ flat[0] = <<>>
      /\ \A k \in 1 .. n : flat[k] = flat[k - 1] \o seqs[k]
      /\ FlattenSeq(seqs) = flat[n]
  BY <1>2 DEF Flattens
<1>4. /\ \A x \in V : Len(x) \in Nat
      /\ \A x, y \in V : /\ Len(x \o y) = Len(x) + Len(y)
                         /\ \A k \in 1 .. Len(x) : (x \o y)[k] = x[k]
                         /\ \A k \in 1 .. Len(y) : (x \o y)[Len(x) + k] = y[k]
  OBVIOUS
<1>5. c \in [0 .. n -> Nat] /\ c[0] = 0 /\ \A k \in 1 .. n : c[k] = c[k - 1] + Len(seqs[k])
  BY DEF Offsets
<1> DEFINE len == [k \in 0 .. n |-> Len(flat[k])]
<1>6. /\ len[0] = 0
       /\ \A k \in 1 .. n : len[k] = len[k - 1] + Len(seqs[k])
  <2> HIDE DEF len
  <2>1. Offsets(len, seqs)
    BY <1>2, OffsetsAre DEF len
  <2> QED BY <2>1 DEF Offsets
<1>7. \A k \in 0 .. n : Len(flat[k]) = len[k]
  OBVIOUS
<1> HIDE DEF n, V, len
<1>8. \A k \in 1 .. n : k \in 0 .. n /\ k - 1 \in 0 .. n
  BY <1>1
<1>9. \A k \in 0 .. n : c[k] = len[k]
  <2> DEFINE G == {k \in 0 .. n : c[k] = len[k]}
  <2>1. 0 \in G
    BY <1>1, <1>5, <1>6
  <2>2. ASSUME NEW k \in 1 .. n, k - 1 \in G PROVE k \in G
    BY <1>5, <1>8, <1>6, <2>2
  <2>3. \A k \in 0 .. n : k \in G
    <3> HIDE DEF G
    <3> QED BY <1>1, <2>1, <2>2, UpTo
  <2> QED BY <2>3
<1>10. \A k \in 0 .. n : Len(flat[k]) = c[k] /\ c[k] \in Nat
  BY <1>5, <1>7, <1>9
<1>11. \A k \in 1 .. n : Len(seqs[k]) \in Nat /\ c[k] = c[k - 1] + Len(seqs[k])
  BY <1>1, <1>4, <1>5
<1>12. ASSUME NEW k \in 1 .. n
      PROVE  /\ \A i \in 1 .. c[k - 1] : flat[k][i] = flat[k - 1][i]
             /\ \A j \in 1 .. Len(seqs[k]) : flat[k][c[k - 1] + j] = seqs[k][j]
  <2> DEFINE x == flat[k - 1]
             y == seqs[k]
  <2>1. x \in V /\ y \in V /\ Len(x) = c[k - 1]
    BY <1>1, <1>3, <1>8, <1>10
  <2>2. flat[k] = x \o y
    BY <1>3
  <2> HIDE DEF x, y
  <2>3. /\ \A i \in 1 .. Len(x) : (x \o y)[i] = x[i]
        /\ \A j \in 1 .. Len(y) : (x \o y)[Len(x) + j] = y[j]
    BY <1>4, <2>1
  <2> QED BY <2>1, <2>2, <2>3 DEF x, y
<1>13. \A j, k \in 0 .. n : j <= k => c[j] <= c[k]
  <2> DEFINE G == {k \in 0 .. n : \A j \in 0 .. k : c[j] <= c[k]}
  <2>1. \A k \in 0 .. n : k \in G
    <3>1. 0 \in G
      BY <1>1, <1>10
    <3>2. ASSUME NEW k \in 1 .. n, k - 1 \in G PROVE k \in G
      <4>1. c[k - 1] <= c[k]
        <5>1. c[k - 1] \in Nat /\ Len(seqs[k]) \in Nat
          BY <1>8, <1>10, <1>11
        <5>2. c[k] = c[k - 1] + Len(seqs[k])
          BY <1>11
        <5> QED BY <5>1, <5>2
      <4>2. ASSUME NEW j \in 0 .. k PROVE c[j] <= c[k]
        <5>1. CASE j = k
          BY <1>8, <1>10, <5>1
        <5>2. CASE j # k
          <6>1. j \in 0 .. k - 1
            BY <5>2
          <6>2. c[j] <= c[k - 1]
            BY <3>2, <6>1
          <6>3. j \in 0 .. n
            BY <1>1, <6>1
          <6> QED BY <1>8, <1>10, <4>1, <6>2, <6>3
        <5> QED BY <5>1, <5>2
      <4> QED BY <1>8, <4>2
    <3> HIDE DEF G
    <3> QED BY <1>1, <3>1, <3>2, UpTo
  <2>2. ASSUME NEW j \in 0 .. n, NEW k \in 0 .. n, j <= k PROVE c[j] <= c[k]
    <3>1. k \in G /\ j \in 0 .. k
      BY <2>1, <2>2
    <3> QED BY <3>1
  <2> QED BY <2>2
<1>14. \A k \in 1 .. n : \A j \in 1 .. Len(seqs[k]) : flat[n][c[k - 1] + j] = seqs[k][j]
  <2> DEFINE Right(m) == \A k \in 1 .. m : \A j \in 1 .. Len(seqs[k]) :
                           flat[m][c[k - 1] + j] = seqs[k][j]
             G == {m \in 0 .. n : Right(m)}
  <2>1. 0 \in G
    BY <1>1
  <2>2. ASSUME NEW m \in 1 .. n, m - 1 \in G PROVE m \in G
    <3>1. ASSUME NEW k \in 1 .. m, NEW j \in 1 .. Len(seqs[k])
          PROVE  flat[m][c[k - 1] + j] = seqs[k][j]
      <4>1. CASE k = m
        BY <1>12, <4>1
      <4>2. CASE k # m
        <5>1. k \in 1 .. m - 1 /\ k \in 1 .. n /\ k \in 0 .. n
          BY <1>1, <4>2
        <5>2. flat[m - 1][c[k - 1] + j] = seqs[k][j]
          BY <2>2, <5>1
        <5>3. k <= m - 1 /\ m - 1 \in 0 .. n
          BY <1>1, <5>1
        <5>4. c[k] <= c[m - 1]
          BY <1>13, <5>1, <5>3
        <5>5. c[k] = c[k - 1] + Len(seqs[k]) /\ c[k - 1] \in Nat /\ c[k] \in Nat
          BY <1>8, <1>10, <1>11, <5>1
        <5>6. c[k - 1] + j \in 1 .. c[m - 1]
          <6>1. c[m - 1] \in Nat /\ Len(seqs[k]) \in Nat
            BY <1>10, <1>11, <5>1, <5>3
          <6>2. c[k - 1] + Len(seqs[k]) <= c[m - 1]
            BY <5>4, <5>5
          <6> QED BY <5>5, <6>1, <6>2, Within
        <5> QED BY <1>12, <5>2, <5>6
      <4> QED BY <4>1, <4>2
    <3> QED BY <1>8, <3>1
  <2>3. \A m \in 0 .. n : m \in G
    <3> HIDE DEF G
    <3> QED BY <1>1, <2>1, <2>2, UpTo
  <2>4. n \in 0 .. n
    BY <1>1
  <2>5. n \in G
    <3> HIDE DEF G
    <3> QED BY <2>3, <2>4
  <2> QED BY <2>5
<1>15. \A i \in 1 .. c[n] : \E k \in 1 .. n : \E j \in 1 .. Len(seqs[k]) : i = c[k - 1] + j
  <2> DEFINE Right(m) == \A i \in 1 .. c[m] :
                           \E k \in 1 .. n : \E j \in 1 .. Len(seqs[k]) : i = c[k - 1] + j
             G == {m \in 0 .. n : Right(m)}
  <2>1. 0 \in G
    BY <1>1, <1>5
  <2>2. ASSUME NEW m \in 1 .. n, m - 1 \in G PROVE m \in G
    <3>1. ASSUME NEW i \in 1 .. c[m]
          PROVE  \E k \in 1 .. n : \E j \in 1 .. Len(seqs[k]) : i = c[k - 1] + j
      <4> DEFINE a == c[m - 1]
      <4>1. a \in Nat /\ c[m] = a + Len(seqs[m]) /\ Len(seqs[m]) \in Nat
        BY <1>8, <1>10, <1>11
      <4>2. CASE i <= a
        <5>1. i \in 1 .. a
          BY <4>1, <4>2
        <5> QED BY <2>2, <5>1
      <4>3. CASE i > a
        <5> HIDE DEF a
        <5>1. i - a \in 1 .. Len(seqs[m]) /\ i = a + (i - a)
          BY <4>1, <4>3
        <5> QED BY <5>1 DEF a
      <4> QED BY <4>1, <4>2, <4>3
    <3> QED BY <1>8, <3>1
  <2>3. \A m \in 0 .. n : m \in G
    <3> HIDE DEF G
    <3> QED BY <1>1, <2>1, <2>2, UpTo
  <2>4. n \in 0 .. n
    BY <1>1
  <2>5. n \in G
    <3> HIDE DEF G
    <3> QED BY <2>3, <2>4
  <2> QED BY <2>5
<1>16. n \in 0 .. n
  BY <1>1
<1>17. Len(FlattenSeq(seqs)) = c[n]
  BY <1>3, <1>10, <1>16
<1>18. \A k \in 1 .. n : \A j \in 1 .. Len(seqs[k]) : FlattenSeq(seqs)[c[k - 1] + j] = seqs[k][j]
  BY <1>3, <1>14
<1>19. Covers(c, seqs)
  BY <1>15, <1>17 DEF Covers, n
<1> QED BY <1>13, <1>17, <1>18, <1>19 DEF n

LEMMA FlattenOfOne ==
  ASSUME NEW S, NEW x \in Seq(S)
  PROVE  FlattenSeq(<<x>>) = x
<1> DEFINE s == <<x>>
<1>1. s \in Seq(Seq(S)) /\ Len(s) = 1 /\ s[1] = x
  OBVIOUS
<1> HIDE DEF s
<1>2. PICK flat : Flattens(flat, s, S)
  BY <1>1, FlattenIs
<1>3. 1 \in 1 .. Len(s) /\ 1 - 1 = 0
  BY <1>1
<1>4. flat[1] = flat[0] \o s[1] /\ flat[0] = <<>> /\ FlattenSeq(s) = flat[1]
  BY <1>1, <1>2, <1>3 DEF Flattens
<1>5. <<>> \o x = x
  OBVIOUS
<1> QED BY <1>1, <1>4, <1>5 DEF s

(* Concatenation in a set of sequences, named to be cited. *)
Associates(V) ==
  /\ \A x \in V : x \o <<>> = x
  /\ \A x, y, z \in V : (x \o y) \o z = x \o (y \o z)

LEMMA SeqAssociates == ASSUME NEW S PROVE Associates(Seq(S))
<1>1. ASSUME NEW x \in Seq(S) PROVE x \o <<>> = x
  BY ConcatEmptySeq, SMT
<1>2. ASSUME NEW x \in Seq(S), NEW y \in Seq(S), NEW z \in Seq(S)
      PROVE  (x \o y) \o z = x \o (y \o z)
  BY ConcatAssociative, SMT
<1> QED BY <1>1, <1>2 DEF Associates

LEMMA FlattenOfConcat ==
  ASSUME NEW S, NEW s \in Seq(Seq(S)), NEW t \in Seq(Seq(S))
  PROVE  FlattenSeq(s \o t) = FlattenSeq(s) \o FlattenSeq(t)
<1> DEFINE n == Len(s)
           m == Len(t)
           u == s \o t
           V == Seq(S)
<1>1. /\ n \in Nat /\ m \in Nat
      /\ \A k \in 1 .. n : s[k] \in V
      /\ \A k \in 1 .. m : t[k] \in V
  BY SeqBasics
<1>2. /\ u \in Seq(Seq(S)) /\ Len(u) = n + m
      /\ \A k \in 1 .. n : u[k] = s[k]
      /\ \A k \in 1 .. m : u[n + k] = t[k]
  <2> DEFINE W == Seq(S)
  <2>1. s \in Seq(W) /\ t \in Seq(W)
    OBVIOUS
  <2> HIDE DEF W
  <2>2. /\ s \o t \in Seq(W) /\ Len(s \o t) = Len(s) + Len(t)
        /\ \A k \in 1 .. Len(s) : (s \o t)[k] = s[k]
        /\ \A k \in 1 .. Len(t) : (s \o t)[Len(s) + k] = t[k]
    BY <2>1
  <2> QED BY <2>2 DEF W
<1> HIDE DEF u
<1>3. PICK f : Flattens(f, s, S)
  BY FlattenIs
<1>4. PICK g : Flattens(g, t, S)
  BY FlattenIs
<1>5. PICK h : Flattens(h, u, S)
  BY <1>2, FlattenIs
<1>6. /\ f \in [0 .. n -> V] /\ f[0] = <<>> /\ FlattenSeq(s) = f[n]
      /\ \A k \in 1 .. n : f[k] = f[k - 1] \o s[k]
  BY <1>3 DEF Flattens
<1>7. /\ g \in [0 .. m -> V] /\ g[0] = <<>> /\ FlattenSeq(t) = g[m]
      /\ \A k \in 1 .. m : g[k] = g[k - 1] \o t[k]
  BY <1>4 DEF Flattens
<1>8. /\ h \in [0 .. n + m -> V] /\ h[0] = <<>> /\ FlattenSeq(u) = h[n + m]
      /\ \A k \in 1 .. n + m : h[k] = h[k - 1] \o u[k]
  BY <1>2, <1>5 DEF Flattens
<1>9. /\ \A x \in V : x \o <<>> = x
      /\ \A x, y, z \in V : (x \o y) \o z = x \o (y \o z)
  <2>1. Associates(V)
    BY SeqAssociates
  <2> HIDE DEF V
  <2> QED BY <2>1 DEF Associates
<1> HIDE DEF n, m, V
<1>10. h[n] = f[n]
  <2> DEFINE G == {k \in 0 .. n : h[k] = f[k]}
  <2>1. 0 \in G
    BY <1>1, <1>6, <1>8
  <2>2. ASSUME NEW k \in 1 .. n, k - 1 \in G PROVE k \in G
    <3>1. k \in 0 .. n /\ k \in 1 .. n + m
      BY <1>1
    <3> QED BY <1>2, <1>6, <1>8, <2>2, <3>1
  <2>3. \A k \in 0 .. n : k \in G
    <3> HIDE DEF G
    <3> QED BY <1>1, <2>1, <2>2, UpTo
  <2>4. n \in 0 .. n
    BY <1>1
  <2> QED BY <2>3, <2>4
<1>11. h[n + m] = f[n] \o g[m]
  <2> DEFINE G == {k \in 0 .. m : h[n + k] = f[n] \o g[k]}
  <2>0. f[n] \in V
    BY <1>1, <1>6
  <2>1. 0 \in G
    <3>1. n + 0 = n /\ 0 \in 0 .. m
      BY <1>1
    <3> QED BY <1>7, <1>9, <1>10, <2>0, <3>1
  <2>2. ASSUME NEW k \in 1 .. m, k - 1 \in G PROVE k \in G
    <3>1. k \in 0 .. m /\ n + k \in 1 .. n + m /\ (n + k) - 1 = n + (k - 1) /\ k - 1 \in 0 .. m
      BY <1>1
    <3>2. h[n + k] = h[n + (k - 1)] \o t[k]
      BY <1>2, <1>8, <3>1
    <3>3. h[n + k] = (f[n] \o g[k - 1]) \o t[k]
      BY <2>2, <3>2
    <3>4. g[k - 1] \in V /\ t[k] \in V
      BY <1>1, <1>7, <3>1
    <3>5. h[n + k] = f[n] \o (g[k - 1] \o t[k])
      BY <1>9, <2>0, <3>3, <3>4
    <3>6. h[n + k] = f[n] \o g[k]
      BY <1>7, <3>5
    <3> QED BY <3>1, <3>6
  <2>3. \A k \in 0 .. m : k \in G
    <3> HIDE DEF G
    <3> QED BY <1>1, <2>1, <2>2, UpTo
  <2>4. m \in 0 .. m
    BY <1>1
  <2> QED BY <2>3, <2>4
<1> QED BY <1>6, <1>7, <1>8, <1>11 DEF u


(* The message of the fields of rows, one row after the other.             *)
LEMMA MessageOfRows ==
  ASSUME NEW msg, MessagesOf(msg), NEW seqs \in Seq(Seq(Fields)),
         NEW rows \in Seq(Seq(Bytes)), Len(rows) = Len(seqs),
         \A k \in 1 .. Len(seqs) : rows[k] = FlattenSeq(Each(msg, seqs[k]))
  PROVE  FlattenSeq(Each(msg, FlattenSeq(seqs))) = FlattenSeq(rows)
<1> DEFINE n == Len(seqs)
           M(x) == FlattenSeq(Each(msg, x))
<1>1. n \in Nat /\ \A k \in 1 .. n : seqs[k] \in Seq(Fields)
  BY SeqBasics
<1>2. PICK flat : Flattens(flat, seqs, Fields)
  BY FlattenIs
<1>3. PICK sum : Flattens(sum, rows, Bytes)
  BY FlattenIs
<1>4. /\ flat \in [0 .. n -> Seq(Fields)] /\ flat[0] = <<>>
      /\ \A k \in 1 .. n : flat[k] = flat[k - 1] \o seqs[k]
      /\ FlattenSeq(seqs) = flat[n]
  BY <1>2 DEF Flattens
<1>5. /\ sum[0] = <<>> /\ FlattenSeq(rows) = sum[n]
      /\ \A k \in 1 .. n : sum[k] = sum[k - 1] \o M(seqs[k])
  BY <1>3 DEF Flattens
<1>6. \A x, y \in Seq(Fields) : M(x \o y) = M(x) \o M(y)
  <2> DEFINE V == Seq(Bytes)
  <2>1. Gives(msg, V)
    BY DEF MessagesOf, Gives
  <2> TAKE x, y \in Seq(Fields)
  <2> HIDE DEF V
  <2>2. Each(msg, x \o y) = Each(msg, x) \o Each(msg, y)
    BY <2>1, EachOfConcat
  <2>3. Each(msg, x) \in Seq(V) /\ Each(msg, y) \in Seq(V)
    BY <2>1, EachOfRow
  <2> QED BY <2>2, <2>3, FlattenOfConcat DEF V
<1>7. M(<<>>) = <<>>
  <2>1. Each(msg, <<>>) = <<>>
    BY DEF Each
  <2> QED BY <2>1 DEF FlattenSeq
<1> HIDE DEF n, M
<1> DEFINE G == {k \in 0 .. n : M(flat[k]) = sum[k]}
<1>8. 0 \in G
  <2>1. 0 \in 0 .. n
    BY <1>1
  <2> QED BY <1>4, <1>5, <1>7, <2>1
<1>9. ASSUME NEW k \in 1 .. n, k - 1 \in G PROVE k \in G
  <2>1. k \in 0 .. n /\ k - 1 \in 0 .. n
    BY <1>1
  <2>2. flat[k - 1] \in Seq(Fields) /\ seqs[k] \in Seq(Fields)
    BY <1>1, <1>4, <2>1
  <2>3. M(flat[k]) = M(flat[k - 1]) \o M(seqs[k])
    BY <1>4, <1>6, <2>2
  <2> QED BY <1>5, <1>9, <2>1, <2>3
<1>10. \A k \in 0 .. n : k \in G
  <2> HIDE DEF G
  <2> QED BY <1>1, <1>8, <1>9, UpTo
<1>11. n \in 0 .. n
  BY <1>1
<1>12. M(flat[n]) = sum[n]
  BY <1>10, <1>11
<1> QED BY <1>4, <1>5, <1>12 DEF M


LEMMA MessagesOfRow ==
  ASSUME NEW msg, MessagesOf(msg), NEW z \in Seq(Fields)
  PROVE  /\ Each(msg, z) \in Seq(Seq(Bytes)) /\ Len(Each(msg, z)) = Len(z)
         /\ \A k \in 1 .. Len(z) : Each(msg, z)[k] = msg[z[k]] /\ msg[z[k]] \in Seq(Bytes)
<1> DEFINE V == Seq(Bytes)
<1>1. Gives(msg, V)
  BY DEF Gives, MessagesOf
<1>2. \A k \in 1 .. Len(z) : msg[z[k]] \in V
  BY SeqBasics DEF MessagesOf
<1> HIDE DEF V
<1>3. /\ Each(msg, z) \in Seq(V) /\ Len(Each(msg, z)) = Len(z)
      /\ \A k \in 1 .. Len(z) : Each(msg, z)[k] = msg[z[k]]
  BY <1>1, EachOfRow
<1> QED BY <1>2, <1>3 DEF V

LEMMA LeavesOfRow ==
  ASSUME NEW leaves, LeavesOf(leaves), NEW z \in Seq(Fields)
  PROVE  /\ Each(leaves, z) \in Seq(Seq(Fields)) /\ Len(Each(leaves, z)) = Len(z)
         /\ \A k \in 1 .. Len(z) : Each(leaves, z)[k] = leaves[z[k]]
<1> DEFINE V == Seq(Fields)
<1>1. Gives(leaves, V)
  BY DEF Gives, LeavesOf
<1> HIDE DEF V
<1>2. /\ Each(leaves, z) \in Seq(V) /\ Len(Each(leaves, z)) = Len(z)
      /\ \A k \in 1 .. Len(z) : Each(leaves, z)[k] = leaves[z[k]]
  BY <1>1, EachOfRow
<1> QED BY <1>2 DEF V

(* A schema and its fields written out generate the same message.          *)
LEMMA RowIsWritten ==
  ASSUME NEW msg, MessagesOf(msg), NEW leaves, LeavesOf(leaves), NEW z \in Seq(Fields),
         \A k \in 1 .. Len(z) : FlattenSeq(Each(msg, leaves[z[k]])) = msg[z[k]]
  PROVE  FlattenSeq(Each(msg, FlattenSeq(Each(leaves, z)))) = FlattenSeq(Each(msg, z))
<1> DEFINE seqs == Each(leaves, z)
           rows == Each(msg, z)
<1>1. /\ seqs \in Seq(Seq(Fields)) /\ Len(seqs) = Len(z)
      /\ \A k \in 1 .. Len(z) : seqs[k] = leaves[z[k]]
  BY LeavesOfRow
<1>2. /\ rows \in Seq(Seq(Bytes)) /\ Len(rows) = Len(z)
      /\ \A k \in 1 .. Len(z) : rows[k] = msg[z[k]]
  BY MessagesOfRow
<1> HIDE DEF seqs, rows
<1>3. \A k \in 1 .. Len(seqs) : rows[k] = FlattenSeq(Each(msg, seqs[k]))
  BY <1>1, <1>2
<1>4. FlattenSeq(Each(msg, FlattenSeq(seqs))) = FlattenSeq(rows)
  BY <1>1, <1>2, <1>3, MessageOfRows
<1> QED BY <1>4 DEF seqs, rows

LEMMA LeavesAreWritten ==
  ASSUME NEW msg, MessagesOf(msg), NEW leaves, LeavesOf(leaves)
  PROVE  \A f \in Fields : FlattenSeq(Each(msg, leaves[f])) = msg[f]
<1> DEFINE G == {f \in Fields : FlattenSeq(Each(msg, leaves[f])) = msg[f]}
<1>1. ASSUME NEW f \in Fields, \A k \in DOMAIN f.fields : f.fields[k] \in G
      PROVE  FlattenSeq(Each(msg, leaves[f])) = msg[f]
  <2>1. leaves[f] = LeavesBody(f, Each(leaves, Unrolled(f)))
    BY DEF LeavesOf
  <2>2. CASE ~(f.type = "repeated" /\ f.mutable)
    <3>1. leaves[f] = <<f>>
      BY <2>1, <2>2 DEF LeavesBody
    <3>2. Each(msg, <<f>>) = <<msg[f]>>
      BY DEF Each
    <3>3. msg[f] \in Seq(Bytes)
      BY DEF MessagesOf
    <3> QED BY <3>1, <3>2, <3>3, FlattenOfOne
  <2>3. CASE f.type = "repeated" /\ f.mutable
    <3> DEFINE u == Unrolled(f)
    <3>1. leaves[f] = FlattenSeq(Each(leaves, u))
      BY <2>1, <2>3 DEF LeavesBody
    <3>2. u \in Seq(Fields) /\ \A k \in DOMAIN u : \E j \in DOMAIN f.fields : u[k] = f.fields[j]
      BY UnrolledIs
    <3>3. msg[f] = FlattenSeq(Each(msg, u))
      BY <2>3 DEF MessagesOf, MessageBody
    <3> HIDE DEF u
    <3>4. \A k \in 1 .. Len(u) : u[k] \in G
      BY <1>1, <3>2, SeqBasics
    <3>5. \A k \in 1 .. Len(u) : FlattenSeq(Each(msg, leaves[u[k]])) = msg[u[k]]
      BY <3>4
    <3>6. FlattenSeq(Each(msg, FlattenSeq(Each(leaves, u)))) = FlattenSeq(Each(msg, u))
      BY <3>2, <3>5, RowIsWritten
    <3> QED BY <3>1, <3>3, <3>6
  <2> QED BY <2>2, <2>3
<1>2. Fields \subseteq G
  <2>1. ASSUME NEW f \in Fields, \A k \in DOMAIN f.fields : f.fields[k] \in G PROVE f \in G
    BY <1>1, <2>1
  <2> HIDE DEF G
  <2> QED BY <2>1, FieldInduction
<1> QED BY <1>2

(* What is written out holds no repeated field that could be written out.  *)
IsLeaf(f) == f \in Fields /\ ~(f.type = "repeated" /\ f.mutable)

LEMMA LeavesAreLeaves ==
  ASSUME NEW leaves, LeavesOf(leaves)
  PROVE  \A f \in Fields : \A i \in DOMAIN leaves[f] : IsLeaf(leaves[f][i])
<1> DEFINE G == {f \in Fields : \A i \in DOMAIN leaves[f] : IsLeaf(leaves[f][i])}
<1>1. ASSUME NEW f \in Fields, \A k \in DOMAIN f.fields : f.fields[k] \in G,
             NEW i \in DOMAIN leaves[f]
      PROVE  IsLeaf(leaves[f][i])
  <2>1. leaves[f] = LeavesBody(f, Each(leaves, Unrolled(f)))
    BY DEF LeavesOf
  <2>2. CASE ~(f.type = "repeated" /\ f.mutable)
    <3>1. leaves[f] = <<f>>
      BY <2>1, <2>2 DEF LeavesBody
    <3>2. leaves[f][i] = f
      BY <3>1
    <3> QED BY <2>2, <3>2 DEF IsLeaf
  <2>3. CASE f.type = "repeated" /\ f.mutable
    <3> DEFINE u == Unrolled(f)
               seqs == Each(leaves, u)
    <3>1. leaves[f] = FlattenSeq(seqs)
      BY <2>1, <2>3 DEF LeavesBody
    <3>2. u \in Seq(Fields) /\ \A k \in DOMAIN u : \E j \in DOMAIN f.fields : u[k] = f.fields[j]
      BY UnrolledIs
    <3> HIDE DEF u
    <3>3. /\ seqs \in Seq(Seq(Fields)) /\ Len(seqs) = Len(u)
          /\ \A k \in 1 .. Len(u) : seqs[k] = leaves[u[k]]
      BY <3>2, LeavesOfRow
    <3>4. DOMAIN seqs = DOMAIN u /\ DOMAIN u = 1 .. Len(u)
      BY <3>2 DEF Each
    <3> HIDE DEF seqs
    <3>5. PICK k \in DOMAIN seqs : \E j \in DOMAIN seqs[k] : FlattenSeq(seqs)[i] = seqs[k][j]
      BY <3>1, <3>3, FlattenHolds
    <3>6. u[k] \in G /\ seqs[k] = leaves[u[k]]
      BY <1>1, <3>2, <3>3, <3>4
    <3> QED BY <3>1, <3>5, <3>6
  <2> QED BY <2>2, <2>3
<1>2. Fields \subseteq G
  <2>1. ASSUME NEW f \in Fields, \A k \in DOMAIN f.fields : f.fields[k] \in G PROVE f \in G
    BY <1>1, <2>1
  <2> HIDE DEF G
  <2> QED BY <2>1, FieldInduction
<1> QED BY <1>2

LEMMA WrittenOutOf ==
  ASSUME NEW fs \in Seq(Fields)
  PROVE  /\ WrittenOut(fs) \in Seq(Fields) /\ Generate(WrittenOut(fs)) = Generate(fs)
         /\ \A k \in 1 .. Len(WrittenOut(fs)) : IsLeaf(WrittenOut(fs)[k])
<1>1. PICK leaves : LeavesOf(leaves) /\ \A gs : WrittenOut(gs) = FlattenSeq(Each(leaves, gs))
  BY WrittenOutIs
<1>2. PICK msg : MessagesOf(msg) /\ \A gs : Generate(gs) = FlattenSeq(Each(msg, gs))
  BY MessagesAre
<1> DEFINE seqs == Each(leaves, fs)
           w == WrittenOut(fs)
<1>3. Len(fs) \in Nat /\ DOMAIN fs = 1 .. Len(fs) /\ \A k \in 1 .. Len(fs) : fs[k] \in Fields
  BY SeqBasics
<1>4. /\ seqs \in Seq(Seq(Fields)) /\ Len(seqs) = Len(fs)
      /\ \A k \in 1 .. Len(fs) : seqs[k] = leaves[fs[k]]
  BY <1>1, LeavesOfRow
<1>5. DOMAIN seqs = 1 .. Len(fs)
  BY <1>3 DEF Each
<1>6. w = FlattenSeq(seqs)
  BY <1>1
<1>7. Generate(w) = Generate(fs)
  <2>1. \A k \in 1 .. Len(fs) : FlattenSeq(Each(msg, leaves[fs[k]])) = msg[fs[k]]
    BY <1>1, <1>2, <1>3, LeavesAreWritten
  <2>2. FlattenSeq(Each(msg, FlattenSeq(Each(leaves, fs)))) = FlattenSeq(Each(msg, fs))
    BY <1>1, <1>2, <2>1, RowIsWritten
  <2> HIDE DEF w
  <2> QED BY <1>2, <1>6, <2>2
<1> HIDE DEF seqs, w
<1>8. w \in Seq(Fields)
  BY <1>4, <1>6, FlattenHolds
<1>9. DOMAIN w = 1 .. Len(w)
  BY <1>8
<1>10. ASSUME NEW i \in 1 .. Len(w) PROVE IsLeaf(w[i])
  <2>3. i \in DOMAIN FlattenSeq(seqs)
    BY <1>6, <1>9
  <2>4. \A x \in DOMAIN FlattenSeq(seqs) :
          \E k \in DOMAIN seqs : \E j \in DOMAIN seqs[k] : FlattenSeq(seqs)[x] = seqs[k][j]
    BY <1>4, FlattenHolds
  <2>1. PICK k \in DOMAIN seqs : \E j \in DOMAIN seqs[k] : w[i] = seqs[k][j]
    BY <1>6, <2>3, <2>4
  <2>2. seqs[k] = leaves[fs[k]] /\ fs[k] \in Fields
    BY <1>3, <1>4, <1>5
  <2> QED BY <1>1, <2>1, <2>2, LeavesAreLeaves
<1> QED BY <1>7, <1>8, <1>10 DEF w


(* What LeafMessage writes for a field, as far as its size is read from it. *)
LEMMA FilledAndOne ==
  ASSUME NEW n \in Nat, NEW a \in Bytes, NEW b \in Bytes
  PROVE  LET s == Append([k \in 1 .. n |-> a], b)
         IN  /\ s \in Seq(Bytes) /\ Len(s) = n + 1
             /\ \A k \in 1 .. n : s[k] = a
             /\ s[n + 1] = b
<1> DEFINE r == [k \in 1 .. n |-> a]
<1>1. r \in Seq(Bytes) /\ Len(r) = n /\ \A k \in 1 .. n : r[k] = a
  OBVIOUS
<1> HIDE DEF r
<1>2. /\ Append(r, b) \in Seq(Bytes) /\ Len(Append(r, b)) = n + 1
      /\ \A k \in 1 .. n : Append(r, b)[k] = r[k]
      /\ Append(r, b)[n + 1] = b
  BY <1>1
<1> QED BY <1>1, <1>2 DEF r

LEMMA LeafMessageHas ==
  ASSUME NEW f \in Fields, f.type # "repeated"
  PROVE  LET m == LeafMessage(f)
             p == Prefix[f.type]
         IN  /\ f.type \in DOMAIN Width => Len(m) = Width[f.type]
             /\ f.type \in {"bytes", "magic", "padding"} => Len(m) = f.length
             /\ f.type = "cstring" => /\ Len(m) = DemoLength + 1
                                      /\ \A k \in 1 .. DemoLength : m[k] = 1
                                      /\ m[DemoLength + 1] = 0
             /\ f.type \in DOMAIN Prefix => /\ Len(m) = p + DemoLength
                                            /\ \A k \in 1 .. p - 1 : m[k] = 0
                                            /\ m[p] = DemoLength
<1> DEFINE fill(n, b) == [k \in 1 .. n |-> b]
           m == LeafMessage(f)
           w == Width[f.type]
           p == Prefix[f.type]
<1>1. 0 \in Bytes /\ 1 \in Bytes /\ DemoLength \in Bytes /\ DemoLength \in Nat
  BY ByteBasics
<1>2. f.length \in Nat
  BY FieldIs
<1>3. \A n \in Nat, a, b \in Bytes :
        /\ Append(fill(n, a), b) \in Seq(Bytes) /\ Len(Append(fill(n, a), b)) = n + 1
        /\ \A k \in 1 .. n : Append(fill(n, a), b)[k] = a
        /\ Append(fill(n, a), b)[n + 1] = b
  BY FilledAndOne
<1>4. \A n \in Nat, a \in Bytes : fill(n, a) \in Seq(Bytes) /\ Len(fill(n, a)) = n
  OBVIOUS
<1> HIDE DEF fill
<1>5. ASSUME f.type \in DOMAIN Width PROVE Len(m) = w
  <2>1. m = Append(fill(w - 1, 0), 1)
    BY <1>5, TypesAre DEF LeafMessage, fill
  <2>2. w - 1 \in Nat /\ (w - 1) + 1 = w
    BY <1>5, WidthsAreNat
  <2> HIDE DEF w, m
  <2> QED BY <1>1, <1>3, <2>1, <2>2
<1>6. ASSUME f.type \in {"bytes", "magic", "padding"} PROVE Len(m) = f.length
  <2>1. m = fill(f.length, 1) \/ m = fill(f.length, 0)
    BY <1>6, TypesAre DEF LeafMessage, fill
  <2> HIDE DEF m
  <2> QED BY <1>1, <1>2, <1>4, <2>1
<1>7. ASSUME f.type = "cstring"
      PROVE  /\ Len(m) = DemoLength + 1 /\ \A k \in 1 .. DemoLength : m[k] = 1
             /\ m[DemoLength + 1] = 0
  <2>1. m = Append(fill(DemoLength, 1), 0)
    BY <1>7, TypesAre DEF LeafMessage, fill
  <2> DEFINE s == Append(fill(DemoLength, 1), 0)
  <2>3. /\ s \in Seq(Bytes) /\ Len(s) = DemoLength + 1
        /\ \A k \in 1 .. DemoLength : s[k] = 1
        /\ s[DemoLength + 1] = 0
    BY <1>1, FilledAndOne DEF fill
  <2> HIDE DEF m, s
  <2> QED BY <2>1, <2>3 DEF s
<1>8. ASSUME f.type \in DOMAIN Prefix
      PROVE  Len(m) = p + DemoLength /\ (\A k \in 1 .. p - 1 : m[k] = 0) /\ m[p] = DemoLength
  <2> DEFINE s == Append(fill(p - 1, 0), DemoLength)
             t == fill(DemoLength, 1)
  <2>1. m = s \o t
    BY <1>8, TypesAre DEF LeafMessage, fill
  <2>2. p - 1 \in Nat /\ (p - 1) + 1 = p
    BY <1>8, WidthsAreNat
  <2> HIDE DEF p, m
  <2>3. /\ s \in Seq(Bytes) /\ Len(s) = p /\ s[p] = DemoLength
        /\ \A k \in 1 .. p - 1 : s[k] = 0
    <3>1. /\ s \in Seq(Bytes) /\ Len(s) = (p - 1) + 1
          /\ \A k \in 1 .. p - 1 : s[k] = 0
          /\ s[(p - 1) + 1] = DemoLength
      BY <1>1, <1>3, <2>2, Zenon
    <3> HIDE DEF s
    <3> QED BY <2>2, <3>1
  <2>4. t \in Seq(Bytes) /\ Len(t) = DemoLength
    BY <1>1, <1>4
  <2> HIDE DEF s, t
  <2>5. Len(s \o t) = p + DemoLength /\ \A k \in 1 .. p : (s \o t)[k] = s[k]
    BY <2>3, <2>4
  <2>6. p \in 1 .. p /\ \A k \in 1 .. p - 1 : k \in 1 .. p
    BY <2>2
  <2> QED BY <2>1, <2>3, <2>5, <2>6
<1> QED BY <1>5, <1>6, <1>7, <1>8

(* A message lies in an input behind a number of bytes. *)
Holds(input, m, x) ==
  x + Len(m) <= Len(input) /\ \A j \in 1 .. Len(m) : input[x + j] = m[j]

LEMMA PrefixHolds ==
  ASSUME NEW input \in Seq(Bytes), NEW x \in Nat, NEW n \in {1, 2, 4}, x + n <= Len(input),
         \A k \in 1 .. n - 1 : input[x + k] = 0, input[x + n] = DemoLength
  PROVE  NumberAt(input, x, n) = DemoLength
<1>1. n \in Nat /\ DemoLength \in Nat
  BY SchemaAssumption
<1>2. PICK number : Counts(number, input, x, n)
  BY <1>1, NumberIs
<1>3. /\ NumberAt(input, x, n) = number[n] /\ number[0] = 0
      /\ \A k \in 1 .. n : number[k] = number[k - 1] * Base + input[x + k]
  <2>1. \A k \in 1 .. n : (x + k - 1) + 1 = x + k
    BY <1>1
  <2> QED BY <1>2, <2>1 DEF Counts, ByteAt
<1>4. Base \in Nat /\ 0 * Base = 0
  BY ByteBasics
<1> DEFINE G == {k \in 0 .. n : k < n => number[k] = 0}
<1>5. \A k \in 0 .. n : k \in G
  <2>1. 0 \in G
    BY <1>1, <1>3
  <2>2. ASSUME NEW k \in 1 .. n, k - 1 \in G PROVE k \in G
    <3>1. k \in 0 .. n /\ k - 1 < n
      BY <1>1
    <3>2. ASSUME k < n PROVE number[k] = 0
      <4>1. k \in 1 .. n - 1
        BY <1>1, <3>2
      <4>2. number[k - 1] = 0
        BY <2>2, <3>1
      <4>3. number[k] = 0 * Base + 0
        BY <1>3, <4>1, <4>2
      <4> QED BY <1>4, <4>3
    <3> QED BY <3>1, <3>2
  <2> HIDE DEF G
  <2> QED BY <1>1, <2>1, <2>2, UpTo
<1>6. number[n - 1] = 0
  <2>1. n - 1 \in 0 .. n /\ n - 1 < n
    BY <1>1
  <2> QED BY <1>5, <2>1
<1>7. number[n] = 0 * Base + DemoLength
  <2>1. n \in 1 .. n
    OBVIOUS
  <2> QED BY <1>3, <1>6, <2>1
<1> QED BY <1>1, <1>3, <1>4, <1>7

LEMMA TextHolds ==
  ASSUME NEW input \in Seq(Bytes), NEW x \in Nat, NEW n \in Nat, x + n < Len(input),
         \A k \in 1 .. n : input[x + k] = 1, input[x + (n + 1)] = 0
  PROVE  EndOfText(input, x) = x + n
<1> DEFINE zeros == {k \in x .. Len(input) - 1 : ByteAt(input, k) = 0}
<1>1. Len(input) \in Nat
  BY SeqBasics
<1>2. x + n \in zeros
  <2>1. (x + n) + 1 = x + (n + 1) /\ x + n \in x .. Len(input) - 1
    BY <1>1
  <2> QED BY <2>1 DEF ByteAt
<1>3. \A k \in zeros : k \in Nat /\ x + n <= k
  <2> TAKE k \in zeros
  <2>1. k \in x .. Len(input) - 1 /\ input[k + 1] = 0
    BY DEF ByteAt
  <2>2. k \in Nat /\ x <= k
    BY <1>1, <2>1
  <2>3. ASSUME k < x + n PROVE FALSE
    <3>1. k - x + 1 \in 1 .. n /\ x + (k - x + 1) = k + 1
      BY <2>2, <2>3
    <3>2. input[k + 1] = 1
      BY <3>1
    <3> QED BY <2>1, <3>2
  <2> QED BY <2>2, <2>3
<1>4. EndOfText(input, x) = Min(zeros)
  BY <1>2 DEF EndOfText
<1> HIDE DEF zeros
<1>5. Min(zeros) \in zeros /\ \A k \in zeros : Min(zeros) <= k
  BY <1>2, <1>3 DEF Min
<1> QED BY <1>2, <1>3, <1>4, <1>5

LEMMA LeafSizeHolds ==
  ASSUME NEW input \in Seq(Bytes), NEW f \in Fields, f.type # "repeated", NEW x \in Nat,
         Holds(input, LeafMessage(f), x)
  PROVE  LeafSize(f, input, x) = Len(LeafMessage(f))
<1> DEFINE m == LeafMessage(f)
           p == Prefix[f.type]
<1>1. Len(input) \in Nat /\ f.type \in Types \ {"repeated"} /\ DemoLength \in Nat
  BY SeqBasics, FieldIs, SchemaAssumption
<1>2. x + Len(m) <= Len(input) /\ \A j \in 1 .. Len(m) : input[x + j] = m[j]
  BY DEF Holds
<1>3. /\ f.type \in DOMAIN Width => Len(m) = Width[f.type]
      /\ f.type \in {"bytes", "magic", "padding"} => Len(m) = f.length
      /\ f.type = "cstring" => /\ Len(m) = DemoLength + 1
                               /\ \A k \in 1 .. DemoLength : m[k] = 1
                               /\ m[DemoLength + 1] = 0
      /\ f.type \in DOMAIN Prefix => /\ Len(m) = p + DemoLength
                                     /\ \A k \in 1 .. p - 1 : m[k] = 0
                                     /\ m[p] = DemoLength
  BY LeafMessageHas
<1> SUFFICES LeafSize(f, input, x) = Len(m)
  OBVIOUS
<1> HIDE DEF m
<1>4. CASE f.type \in DOMAIN Width
  BY <1>3, <1>4, TypesAre DEF LeafSize
<1>5. CASE f.type \in {"bytes", "magic", "padding"}
  BY <1>3, <1>5, TypesAre DEF LeafSize
<1>6. CASE f.type = "cstring"
  <2>1. Len(m) = DemoLength + 1 /\ \A k \in 1 .. DemoLength : m[k] = 1 /\ m[DemoLength + 1] = 0
    BY <1>3, <1>6
  <2>6. m[DemoLength + 1] = 0
    BY <1>3, <1>6
  <2>2. x + DemoLength < Len(input)
    BY <1>1, <1>2, <2>1
  <2>8. DemoLength + 1 \in 1 .. Len(m) /\ \A k \in 1 .. DemoLength : k \in 1 .. Len(m)
    BY <1>1, <2>1
  <2>3. \A k \in 1 .. DemoLength : input[x + k] = 1
    BY <1>2, <2>1, <2>8
  <2>4. input[x + (DemoLength + 1)] = 0
    BY <1>2, <2>6, <2>8
  <2>5. EndOfText(input, x) = x + DemoLength
    BY <1>1, <2>2, <2>3, <2>4, TextHolds
  <2>7. LeafSize(f, input, x) =
          IF x >= Len(input) THEN 1
          ELSE IF EndOfText(input, x) = Len(input) THEN Len(input) - x
          ELSE EndOfText(input, x) - x + 1
    BY <1>6, TypesAre DEF LeafSize
  <2> QED BY <1>1, <2>1, <2>2, <2>5, <2>7
<1>7. CASE f.type \in DOMAIN Prefix
  <2>1. p \in {1, 2, 4} /\ Len(m) = p + DemoLength
    BY <1>3, <1>7, WidthsAreNat
  <2>2. (\A k \in 1 .. p - 1 : m[k] = 0) /\ m[p] = DemoLength
    BY <1>3, <1>7
  <2>3. LeafSize(f, input, x) =
          IF x + p <= Len(input) THEN p + NumberAt(input, x, p) ELSE p
    BY <1>7, TypesAre DEF LeafSize
  <2> HIDE DEF p
  <2>4. x + p <= Len(input) /\ p \in 1 .. Len(m) /\ \A k \in 1 .. p - 1 : k \in 1 .. Len(m)
    BY <1>1, <1>2, <2>1
  <2>5. (\A k \in 1 .. p - 1 : input[x + k] = 0) /\ input[x + p] = DemoLength
    BY <1>2, <2>2, <2>4
  <2>6. NumberAt(input, x, p) = DemoLength
    BY <2>1, <2>4, <2>5, PrefixHolds
  <2> QED BY <2>1, <2>3, <2>4, <2>6
<1> QED BY <1>1, <1>4, <1>5, <1>6, <1>7, TypesAre


SizedAs(input, field, m) ==
  \A x \in Nat : Holds(input, m, x) => Sizes(input)[field][x] = Len(m)

(* Where the message of a row is found, its fields are where the row lays  *)
(* them.                                                                   *)
LEMMA RowHolds ==
  ASSUME NEW input \in Seq(Bytes), NEW msg, MessagesOf(msg), NEW z \in Seq(Fields),
         NEW x \in Nat, Holds(input, FlattenSeq(Each(msg, z)), x),
         \A k \in 1 .. Len(z) : SizedAs(input, z[k], msg[z[k]]),
         NEW c, Offsets(c, Each(msg, z))
  PROVE  \A k \in 0 .. Len(z) : Ends(Each(Sizes(input), z), x)[k] = x + c[k]
<1> DEFINE n == Len(z)
           seqs == Each(msg, z)
           s == Each(Sizes(input), z)
           e == Ends(s, x)
           flat == FlattenSeq(seqs)
<1>1. n \in Nat /\ Len(input) \in Nat /\ \A k \in 1 .. n : z[k] \in Fields
  BY SeqBasics
<1>2. /\ seqs \in Seq(Seq(Bytes)) /\ Len(seqs) = n
      /\ \A k \in 1 .. n : seqs[k] = msg[z[k]] /\ msg[z[k]] \in Seq(Bytes)
  BY MessagesOfRow
<1>3. s \in Seq([Nat -> Nat]) /\ Len(s) = n /\ \A k \in 1 .. n : s[k] = Sizes(input)[z[k]]
  <2>1. DOMAIN z = 1 .. n
    BY SeqBasics
  <2> QED BY <2>1, SizesOf
<1> HIDE DEF s
<1>4. e[0] = x /\ \A k \in 1 .. n : e[k] = e[k - 1] + s[k][e[k - 1]]
  <2>1. /\ Ends(s, x)[0] = x
        /\ \A k \in 1 .. Len(s) : Ends(s, x)[k] = Ends(s, x)[k - 1] + s[k][Ends(s, x)[k - 1]]
    BY <1>3, EndsAre
  <2> QED BY <1>3, <2>1
<1>5. x + Len(flat) <= Len(input) /\ \A j \in 1 .. Len(flat) : input[x + j] = flat[j]
  BY DEF Holds
<1> HIDE DEF seqs
<1>6. /\ Len(flat) = c[n]
      /\ \A j, k \in 0 .. n : j <= k => c[j] <= c[k]
      /\ \A k \in 1 .. n : \A j \in 1 .. Len(seqs[k]) : flat[c[k - 1] + j] = seqs[k][j]
  <2>1. Offsets(c, seqs)
    BY DEF seqs
  <2>2. /\ Len(FlattenSeq(seqs)) = c[Len(seqs)]
        /\ \A j, k \in 0 .. Len(seqs) : j <= k => c[j] <= c[k]
        /\ \A k \in 1 .. Len(seqs) : \A j \in 1 .. Len(seqs[k]) :
             FlattenSeq(seqs)[c[k - 1] + j] = seqs[k][j]
    BY <1>2, <2>1, FlatIndex
  <2> HIDE DEF n
  <2> QED BY <1>2, <2>2
<1>7. c \in [0 .. n -> Nat] /\ c[0] = 0 /\ \A k \in 1 .. n : c[k] = c[k - 1] + Len(seqs[k])
  <2>1. Offsets(c, seqs)
    BY DEF seqs
  <2> QED BY <1>2, <2>1 DEF Offsets
<1> HIDE DEF e, flat, n
<1> DEFINE G == {k \in 0 .. n : e[k] = x + c[k]}
<1>8. 0 \in G
  BY <1>1, <1>4, <1>7
<1>9. ASSUME NEW k \in 1 .. n, k - 1 \in G PROVE k \in G
  <2> DEFINE m == msg[z[k]]
             y == x + c[k - 1]
  <2>1. k \in 0 .. n /\ k - 1 \in 0 .. n /\ n \in 0 .. n
    BY <1>1
  <2>2. c[k - 1] \in Nat /\ c[k] \in Nat /\ c[k] <= c[n] /\ c[n] \in Nat
    BY <1>1, <1>6, <1>7, <2>1
  <2>3. m \in Seq(Bytes) /\ seqs[k] = m /\ Len(m) \in Nat /\ c[k] = c[k - 1] + Len(m)
    BY <1>2, <1>7
  <2>4. e[k - 1] = y /\ y \in Nat
    BY <1>9, <2>2
  <2> HIDE DEF m
  <2>5. y + Len(m) <= Len(input)
    BY <1>1, <1>5, <1>6, <2>2, <2>3
  <2>6. ASSUME NEW j \in 1 .. Len(m) PROVE input[y + j] = m[j]
    <3>1. c[k - 1] + j \in 1 .. Len(flat) /\ x + (c[k - 1] + j) = y + j
      <4>1. c[k - 1] + Len(m) <= Len(flat) /\ Len(flat) \in Nat
        BY <1>6, <2>2, <2>3
      <4>2. c[k - 1] + j \in 1 .. Len(flat)
        BY <2>2, <2>3, <4>1, Within
      <4>3. x + (c[k - 1] + j) = y + j
        BY <1>1, <2>2
      <4> QED BY <4>2, <4>3
    <3>2. input[x + (c[k - 1] + j)] = flat[c[k - 1] + j]
      BY <1>5, <3>1
    <3> QED BY <1>6, <2>3, <3>1, <3>2
  <2>7. Holds(input, m, y)
    BY <2>5, <2>6 DEF Holds
  <2>8. Sizes(input)[z[k]][y] = Len(m)
    <3>1. SizedAs(input, z[k], m)
      BY DEF m, n
    <3> HIDE DEF y
    <3> QED BY <2>4, <2>7, <3>1 DEF SizedAs
  <2>9. e[k] = y + Len(m)
    BY <1>3, <1>4, <2>4, <2>8
  <2>10. e[k] = x + c[k]
    BY <2>2, <2>3, <2>9
  <2> QED BY <2>1, <2>10
<1>10. \A k \in 0 .. n : k \in G
  <2> HIDE DEF G
  <2> QED BY <1>1, <1>8, <1>9, UpTo
<1> QED BY <1>10 DEF n, e, s

(* Where the message of a field is found, the field has its length. *)
LEMMA SizesHold ==
  ASSUME NEW input \in Seq(Bytes), NEW msg, MessagesOf(msg)
  PROVE  \A f \in Fields : SizedAs(input, f, msg[f])
<1> DEFINE G == {f \in Fields : SizedAs(input, f, msg[f])}
<1>1. ASSUME NEW f \in Fields, \A k \in DOMAIN f.fields : f.fields[k] \in G,
             NEW x \in Nat, Holds(input, msg[f], x)
      PROVE  Sizes(input)[f][x] = Len(msg[f])
  <2>1. msg[f] = MessageBody(f, Each(msg, Unrolled(f)))
    BY DEF MessagesOf
  <2>2. CASE f.type # "repeated"
    <3>1. msg[f] = LeafMessage(f)
      BY <2>1, <2>2 DEF MessageBody
    <3>2. Sizes(input)[f][x] = LeafSize(f, input, x)
      BY <2>2, LeafIsSized
    <3>3. LeafSize(f, input, x) = Len(LeafMessage(f))
      BY <1>1, <2>2, <3>1, LeafSizeHolds
    <3> QED BY <3>1, <3>2, <3>3
  <2>3. CASE f.type = "repeated"
    <3> DEFINE u == Unrolled(f)
               seqs == Each(msg, u)
               end == Ends(Each(Sizes(input), u), x)[Len(u)]
    <3>1. msg[f] = FlattenSeq(seqs)
      BY <2>1, <2>3 DEF MessageBody
    <3>2. u \in Seq(Fields) /\ \A k \in DOMAIN u : \E j \in DOMAIN f.fields : u[k] = f.fields[j]
      BY UnrolledIs
    <3>3. Sizes(input)[f][x] = end - x
      <4>1. Sizes(input)[f] = SizeBody(input, f, Each(Sizes(input), u))
        BY SizesAre
      <4> QED BY <2>3, <4>1 DEF SizeBody
    <3> HIDE DEF u
    <3>4. \A k \in 1 .. Len(u) : SizedAs(input, u[k], msg[u[k]])
      <4>1. \A k \in 1 .. Len(u) : u[k] \in G
        BY <1>1, <3>2, SeqBasics
      <4> QED BY <4>1
    <3>5. seqs \in Seq(Seq(Bytes)) /\ Len(seqs) = Len(u) /\ Len(u) \in Nat
      BY <3>2, MessagesOfRow, SeqBasics
    <3>6. PICK c : Offsets(c, seqs)
      <4> HIDE DEF seqs
      <4> QED BY <3>5, HasOffsets
    <3>7. \A k \in 0 .. Len(u) : Ends(Each(Sizes(input), u), x)[k] = x + c[k]
      BY <1>1, <3>1, <3>2, <3>4, <3>6, RowHolds
    <3>8. Len(u) \in 0 .. Len(u)
      BY <3>5
    <3>9. end = x + c[Len(u)]
      BY <3>7, <3>8
    <3> HIDE DEF seqs, end
    <3>10. Len(FlattenSeq(seqs)) = c[Len(u)] /\ c[Len(u)] \in Nat
      <4>1. Len(FlattenSeq(seqs)) = c[Len(seqs)]
        BY <3>5, <3>6, FlatIndex
      <4> QED BY <3>5, <3>6, <3>8, <4>1 DEF Offsets
    <3> QED BY <3>1, <3>3, <3>9, <3>10
  <2> QED BY <2>2, <2>3
<1>2. Fields \subseteq G
  <2>1. ASSUME NEW f \in Fields, \A k \in DOMAIN f.fields : f.fields[k] \in G PROVE f \in G
    <3>1. SizedAs(input, f, msg[f])
      BY <1>1, <2>1 DEF SizedAs
    <3> QED BY <3>1
  <2> HIDE DEF G
  <2> QED BY <2>1, FieldInduction
<1> QED BY <1>2

(* A message that is generated is not filled up. *)
LEMMA MessagesAreLong ==
  ASSUME NEW msg, MessagesOf(msg)
  PROVE  \A f \in Fields : Len(msg[f]) \in Nat /\ MinSize(f) <= Len(msg[f])
<1> TAKE f \in Fields
<1>1. /\ msg[f] = MessageBody(f, Each(msg, Unrolled(f))) /\ msg[f] \in Seq(Bytes)
      /\ MinSize(f) \in Nat /\ DemoLength \in Nat
  BY MinSizesAreNat, SchemaAssumption DEF MessagesOf
<1>2. Len(msg[f]) \in Nat
  BY <1>1, SeqBasics
<1>3. CASE f.type = "repeated"
  <2>1. MinSize(f) = 0
    BY <1>3, TypesAre DEF MinSize
  <2> QED BY <1>2, <2>1
<1>4. CASE f.type # "repeated"
  <2> DEFINE m == LeafMessage(f)
             p == Prefix[f.type]
  <2>1. msg[f] = m
    BY <1>1, <1>4 DEF MessageBody
  <2>2. /\ f.type \in DOMAIN Width => Len(m) = Width[f.type]
        /\ f.type = "cstring" => Len(m) = DemoLength + 1
        /\ f.type \in DOMAIN Prefix => Len(m) = p + DemoLength
    BY <1>4, LeafMessageHas
  <2> HIDE DEF m
  <2>3. CASE f.type \in DOMAIN Width
    <3>1. MinSize(f) = Width[f.type]
      BY <2>3, TypesAre DEF MinSize
    <3> QED BY <1>1, <1>2, <2>1, <2>2, <2>3, <3>1
  <2>4. CASE f.type \in DOMAIN Prefix
    <3>1. MinSize(f) = p
      BY <2>4, TypesAre DEF MinSize
    <3> HIDE DEF p
    <3> QED BY <1>1, <1>2, <2>1, <2>2, <2>4, <3>1
  <2>5. CASE f.type = "cstring"
    <3>1. MinSize(f) = 1
      BY <2>5, TypesAre DEF MinSize
    <3> QED BY <1>1, <1>2, <2>1, <2>2, <2>5, <3>1
  <2>6. CASE f.type \notin DOMAIN Width \union DOMAIN Prefix \union {"cstring"}
    <3>1. MinSize(f) = 0
      BY <2>6 DEF MinSize
    <3> QED BY <1>2, <3>1
  <2> QED BY <2>3, <2>4, <2>5, <2>6
<1> QED BY <1>3, <1>4

LEMMA GeneratedIsLong ==
  ASSUME NEW fs \in Seq(Fields)
  PROVE  Padded(Generate(fs), fs) = Generate(fs)
<1>1. PICK msg : MessagesOf(msg) /\ Generate(fs) = FlattenSeq(Each(msg, fs))
  BY MessagesAre
<1> DEFINE n == Len(fs)
           seqs == Each(msg, fs)
           t == [k \in DOMAIN fs |-> MinSize(fs[k])]
<1>2. n \in Nat /\ DOMAIN fs = 1 .. n /\ \A k \in 1 .. n : fs[k] \in Fields
  BY SeqBasics
<1>3. seqs \in Seq(Seq(Bytes)) /\ Len(seqs) = n /\ \A k \in 1 .. n : seqs[k] = msg[fs[k]]
  BY <1>1, MessagesOfRow
<1>4. t \in Seq(Nat) /\ Len(t) = n /\ \A k \in 1 .. n : t[k] = MinSize(fs[k])
  <2>1. t = [k \in 1 .. n |-> t[k]] /\ \A k \in 1 .. n : t[k] = MinSize(fs[k]) /\ t[k] \in Nat
    BY <1>2, MinSizesAreNat
  <2>2. n \in Nat
    BY <1>2
  <2> HIDE DEF t, n
  <2>3. t \in Seq(Nat) /\ Len(t) = n
    BY <2>1, <2>2
  <2> QED BY <2>1, <2>3
<1>5. Generate(fs) = FlattenSeq(seqs) /\ MinSizeOf(fs) = Total(t)
  BY <1>1 DEF MinSizeOf
<1> HIDE DEF seqs, t, n
<1>6. PICK c : Offsets(c, seqs)
  BY <1>3, HasOffsets
<1>7. PICK sum : Sums(sum, t)
  BY <1>4, TotalIs
<1>8. /\ c \in [0 .. n -> Nat] /\ c[0] = 0
      /\ \A k \in 1 .. n : c[k] = c[k - 1] + Len(seqs[k])
  BY <1>3, <1>6 DEF Offsets
<1>9. /\ sum \in [0 .. n -> Nat] /\ sum[0] = 0 /\ Total(t) = sum[n]
      /\ \A k \in 1 .. n : sum[k] = sum[k - 1] + t[k]
  BY <1>4, <1>7 DEF Sums
<1> DEFINE G == {k \in 0 .. n : sum[k] <= c[k]}
<1>10. 0 \in G
  BY <1>2, <1>8, <1>9
<1>11. ASSUME NEW k \in 1 .. n, k - 1 \in G PROVE k \in G
  <2>1. k \in 0 .. n /\ k - 1 \in 0 .. n
    BY <1>2
  <2>2. sum[k - 1] <= c[k - 1] /\ sum[k - 1] \in Nat /\ c[k - 1] \in Nat
    BY <1>8, <1>9, <1>11, <2>1
  <2>3. Len(seqs[k]) \in Nat /\ t[k] \in Nat /\ t[k] <= Len(seqs[k])
    BY <1>1, <1>2, <1>3, <1>4, MessagesAreLong, MinSizesAreNat
  <2>4. sum[k] <= c[k]
    BY <1>8, <1>9, <2>2, <2>3
  <2> QED BY <2>1, <2>4
<1>12. \A k \in 0 .. n : k \in G
  <2> HIDE DEF G
  <2> QED BY <1>2, <1>10, <1>11, UpTo
<1>13. sum[n] <= c[n]
  <2>1. n \in 0 .. n
    BY <1>2
  <2> QED BY <1>12, <2>1
<1>14. Len(Generate(fs)) = c[n]
  BY <1>3, <1>5, <1>6, FlatIndex
<1>15. Len(Generate(fs)) >= MinSizeOf(fs)
  <2>1. sum[n] \in Nat /\ c[n] \in Nat
    BY <1>2, <1>8, <1>9
  <2> QED BY <1>5, <1>9, <1>13, <1>14, <2>1
<1> QED BY <1>15 DEF Padded


-----------------------------------------------------------------------------
(* What a mutation does to the bytes behind the field it is of             *)

Spares(buf, m, y) == Len(m) = Len(buf) => \A k \in 1 .. Len(buf) : y < k => m[k] = buf[k]

LEMMA PutSpares ==
  ASSUME NEW buf \in Seq(Bytes), NEW y \in Nat, NEW j \in Nat, j < y,
         NEW values, NEW m \in Put(buf, j, values)
  PROVE  Spares(buf, m, y)
<1>1. PICK v \in values : m = [buf EXCEPT ![j + 1] = v]
  BY DEF Put
<1>2. ASSUME NEW k \in 1 .. Len(buf), y < k PROVE m[k] = buf[k]
  <2>1. k \in DOMAIN buf /\ k # j + 1
    BY <1>2, SeqBasics
  <2> QED BY <1>1, <2>1
<1> QED BY <1>2 DEF Spares

LEMMA PutOneSpares ==
  ASSUME NEW buf \in Seq(Bytes), NEW y \in Nat, NEW first \in Nat, NEW last \in Nat, last <= y,
         NEW values, NEW m \in PutOne(buf, first, last, values)
  PROVE  Spares(buf, m, y)
<1>1. PICK j \in first .. last - 1 : m \in Put(buf, j, values)
  BY DEF PutOne
<1>2. j \in Nat /\ j < y
  OBVIOUS
<1> QED BY <1>1, <1>2, PutSpares

LEMMA PutAnySpares ==
  ASSUME NEW buf \in Seq(Bytes), NEW offset \in Nat, NEW n \in Nat, NEW y \in Nat,
         offset + n <= y, NEW m \in PutAny(buf, offset, n)
  PROVE  Spares(buf, m, y)
<1>1. PICK v \in [1 .. n -> Bytes] :
        m = [k \in DOMAIN buf |-> IF k \in offset + 1 .. offset + n THEN v[k - offset] ELSE buf[k]]
  BY DEF PutAny
<1>2. ASSUME NEW k \in 1 .. Len(buf), y < k PROVE m[k] = buf[k]
  <2>1. k \in DOMAIN buf /\ k \notin offset + 1 .. offset + n
    BY <1>2, SeqBasics
  <2> QED BY <1>1, <2>1
<1> QED BY <1>2 DEF Spares

LEMMA FillSpares ==
  ASSUME NEW buf \in Seq(Bytes), NEW offset \in Nat, NEW end \in Nat, NEW y \in Nat, end <= y,
         NEW b, NEW m, m = [k \in DOMAIN buf |-> IF k \in offset + 1 .. end THEN b ELSE buf[k]]
  PROVE  Spares(buf, m, y)
<1>1. ASSUME NEW k \in 1 .. Len(buf), y < k PROVE m[k] = buf[k]
  <2>1. k \in DOMAIN buf /\ k \notin offset + 1 .. end
    BY <1>1, SeqBasics
  <2> QED BY <2>1
<1> QED BY <1>1 DEF Spares

LEMMA InsertSpares ==
  ASSUME NEW buf \in Seq(Bytes), NEW j \in Nat, j < Len(buf), NEW b \in Bytes, NEW y
  PROVE  Spares(buf, InsertAt(buf, j + 1, b), y)
<1> DEFINE x == SubSeq(buf, 1, j)
           z == SubSeq(buf, j + 1, Len(buf))
           m == x \o <<b>> \o z
<1>1. Len(buf) \in Nat /\ \A k \in 1 .. Len(buf) : buf[k] \in Bytes
  BY SeqBasics
<1>2. (j + 1) - 1 = j /\ InsertAt(buf, j + 1, b) = m
  BY DEF InsertAt
<1>3. x \in Seq(Bytes) /\ Len(x) = j
  BY <1>1
<1>4. z \in Seq(Bytes) /\ Len(z) = Len(buf) - j
  BY <1>1
<1> HIDE DEF x, z
<1>5. Len(m) = Len(buf) + 1
  <2>1. Len(m) = Len(x) + 1 + Len(z)
    BY <1>3, <1>4
  <2> HIDE DEF m
  <2> QED BY <1>1, <1>3, <1>4, <2>1
<1> HIDE DEF m
<1> QED BY <1>1, <1>2, <1>5 DEF Spares

LEMMA RemoveSpares ==
  ASSUME NEW buf \in Seq(Bytes), NEW j \in Nat, j < Len(buf), NEW y
  PROVE  Spares(buf, RemoveAt(buf, j + 1), y)
<1> DEFINE x == SubSeq(buf, 1, j)
           z == SubSeq(buf, j + 2, Len(buf))
           m == x \o z
<1>1. Len(buf) \in Nat /\ \A k \in 1 .. Len(buf) : buf[k] \in Bytes
  BY SeqBasics
<1>2. (j + 1) - 1 = j /\ (j + 1) + 1 = j + 2 /\ RemoveAt(buf, j + 1) = m
  BY DEF RemoveAt
<1>3. x \in Seq(Bytes) /\ Len(x) = j
  BY <1>1
<1>4. z \in Seq(Bytes) /\ Len(z) = Len(buf) - (j + 1)
  BY <1>1
<1> HIDE DEF x, z
<1>5. Len(m) = Len(buf) - 1
  <2>1. Len(m) = Len(x) + Len(z)
    BY <1>3, <1>4
  <2> HIDE DEF m
  <2> QED BY <1>1, <1>3, <1>4, <2>1
<1> HIDE DEF m
<1> QED BY <1>1, <1>2, <1>5 DEF Spares

LEMMA SameSpares == \A buf, y : Spares(buf, buf, y)
BY DEF Spares

LEMMA BytesSpare ==
  ASSUME NEW buf \in Seq(Bytes), NEW offset \in Nat, NEW end \in Nat, end <= Len(buf),
         NEW m \in MutateBytes(buf, offset, end)
  PROVE  Spares(buf, m, end)
<1>1. Len(buf) \in Nat
  BY SeqBasics
<1>2. CASE m \in PutOne(buf, offset, end, Bytes)
  BY <1>2, PutOneSpares
<1>3. CASE m \in {InsertAt(buf, k + 1, v) : k \in offset .. end - 1, v \in Bytes}
  <2>1. PICK k \in offset .. end - 1, v \in Bytes : m = InsertAt(buf, k + 1, v)
    BY <1>3
  <2>2. k \in Nat /\ k < Len(buf)
    BY <1>1
  <2> QED BY <2>1, <2>2, InsertSpares
<1>4. CASE m \in {RemoveAt(buf, k + 1) : k \in {j \in offset .. end - 1 : end > offset + 1}}
  <2>1. PICK k \in offset .. end - 1 : m = RemoveAt(buf, k + 1)
    BY <1>4
  <2>2. k \in Nat /\ k < Len(buf)
    BY <1>1
  <2> QED BY <2>1, <2>2, RemoveSpares
<1> QED BY <1>2, <1>3, <1>4 DEF MutateBytes

LEMMA TextSpares ==
  ASSUME NEW buf \in Seq(Bytes), NEW offset \in Nat, offset < Len(buf),
         NEW m \in MutateText(buf, offset), NEW f \in Fields, f.type = "cstring"
  PROVE  Spares(buf, m, offset + LeafSize(f, buf, offset))
<1> DEFINE end == EndOfText(buf, offset)
           y == offset + LeafSize(f, buf, offset)
<1>1. Len(buf) \in Nat
  BY SeqBasics
<1>2. end \in Nat /\ offset <= end /\ end <= Len(buf)
  <2>1. offset \in 0 .. Len(buf)
    BY <1>1
  <2>2. end \in offset .. Len(buf)
    BY <2>1, TextEnds
  <2> QED BY <1>1, <2>2
<1>3. \/ m \in PutOne(buf, offset, end, Bytes)
      \/ end < Len(buf) /\ m \in Put(buf, end, Bytes \ {0})
      \/ end = offset /\ m \in Put(buf, offset, Bytes)
  BY DEF MutateText
<1>4. LeafSize(f, buf, offset) = IF offset >= Len(buf) THEN 1
                                 ELSE IF end = Len(buf) THEN Len(buf) - offset
                                 ELSE end - offset + 1
  BY TypesAre DEF LeafSize
<1> HIDE DEF end
<1>5. y \in Nat /\ end <= y /\ offset < y /\ (end < Len(buf) => end < y)
  BY <1>1, <1>2, <1>4
<1> HIDE DEF y
<1>6. Spares(buf, m, y)
  <2>1. CASE m \in PutOne(buf, offset, end, Bytes)
    BY <1>2, <1>5, <2>1, PutOneSpares
  <2>2. CASE end < Len(buf) /\ m \in Put(buf, end, Bytes \ {0})
    BY <1>2, <1>5, <2>2, PutSpares
  <2>3. CASE m \in Put(buf, offset, Bytes)
    BY <1>5, <2>3, PutSpares
  <2> QED BY <1>3, <2>1, <2>2, <2>3
<1> QED BY <1>6 DEF y

LEMMA PrefixedSpares ==
  ASSUME NEW buf \in Seq(Bytes), NEW offset \in Nat, NEW n \in Nat, offset + n <= Len(buf),
         NEW m \in MutatePrefixed(buf, offset, n)
  PROVE  Spares(buf, m, offset + (n + NumberAt(buf, offset, n)))
<1> DEFINE start == offset + n
           number == NumberAt(buf, offset, n)
           a == start + number
           end == Min({a, Len(buf)})
           y == offset + (n + number)
<1>1. Len(buf) \in Nat
  BY SeqBasics
<1>2. number \in Nat
  BY NumberIsNat
<1>3. \/ m \in PutAny(buf, offset, n)
      \/ m \in PutOne(buf, start, end, Bytes)
      \/ m = buf
  BY DEF MutatePrefixed
<1> HIDE DEF number
<1>4. start \in Nat /\ start <= y /\ a \in Nat /\ a = y /\ y \in Nat
  BY <1>2
<1> HIDE DEF a, y, start
<1>5. end \in Nat /\ end <= y
  BY <1>1, <1>4, MinOfTwo
<1> HIDE DEF end
<1>6. Spares(buf, m, y)
  <2>1. CASE m \in PutAny(buf, offset, n)
    BY <1>4, <2>1, PutAnySpares DEF start
  <2>2. CASE m \in PutOne(buf, start, end, Bytes)
    BY <1>4, <1>5, <2>2, PutOneSpares
  <2> QED BY <1>3, <2>1, <2>2, SameSpares
<1> QED BY <1>6 DEF y, number

(* If it does not change the length, it changes nothing behind the field. *)
LEMMA MutatedSpares ==
  ASSUME NEW buf \in Seq(Bytes), NEW offset \in Nat, NEW field \in Fields,
         field.type # "repeated", NEW m \in Mutated(buf, offset, field)
  PROVE  Spares(buf, m, offset + LeafSize(field, buf, offset))
<1> DEFINE a == offset + field.length
           end == Min({a, Len(buf)})
           w == Width[field.type]
           p == Prefix[field.type]
           y == offset + LeafSize(field, buf, offset)
<1>1. Len(buf) \in Nat /\ field.length \in Nat /\ field.type \in Types
  BY SeqBasics, FieldIs
<1>2. a \in Nat /\ end \in Nat /\ end <= Len(buf) /\ end <= a
  <2>1. a \in Nat
    BY <1>1
  <2> HIDE DEF a
  <2> QED BY <1>1, <2>1, MinOfTwo
<1>3. LeafSize(field, buf, offset) \in Nat
  BY LeafSizeIsNat
<1>4. field.type \in {"bytes", "magic", "padding"} => y = a
  BY TypesAre DEF LeafSize
<1> HIDE DEF a
<1>5. CASE field.type \in DOMAIN Width /\ offset + w <= Len(buf)
  <2>1. m \in PutAny(buf, offset, w)
    BY <1>5, TypesAre DEF Mutated
  <2>2. LeafSize(field, buf, offset) = w /\ w \in Nat
    BY <1>5, TypesAre, WidthsAreNat DEF LeafSize
  <2> HIDE DEF w
  <2>3. offset + w \in Nat /\ offset + w <= offset + w
    BY <2>2
  <2> QED BY <2>1, <2>2, <2>3, PutAnySpares
<1>6. CASE field.type \in DOMAIN Prefix /\ offset + p <= Len(buf)
  <2>1. m \in MutatePrefixed(buf, offset, p)
    BY <1>6, TypesAre DEF Mutated
  <2>2. LeafSize(field, buf, offset) = p + NumberAt(buf, offset, p)
    BY <1>6, TypesAre DEF LeafSize
  <2>3. p \in Nat
    BY <1>6, WidthsAreNat
  <2> HIDE DEF p
  <2> QED BY <1>6, <2>1, <2>2, <2>3, PrefixedSpares
<1>7. CASE field.type = "bytes" /\ offset + 1 <= Len(buf)
  <2>1. m \in MutateBytes(buf, offset, end)
    BY <1>7, TypesAre DEF Mutated, a
  <2> HIDE DEF end
  <2>2. Spares(buf, m, end)
    BY <1>2, <2>1, BytesSpare
  <2>3. y = a
    BY <1>4, <1>7
  <2> HIDE DEF y
  <2>4. Spares(buf, m, y)
    BY <1>1, <1>2, <2>2, <2>3 DEF Spares
  <2> QED BY <2>4 DEF y
<1>8. CASE field.type = "cstring" /\ offset + 1 <= Len(buf)
  <2>1. m \in MutateText(buf, offset)
    BY <1>8, TypesAre DEF Mutated
  <2>2. offset < Len(buf)
    BY <1>1, <1>8
  <2> QED BY <1>8, <2>1, <2>2, TextSpares
<1>9. CASE field.type = "magic" /\ offset + 1 <= Len(buf)
  <2>1. m \in UNION {Put(buf, k, Bytes \ {ByteAt(buf, k)}) : k \in offset .. end - 1}
    BY <1>9, TypesAre DEF Mutated, a
  <2> HIDE DEF end
  <2>2. PICK k \in offset .. end - 1 : m \in Put(buf, k, Bytes \ {ByteAt(buf, k)})
    BY <2>1
  <2>3. k \in Nat /\ k < a
    BY <1>2
  <2>4. Spares(buf, m, a)
    BY <1>2, <2>2, <2>3, PutSpares
  <2> QED BY <1>4, <1>9, <2>4
<1>10. CASE field.type = "padding" /\ offset + 1 <= Len(buf)
  <2>1. m \in {[k \in DOMAIN buf |-> IF k \in offset + 1 .. end THEN b ELSE buf[k]] :
                 b \in {0, Base - 1}}
    BY <1>10, TypesAre DEF Mutated, a
  <2> HIDE DEF end
  <2>2. PICK b \in {0, Base - 1} :
          m = [k \in DOMAIN buf |-> IF k \in offset + 1 .. end THEN b ELSE buf[k]]
    BY <2>1
  <2>3. Spares(buf, m, a)
    BY <1>2, <2>2, FillSpares
  <2> QED BY <1>4, <1>10, <2>3
<1>11. CASE /\ ~(field.type \in DOMAIN Width /\ offset + w <= Len(buf))
            /\ ~(field.type \in DOMAIN Prefix /\ offset + p <= Len(buf))
            /\ ~(field.type \in {"bytes", "cstring", "magic", "padding"}
                   /\ offset + 1 <= Len(buf))
  <2>1. m = buf
    BY <1>11 DEF Mutated
  <2> QED BY <2>1, SameSpares
<1> QED BY <1>5, <1>6, <1>7, <1>8, <1>9, <1>10, <1>11


LEMMA PlacesOfLeaves ==
  ASSUME NEW input \in Seq(Bytes), NEW w \in Seq(Fields), \A k \in 1 .. Len(w) : IsLeaf(w[k]),
         NEW p \in Locations(input, w, 0)
  PROVE  \E k \in 1 .. Len(w) :
           /\ w[k].mutable /\ w[k].type # "repeated"
           /\ p.offset = Ends(Each(Sizes(input), w), 0)[k - 1] /\ p.field = w[k]
<1> DEFINE e == Ends(Each(Sizes(input), w), 0)
<1>1. PICK places : /\ PlacesOf(input, places)
                    /\ \A fs, base : Locations(input, fs, base) =
                                       InRow(Each(places, fs), Each(Sizes(input), fs), base)
  BY LocationsAre
<1>2. DOMAIN w = 1 .. Len(w) /\ DOMAIN Each(places, w) = 1 .. Len(w)
  BY SeqBasics DEF Each
<1>3. \A k \in 1 .. Len(w) : w[k] \in Fields /\ Each(places, w)[k] = places[w[k]]
  BY <1>2, SeqBasics DEF Each
<1>4. Locations(input, w, 0) = UNION {Each(places, w)[k][e[k - 1]] : k \in 1 .. Len(w)}
  BY <1>1, <1>2 DEF InRow
<1>5. /\ e \in [0 .. Len(w) -> Nat] /\ Len(w) \in Nat
  BY RowEnds, SeqBasics
<1> HIDE DEF e
<1>6. PICK k \in 1 .. Len(w) : p \in places[w[k]][e[k - 1]]
  BY <1>3, <1>4
<1>7. e[k - 1] \in Nat
  <2>1. k - 1 \in 0 .. Len(w)
    BY <1>5
  <2> QED BY <1>5, <2>1
<1>8. places[w[k]] = PlacesBody(input, w[k], Each(places, w[k].fields))
  BY <1>1, <1>3 DEF PlacesOf
<1>9. ~(w[k].type = "repeated" /\ w[k].mutable)
  BY DEF IsLeaf
<1>10. w[k].type # "repeated" /\ p \in LeafLocation(w[k], e[k - 1])
  <2> DEFINE f == w[k]
             x == e[k - 1]
  <2>1. p \in PlacesBody(input, f, Each(places, f.fields))[x] /\ x \in Nat
    BY <1>6, <1>7, <1>8
  <2>2. ~(f.type = "repeated" /\ f.mutable)
    BY <1>9
  <2> HIDE DEF f, x
  <2>3. p \in IF f.type # "repeated" THEN LeafLocation(f, x)
              ELSE IF ~f.mutable THEN {}
              ELSE UNION {InRow(Each(places, f.fields), Each(Sizes(input), f.fields),
                                Copies(f, input, x)[n]) : n \in 1 .. f.length}
    BY <2>1 DEF PlacesBody
  <2>4. f.type # "repeated" /\ p \in LeafLocation(f, x)
    BY <2>2, <2>3
  <2> QED BY <2>4 DEF f, x
<1> QED BY <1>10 DEF LeafLocation, e

(* The messages of the fields are those Generate puts together. *)
Generates(msg) == \A gs : Generate(gs) = FlattenSeq(Each(msg, gs))

(* Each byte's flag says whether its field is immutable. *)
Flagged(flags, c, w, msg) ==
  \A k \in 1 .. Len(w) : \A j \in 1 .. Len(msg[w[k]]) : flags[c[k - 1] + j] = ~w[k].mutable

(* The flags of Immutable are laid out as the message is. *)
LEMMA FlagsAre ==
  ASSUME NEW msg, MessagesOf(msg), Generates(msg),
         NEW fs \in Seq(Fields), NEW w \in Seq(Fields), w = WrittenOut(fs),
         NEW c, Offsets(c, Each(msg, w))
  PROVE  Flagged(Immutable(fs), c, w, msg)
<1> DEFINE n == Len(w)
           seqs == Each(msg, w)
           row(k) == [j \in 1 .. Len(msg[w[k]]) |-> ~w[k].mutable]
           flags == [k \in 1 .. n |-> row(k)]
<1>1. n \in Nat /\ DOMAIN w = 1 .. n /\ \A k \in 1 .. n : w[k] \in Fields
  BY SeqBasics
<1>2. Len(seqs) = n /\ \A k \in 1 .. n : seqs[k] = msg[w[k]] /\ msg[w[k]] \in Seq(Bytes)
  BY MessagesOfRow
<1>3. \A k \in 1 .. n : Generate(<<w[k]>>) = msg[w[k]]
  <2> TAKE k \in 1 .. n
  <2>1. Each(msg, <<w[k]>>) = <<msg[w[k]]>>
    BY DEF Each
  <2> QED BY <1>2, <2>1, FlattenOfOne DEF Generates
<1>4. \A k \in 1 .. n : Len(msg[w[k]]) \in Nat /\ DOMAIN msg[w[k]] = 1 .. Len(msg[w[k]])
  BY <1>2, SeqBasics
<1>5. Immutable(fs) = FlattenSeq(flags)
  <2>1. [k \in DOMAIN w |-> [j \in DOMAIN Generate(<<w[k]>>) |-> ~w[k].mutable]] = flags
    BY <1>1, <1>3, <1>4
  <2> HIDE DEF flags
  <2> QED BY <2>1 DEF Immutable
<1>6. \A k \in 1 .. n : row(k) \in Seq(BOOLEAN) /\ Len(row(k)) = Len(msg[w[k]])
  BY <1>4
<1>7. flags \in Seq(Seq(BOOLEAN)) /\ Len(flags) = n /\ \A k \in 1 .. n : flags[k] = row(k)
  <2> DEFINE V == Seq(BOOLEAN)
  <2>1. flags \in [1 .. n -> V]
    BY <1>6
  <2>2. \A k \in 1 .. n : flags[k] = row(k)
    OBVIOUS
  <2>3. n \in Nat
    BY <1>1
  <2> HIDE DEF flags, V, n, row
  <2>4. flags \in Seq(V) /\ Len(flags) = n
    BY <2>1, <2>3
  <2> QED BY <2>2, <2>4 DEF V
<1>8. Offsets(c, flags)
  <2>1. /\ c \in [0 .. n -> Nat] /\ c[0] = 0
        /\ \A k \in 1 .. n : c[k] = c[k - 1] + Len(seqs[k])
    BY <1>2 DEF Offsets
  <2> HIDE DEF flags, row
  <2>2. \A k \in 1 .. n : Len(flags[k]) = Len(seqs[k])
    BY <1>2, <1>6, <1>7
  <2> HIDE DEF seqs, n
  <2> QED BY <1>7, <2>1, <2>2 DEF Offsets
<1>9. \A k \in 1 .. n : \A j \in 1 .. Len(flags[k]) :
        FlattenSeq(flags)[c[k - 1] + j] = flags[k][j]
  <2> HIDE DEF flags
  <2>1. \A k \in 1 .. Len(flags) : \A j \in 1 .. Len(flags[k]) :
          FlattenSeq(flags)[c[k - 1] + j] = flags[k][j]
    BY <1>7, <1>8, FlatIndex
  <2> QED BY <1>7, <2>1
<1> HIDE DEF flags
<1>10. ASSUME NEW k \in 1 .. n, NEW j \in 1 .. Len(msg[w[k]])
       PROVE  Immutable(fs)[c[k - 1] + j] = ~w[k].mutable
  <2>1. flags[k] = row(k) /\ Len(flags[k]) = Len(msg[w[k]])
    BY <1>6, <1>7
  <2>2. row(k)[j] = ~w[k].mutable
    OBVIOUS
  <2> HIDE DEF row
  <2> QED BY <1>5, <1>9, <2>1, <2>2
<1> QED BY <1>10 DEF n, Flagged

(* Whatever is done to a generated message at the places of its fields     *)
(* written out, immutable ones are spared if its length stays.             *)
LEMMA GeneratedIsSpared ==
  ASSUME NEW fs \in Seq(Fields), NEW input \in Seq(Bytes), input = Generate(fs),
         Locations(input, fs, 0) = Locations(input, WrittenOut(fs), 0),
         NEW m \in SchemaMutate(input, fs), Len(m) = Len(input),
         NEW i \in 1 .. Len(input), Immutable(fs)[i]
  PROVE  m[i] = input[i]
<1> DEFINE w == WrittenOut(fs)
           n == Len(w)
<1>1. PICK msg : MessagesOf(msg) /\ \A gs : Generate(gs) = FlattenSeq(Each(msg, gs))
  BY MessagesAre
<1> DEFINE seqs == Each(msg, w)
           e == Ends(Each(Sizes(input), w), 0)
<1>2. /\ w \in Seq(Fields) /\ input = Generate(w)
      /\ \A k \in 1 .. n : IsLeaf(w[k])
  BY WrittenOutOf
<1> HIDE DEF w
<1>3. n \in Nat /\ Len(input) \in Nat /\ \A k \in 1 .. n : w[k] \in Fields
  BY <1>2, SeqBasics
<1>4. /\ seqs \in Seq(Seq(Bytes)) /\ Len(seqs) = n
      /\ \A k \in 1 .. n : seqs[k] = msg[w[k]] /\ msg[w[k]] \in Seq(Bytes)
  BY <1>1, <1>2, MessagesOfRow
<1>5. input = FlattenSeq(seqs)
  BY <1>1, <1>2
<1>6. PICK c : Offsets(c, seqs)
  <2> HIDE DEF seqs
  <2> QED BY <1>4, HasOffsets
<1>7. \A k \in 0 .. n : e[k] = c[k]
  <2>1. Holds(input, FlattenSeq(Each(msg, w)), 0)
    BY <1>3, <1>5 DEF Holds
  <2>2. \A k \in 1 .. Len(w) : SizedAs(input, w[k], msg[w[k]])
    BY <1>1, <1>3, SizesHold
  <2>3. 0 \in Nat
    OBVIOUS
  <2>4. \A k \in 0 .. Len(w) : Ends(Each(Sizes(input), w), 0)[k] = 0 + c[k]
    BY <1>1, <1>2, <1>6, <2>1, <2>2, <2>3, RowHolds
  <2>5. \A k \in 0 .. n : c[k] \in Nat
    BY <1>4, <1>6 DEF Offsets
  <2> HIDE DEF e
  <2> QED BY <2>4, <2>5 DEF e
<1>8. \A k \in 1 .. n : e[k] = e[k - 1] + Sizes(input)[w[k]][e[k - 1]]
  BY <1>2, RowEnds
<1>9. /\ \A j, k \in 0 .. n : j <= k => c[j] <= c[k]
      /\ \A x \in 1 .. Len(input) :
           \E k \in 1 .. n : \E j \in 1 .. Len(msg[w[k]]) : x = c[k - 1] + j
  <2> HIDE DEF seqs
  <2>1. seqs \in Seq(Seq(Bytes)) /\ Offsets(c, seqs)
    BY <1>4, <1>6
  <2>2. \A j, k \in 0 .. Len(seqs) : j <= k => c[j] <= c[k]
    BY <2>1, FlatIndex, Zenon
  <2>3. Covers(c, seqs)
    BY <2>1, FlatIndex
  <2> HIDE DEF n
  <2>4. \A j, k \in 0 .. n : j <= k => c[j] <= c[k]
    BY <1>4, <2>2
  <2>5. ASSUME NEW x \in 1 .. Len(input)
        PROVE  \E k \in 1 .. n : \E j \in 1 .. Len(msg[w[k]]) : x = c[k - 1] + j
    <3>1. PICK k \in 1 .. n : \E j \in 1 .. Len(seqs[k]) : x = c[k - 1] + j
      BY <1>4, <1>5, <2>3 DEF Covers
    <3> QED BY <1>4, <3>1
  <2> QED BY <2>4, <2>5
<1>10. /\ \A k \in 0 .. n : c[k] \in Nat
       /\ \A k \in 1 .. n : c[k] = c[k - 1] + Len(msg[w[k]])
  BY <1>4, <1>6 DEF Offsets
<1>16. PICK h \in 1 .. n : \E j \in 1 .. Len(msg[w[h]]) : i = c[h - 1] + j
  BY <1>9
<1>11. PICK j \in 1 .. Len(msg[w[h]]) : i = c[h - 1] + j
  BY <1>16
<1>12. ~w[h].mutable
  <2>1. Immutable(fs)[c[h - 1] + j] = ~w[h].mutable
    <3>1. w = WrittenOut(fs)
      BY DEF w
    <3>2. Offsets(c, Each(msg, w))
      BY <1>6
    <3>3. Generates(msg)
      BY <1>1 DEF Generates
    <3>4. Flagged(Immutable(fs), c, w, msg)
      BY <1>1, <1>2, <3>1, <3>2, <3>3, FlagsAre
    <3> QED BY <1>11, <3>4 DEF Flagged
  <2> QED BY <1>11, <2>1
<1>13. Padded(input, fs) = input
  BY GeneratedIsLong
<1>14. CASE Locations(input, fs, 0) = {}
  <2>1. m \in {input}
    BY <1>13, <1>14 DEF SchemaMutate
  <2> QED BY <2>1
<1>15. CASE Locations(input, fs, 0) # {}
  <2>1. PICK p \in Locations(input, fs, 0) : m \in Mutated(input, p.offset, p.field)
    BY <1>13, <1>15 DEF SchemaMutate
  <2>2. p \in Locations(input, w, 0)
    BY DEF w
  <2>3. PICK k \in 1 .. n : /\ w[k].mutable /\ w[k].type # "repeated"
                            /\ p.offset = e[k - 1] /\ p.field = w[k]
    BY <1>2, <2>2, PlacesOfLeaves
  <2> DEFINE x == c[k - 1]
  <2>4. k - 1 \in 0 .. n /\ k \in 0 .. n /\ h - 1 \in 0 .. n /\ h \in 0 .. n
    BY <1>3
  <2>5. x \in Nat /\ m \in Mutated(input, x, w[k]) /\ w[k] \in Fields
    BY <1>3, <1>7, <1>10, <2>1, <2>3, <2>4
  <2>6. c[k] = x + LeafSize(w[k], input, x)
    <3>1. c[k] = x + Sizes(input)[w[k]][x]
      BY <1>7, <1>8, <2>4
    <3> HIDE DEF x
    <3>2. Sizes(input)[w[k]][x] = LeafSize(w[k], input, x)
      BY <2>3, <2>5, LeafIsSized
    <3> QED BY <3>1, <3>2
  <2> HIDE DEF x
  <2>7. Keeps(input, m, x)
    BY <2>5, MutatedKeeps
  <2>8. Spares(input, m, c[k])
    BY <2>3, <2>5, <2>6, MutatedSpares
  <2>9. h # k
    BY <1>12, <2>3
  <2>10. /\ c[h - 1] \in Nat /\ c[h] \in Nat /\ c[h] = c[h - 1] + Len(msg[w[h]])
         /\ Len(msg[w[h]]) \in Nat
    BY <1>4, <1>10, <2>4, SeqBasics
  <2>11. CASE h < k
    <3>1. h <= k - 1
      BY <2>11
    <3>2. c[h] <= x
      BY <1>9, <2>4, <3>1 DEF x
    <3>3. i \in 1 .. x
      <4>1. c[h - 1] + Len(msg[w[h]]) <= x
        BY <2>10, <3>2
      <4> QED BY <1>11, <2>5, <2>10, <4>1, Within
    <3> QED BY <2>7, <3>3 DEF Keeps
  <2>12. CASE k < h
    <3>1. k <= h - 1
      BY <2>12
    <3>2. c[k] <= c[h - 1] /\ c[k] \in Nat
      BY <1>9, <1>10, <2>4, <3>1
    <3>3. c[k] < c[h - 1] + j
      <4>1. c[h - 1] \in Nat /\ Len(msg[w[h]]) \in Nat
        BY <2>10
      <4> QED BY <3>2, <4>1, Behind
    <3>4. c[k] < i
      BY <1>11, <3>3
    <3> QED BY <2>8, <3>4 DEF Spares
  <2> QED BY <2>9, <2>11, <2>12
<1> QED BY <1>14, <1>15


(* What the first mutation may not change, as an action. *)
FirstIsSpared ==
  rounds = 0 /\ seed = Generate(fields) /\ Len(message') = Len(message) =>
    \A k \in DOMAIN message : Immutable(fields)[k] => message'[k] = message[k]

LEMMA StepSpares ==
  ASSUME NEW A, AreRegular(A), Files \subseteq Seq(A), Inv,
         fields \in Files \/ fields = InferSchema(samples),
         rounds = 0 => message = seed, Mutate
  PROVE  FirstIsSpared
<1> SUFFICES ASSUME rounds = 0, seed = Generate(fields), Len(message') = Len(message),
                    NEW k \in DOMAIN message, Immutable(fields)[k]
             PROVE  message'[k] = message[k]
  BY DEF FirstIsSpared
<1>1. message = Generate(fields)
  OBVIOUS
<1>2. fields \in Seq(Fields) /\ message \in Seq(Bytes)
  BY DEF Inv, TypeOK
<1>3. k \in 1 .. Len(message)
  BY <1>2, SeqBasics
<1>4. Locations(message, fields, 0) = Locations(message, WrittenOut(fields), 0)
  BY CopiesHold DEF CopiesAreFields
<1>5. message' \in SchemaMutate(message, fields)
  BY DEF Mutate
<1> QED BY <1>1, <1>2, <1>3, <1>4, <1>5, GeneratedIsSpared

(* Under the same condition the first mutation of a generated message that *)
(* keeps its length changes no byte of an immutable field: the places that *)
(* collect_mutable finds are those of the mutable fields, and a strategy   *)
(* changes nothing before and nothing behind its field.                    *)
THEOREM ImmutableSpared ==
  ASSUME NEW A, AreRegular(A), Files \subseteq Seq(A)
  PROVE  Spec => ImmutableFieldsAreSpared
<1> DEFINE J == /\ fields \in Files \/ fields = InferSchema(samples)
                /\ rounds = 0 => message = seed
<1>1. Init => J
  BY DEF Init
<1>2. Inv /\ J /\ [Next]_vars => J'
  <2> SUFFICES ASSUME Inv, J, [Next]_vars PROVE J'
    OBVIOUS
  <2>1. CASE Mutate
    <3>1. rounds' # 0
      BY <2>1 DEF Inv, TypeOK, Mutate
    <3> QED BY <2>1, <3>1 DEF Mutate
  <2>2. CASE UNCHANGED vars
    BY <2>2 DEF vars
  <2> QED BY <2>1, <2>2 DEF Next
<1>3. Inv /\ J /\ [Next]_vars => [FirstIsSpared]_vars
  BY StepSpares DEF Next
<1>4. ImmutableFieldsAreSpared <=> [][FirstIsSpared]_vars
  BY PTL DEF ImmutableFieldsAreSpared, FirstIsSpared
<1> HIDE DEF J
<1> QED BY <1>1, <1>2, <1>3, <1>4, Invariance, PTL DEF Spec
=============================================================================

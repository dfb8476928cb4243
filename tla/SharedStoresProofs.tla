------------------------- MODULE SharedStoresProofs -------------------------
(***************************************************************************)
(* Module SharedStores, for any number of campaigns, signatures, replies   *)
(* and starts: it implements module Ledger, fills the corpus whole, and    *)
(* uses what the replies of a language model hold.                         *)
(*                                                                         *)
(* Ledger: the step that needs an argument is the saving of a file, which  *)
(* maps to Ledger's only if no file was saved before.  That is so because  *)
(* only an INSERT leads to it, which succeeds once for a signature, and    *)
(* the row stays: IInv keeps, beside the types, SavesAreDue.               *)
(*                                                                         *)
(* Replies: ParseGives is about texts, not states, and is proved by        *)
(* induction over a text in the form that a set of numbers that is not     *)
(* empty has a least and, when it is bounded, a greatest element.          *)
(***************************************************************************)
EXTENDS SharedStores, FiniteSetTheorems, SequenceTheorems, WellFoundedInduction, TLAPS

(* Every set of natural numbers that is not empty has a least element:     *)
(* what the proofs by induction below rest on.                             *)
LEMMA HasLeast ==
  ASSUME NEW T, T \subseteq Nat, T # {}
  PROVE  \E x \in T : \A y \in T : x <= y
<1> DEFINE R == {ss \in Nat \X Nat : ss[1] < ss[2]}
<1>1. IsWellFoundedOn(R, Nat)
  BY NatLessThanWellFounded DEF OpToRel
<1>2. PICK x \in T : \A y \in T : ~(<<y, x>> \in R)
  BY <1>1, WFMin, Zenon
<1>3. ASSUME NEW y \in T PROVE x <= y
  <2>1. x \in Nat /\ y \in Nat /\ ~(<<y, x>> \in R)
    BY <1>2
  <2>2. ~(y < x)
    BY <2>1
  <2> QED BY <2>1, <2>2
<1> QED
  BY <1>3

LEMMA HasGreatest ==
  ASSUME NEW n \in Nat, NEW T, T \subseteq 0 .. n, T # {}
  PROVE  \E x \in T : \A y \in T : y <= x
<1> DEFINE U == {n - x : x \in T}
<1>1. \A x \in T : x \in Nat /\ x <= n
  OBVIOUS
<1>4. U \subseteq Nat /\ U # {}
  <2>1. \A x \in T : n - x \in Nat
    BY <1>1
  <2>2. U \subseteq Nat
    BY <2>1
  <2> QED BY <2>2
<1>2. PICK u \in U : \A v \in U : u <= v
  BY <1>4, HasLeast
<1>3. PICK x \in T : u = n - x
  OBVIOUS
<1>5. \A y \in T : y <= x
  <2> TAKE y \in T
  <2>1. n - y \in U
    OBVIOUS
  <2>2. n - x <= n - y /\ x \in Nat /\ y \in Nat
    BY <1>1, <1>2, <1>3, <2>1
  <2> QED BY <2>2
<1> QED BY <1>5

IsAscending(e, S) ==
  /\ e \in [1 .. Cardinality(S) -> S]
  /\ \A i, j \in 1 .. Cardinality(S) : i < j => e[i] < e[j]

LEMMA AscendingExists ==
  \A S \in SUBSET Nat : IsFiniteSet(S) => \E e : IsAscending(e, S)
<1> DEFINE Bad == {n \in Nat : \E S \in SUBSET Nat :
                     /\ IsFiniteSet(S) /\ Cardinality(S) = n
                     /\ ~ \E e : IsAscending(e, S)}
<1>1. Bad = {}
  <2> SUFFICES ASSUME Bad # {} PROVE FALSE
    OBVIOUS
  <2> HIDE DEF Bad
  <2>1. Bad \subseteq Nat
    BY DEF Bad
  <2>2. PICK n \in Bad : \A m \in Bad : n <= m
    BY <2>1, HasLeast
  <2>3. PICK S \in SUBSET Nat : /\ IsFiniteSet(S) /\ Cardinality(S) = n
                                /\ ~ \E e : IsAscending(e, S)
    BY DEF Bad
  <2>4. CASE S = {}
    <3>1. IsAscending([i \in 1 .. 0 |-> 0], S)
      BY <2>4, FS_EmptySet DEF IsAscending
    <3> QED BY <2>3, <3>1
  <2>5. CASE S # {}
    <3>1. PICK a \in S : \A y \in S : a <= y
      BY <2>5, HasLeast
    <3> DEFINE U == S \ {a}
    <3>2. IsFiniteSet(U) /\ Cardinality(U) = n - 1 /\ n \in Nat /\ n - 1 \in Nat
      <4>1. IsFiniteSet(U) /\ Cardinality(U) = n - 1
        BY <2>3, FS_RemoveElement
      <4>2. Cardinality(U) \in Nat
        BY <4>1, FS_CardinalityType
      <4> QED BY <4>1, <4>2, <2>1
    <3>3. PICK f : IsAscending(f, U)
      <4>1. n - 1 \notin Bad
        BY <2>2, <3>2
      <4> QED BY <4>1, <3>2 DEF Bad
    <3> DEFINE e == [i \in 1 .. n |-> IF i = 1 THEN a ELSE f[i - 1]]
    <3>4. /\ \A i \in 2 .. n : i - 1 \in 1 .. n - 1 /\ f[i - 1] \in U
          /\ \A i, j \in 1 .. n - 1 : i < j => f[i] < f[j]
      <4>1. f \in [1 .. n - 1 -> U] /\ \A i, j \in 1 .. n - 1 : i < j => f[i] < f[j]
        BY <3>2, <3>3 DEF IsAscending
      <4>2. \A i \in 2 .. n : i - 1 \in 1 .. n - 1
        BY <3>2
      <4> QED BY <4>1, <4>2
    <3>5. e \in [1 .. n -> S]
      BY <3>2, <3>4
    <3>6. ASSUME NEW i \in 1 .. n, NEW j \in 1 .. n, i < j PROVE e[i] < e[j]
      <4>1. j \in 2 .. n /\ e[j] = f[j - 1]
        BY <3>6, <3>2
      <4>2. CASE i = 1
        <5>1. f[j - 1] \in U
          BY <3>4, <4>1
        <5>2. e[i] = a /\ a <= f[j - 1] /\ a # f[j - 1] /\ a \in Nat /\ f[j - 1] \in Nat
          BY <4>2, <3>1, <3>2, <5>1
        <5> QED BY <4>1, <5>2
      <4>3. CASE i # 1
        <5>1. i - 1 \in 1 .. n - 1 /\ j - 1 \in 1 .. n - 1 /\ i - 1 < j - 1 /\ e[i] = f[i - 1]
          BY <3>6, <3>2, <4>3
        <5> QED BY <4>1, <5>1, <3>4
      <4> QED BY <4>2, <4>3
    <3>7. IsAscending(e, S)
      BY <2>3, <3>5, <3>6 DEF IsAscending
    <3> QED BY <2>3, <3>7
  <2> QED BY <2>4, <2>5
<1> SUFFICES ASSUME NEW S \in SUBSET Nat, IsFiniteSet(S) PROVE \E e : IsAscending(e, S)
  OBVIOUS
<1>2. Cardinality(S) \in Nat
  BY FS_CardinalityType
<1> QED BY <1>1, <1>2

(* Ascending lists the elements of a set, and all of them. *)
LEMMA AscendingLists ==
  ASSUME NEW S \in SUBSET Nat, IsFiniteSet(S)
  PROVE  /\ IsAscending(Ascending(S), S)
         /\ \A x \in S : \E n \in 1 .. Cardinality(S) : Ascending(S)[n] = x
<1> DEFINE e == Ascending(S)
           n == Cardinality(S)
<1>1. n \in Nat
  BY FS_CardinalityType
<1>2. IsAscending(e, S)
  <2>1. \E f \in [1 .. n -> S] : \A i, j \in DOMAIN f : i < j => f[i] < f[j]
    BY AscendingExists DEF IsAscending
  <2>2. e \in [1 .. n -> S] /\ \A i, j \in DOMAIN e : i < j => e[i] < e[j]
    BY <2>1 DEF Ascending
  <2> QED BY <2>2 DEF IsAscending
<1> HIDE DEF e
<1>3. ASSUME NEW i \in 1 .. n, NEW j \in 1 .. n, e[i] = e[j] PROVE i = j
  <2>1. e[i] \in Nat /\ e[j] \in Nat
    BY <1>2 DEF IsAscending
  <2>2. ~(i < j) /\ ~(j < i)
    BY <1>2, <1>3, <2>1 DEF IsAscending
  <2> QED BY <2>2
<1>4. e \in Injection(1 .. n, S)
  BY <1>2, <1>3 DEF IsAscending, Injection, IsInjective
<1>5. Cardinality(1 .. n) = n
  BY <1>1, FS_Interval
<1>6. e \in Surjection(1 .. n, S)
  BY <1>4, <1>5, FS_Injection
<1> QED
  BY <1>2, <1>6 DEF Surjection, e

(* What is picked are the elements at the places, and all of them. *)
LEMMA AtPicks ==
  ASSUME NEW s, NEW places \in SUBSET Nat, IsFiniteSet(places)
  PROVE  /\ At(s, places) \in Seq(Range(At(s, places)))
         /\ Range(At(s, places)) = {s[k] : k \in places}
<1> DEFINE n == Cardinality(places)
           e == Ascending(places)
<1>1. n \in Nat /\ e \in [1 .. n -> places]
  BY FS_CardinalityType, AscendingLists DEF IsAscending
<1>2. \A k \in places : \E i \in 1 .. n : e[i] = k
  BY AscendingLists
<1> HIDE DEF n, e
<1>3. At(s, places) = [i \in 1 .. n |-> s[e[i]]]
  BY DEF At, n, e
<1>4. Range(At(s, places)) = {s[k] : k \in places}
  <2>1. Range(At(s, places)) = {s[e[i]] : i \in 1 .. n}
    BY <1>3 DEF Range
  <2>2. \A i \in 1 .. n : e[i] \in places
    BY <1>1
  <2> QED BY <2>1, <2>2, <1>2
<1>5. \A i \in 1 .. n : s[e[i]] \in Range(At(s, places))
  BY <1>3 DEF Range
<1>6. At(s, places) \in [1 .. n -> Range(At(s, places))]
  BY <1>3, <1>5
<1> QED BY <1>1, <1>4, <1>6

-----------------------------------------------------------------------------
(* The parts of a text, and those that are objects *)
IsText(s) == s \in Seq(Range(s))

LEMMA TextBasics ==
  ASSUME NEW s, IsText(s)
  PROVE  Len(s) \in Nat /\ DOMAIN s = 1 .. Len(s) /\ \A k \in DOMAIN s : s[k] \in Range(s)
BY DEF IsText, Range

LEMMA PartIs ==
  ASSUME NEW s, IsText(s), NEW i \in DOMAIN s, NEW j \in DOMAIN s
  PROVE  /\ SubSeq(s, i, j) \in Seq(Range(s))
         /\ Len(SubSeq(s, i, j)) = IF i <= j THEN j - i + 1 ELSE 0
         /\ \A m \in i .. j : SubSeq(s, i, j)[m - i + 1] = s[m]
<1>1. i \in Int /\ j \in Int /\ \A m \in i .. j : s[m] \in Range(s)
  BY TextBasics
<1>2. /\ SubSeq(s, i, j) \in Seq(Range(s))
      /\ Len(SubSeq(s, i, j)) = IF i <= j THEN j - i + 1 ELSE 0
      /\ \A k \in 1 .. j - i + 1 : SubSeq(s, i, j)[k] = s[i + k - 1]
  BY <1>1, SubSeqProperties
<1>3. ASSUME NEW m \in i .. j PROVE SubSeq(s, i, j)[m - i + 1] = s[m]
  <2>1. m - i + 1 \in 1 .. j - i + 1 /\ i + (m - i + 1) - 1 = m
    BY <1>1
  <2> QED BY <1>2, <2>1
<1> QED BY <1>2, <1>3

IsSpan(s, i, j) ==
  /\ i < j /\ s[i].kind = "lbrace" /\ s[j].kind = "rbrace"
  /\ \A m \in i + 1 .. j - 1 : s[m].kind \in Members

LEMMA ObjectIsSpan ==
  ASSUME NEW s, IsText(s), NEW i \in DOMAIN s, NEW j \in DOMAIN s
  PROVE  IsObject(SubSeq(s, i, j)) <=> IsSpan(s, i, j)
<1> DEFINE t == SubSeq(s, i, j)
<1>1. i \in Int /\ j \in Int
  BY TextBasics
<1>2. /\ t \in Seq(Range(s)) /\ Len(t) = IF i <= j THEN j - i + 1 ELSE 0
      /\ \A m \in i .. j : t[m - i + 1] = s[m]
  BY PartIs
<1> HIDE DEF t
<1>3. IsObject(t) => i < j
  <2>1. IsObject(t) => Len(t) >= 2
    BY DEF IsObject
  <2> QED BY <1>1, <1>2, <2>1
<1>4. ASSUME i < j PROVE IsObject(t) <=> IsSpan(s, i, j)
  <2>1. Len(t) = j - i + 1 /\ t # <<>> /\ Head(t) = t[1] /\ Last(t) = t[j - i + 1]
    BY <1>1, <1>2, <1>4 DEF Last
  <2>2. t[1] = s[i] /\ t[j - i + 1] = s[j]
    <3>1. i \in i .. j /\ j \in i .. j /\ i - i + 1 = 1
      BY <1>1, <1>4
    <3> QED BY <1>2, <3>1
  <2>3. (\A k \in 2 .. Len(t) - 1 : t[k].kind \in Members)
          <=> \A m \in i + 1 .. j - 1 : s[m].kind \in Members
    <3>1. ASSUME \A k \in 2 .. Len(t) - 1 : t[k].kind \in Members, NEW m \in i + 1 .. j - 1
          PROVE  s[m].kind \in Members
      <4>1. m \in i .. j /\ m - i + 1 \in 2 .. Len(t) - 1
        BY <1>1, <2>1
      <4> QED BY <3>1, <4>1, <1>2
    <3>2. ASSUME \A m \in i + 1 .. j - 1 : s[m].kind \in Members, NEW k \in 2 .. Len(t) - 1
          PROVE  t[k].kind \in Members
      <4>1. i + k - 1 \in i + 1 .. j - 1 /\ i + k - 1 \in i .. j /\ (i + k - 1) - i + 1 = k
        BY <1>1, <2>1
      <4> QED BY <3>2, <4>1, <1>2
    <3> QED BY <3>1, <3>2
  <2>4. Len(t) >= 2
    BY <1>1, <1>4, <2>1
  <2> QED BY <1>4, <2>1, <2>2, <2>3, <2>4 DEF IsObject, IsSpan
<1>5. IsSpan(s, i, j) => i < j
  BY DEF IsSpan
<1> QED BY <1>3, <1>4, <1>5 DEF t

LEMMA ObjectHere ==
  ASSUME NEW s, NEW i \in DOMAIN s, NEW j \in DOMAIN s, IsObject(SubSeq(s, i, j))
  PROVE  SubSeq(s, i, j) \in ObjectsIn(s)
<1> DEFINE p == <<i, j>>
           D == DOMAIN s
<1>1. p[1] = i /\ p[2] = j
  OBVIOUS
<1>2. p \in D \X D
  <2>1. i \in D /\ j \in D
    OBVIOUS
  <2> HIDE DEF D
  <2> QED BY <2>1
<1> HIDE DEF p
<1>3. IsObject(SubSeq(s, p[1], p[2]))
  BY <1>1
<1>4. p \in Spans(s)
  BY <1>2, <1>3, Zenon DEF Spans
<1>5. SubSeq(s, p[1], p[2]) \in ObjectsIn(s)
  BY <1>4, Zenon DEF ObjectsIn
<1> QED BY <1>1, <1>5

LEMMA ObjectFrom ==
  ASSUME NEW s, NEW t \in ObjectsIn(s)
  PROVE  \E i, j \in DOMAIN s : t = SubSeq(s, i, j) /\ IsObject(t)
<1>1. PICK p \in Spans(s) : t = SubSeq(s, p[1], p[2])
  BY DEF ObjectsIn
<1>2. p \in (DOMAIN s) \X (DOMAIN s)
  BY Zenon DEF Spans
<1>3. IsObject(SubSeq(s, p[1], p[2]))
  BY Zenon DEF Spans
<1> DEFINE D == DOMAIN s
<1>4. p[1] \in D /\ p[2] \in D
  <2>1. p \in D \X D
    BY <1>2
  <2> HIDE DEF D
  <2> QED BY <2>1
<1> QED BY <1>1, <1>3, <1>4

(* An array's own scan for the end of an object finds it, and all objects  *)
(* in the text of an array are found. *)
LEMMA ArrayIsObjects ==
  ASSUME NEW s, IsText(s), IsArray(s)
  PROVE  /\ ObjectsOfArray(s) \in Seq(Range(ObjectsOfArray(s)))
         /\ Range(ObjectsOfArray(s)) = ObjectsIn(s)
<1> DEFINE opens == {k \in DOMAIN s : s[k].kind = "lbrace"}
           IsClose(k, l) == /\ l > k /\ s[l].kind = "rbrace"
                            /\ \A i \in k .. l - 1 : s[i].kind # "rbrace"
           close(k) == CHOOSE l \in DOMAIN s : IsClose(k, l)
           N == Len(s)
<1>1. /\ N \in Nat /\ DOMAIN s = 1 .. N /\ s[N].kind = "rbracket"
      /\ \A k \in 1 .. N - 1 : Follows(s[k].kind, s[k + 1].kind)
  BY TextBasics DEF IsArray, Last
<1> HIDE DEF N, close, IsClose, opens
<1>8. N \in Nat
  BY <1>1
<1>9. DOMAIN s = 1 .. N
  BY <1>1
<1>10. s[N].kind = "rbracket"
  BY <1>1
<1>7. \A k \in opens : k \in 1 .. N - 1 /\ s[k].kind = "lbrace"
  <2> SUFFICES ASSUME NEW k \in opens PROVE k \in 1 .. N - 1 /\ s[k].kind = "lbrace"
    OBVIOUS
  <2>1. k \in 1 .. N /\ s[k].kind = "lbrace"
    BY <1>9 DEF opens
  <2>2. k # N
    BY <1>10, <2>1
  <2> QED BY <1>8, <2>1, <2>2
<1>2. ASSUME NEW k \in opens
      PROVE  \E l \in DOMAIN s : IsSpan(s, k, l)
  <2>1. k \in 1 .. N - 1 /\ s[k].kind = "lbrace"
    BY <1>7
  <2> DEFINE Out == {m \in k + 1 .. N : s[m].kind \notin Members}
  <2>2. N \in Out
    <3>1. N \in k + 1 .. N
      BY <1>8, <2>1
    <3> QED BY <1>10, <3>1 DEF Members
  <2>3. PICK m \in Out : \A j \in Out : m <= j
    <3>1. Out \subseteq Nat /\ Out # {}
      BY <1>8, <2>1, <2>2
    <3> HIDE DEF Out
    <3> QED BY <3>1, HasLeast
  <2>4. m - 1 \in 1 .. N - 1 /\ m \in 1 .. N /\ m > k /\ m - 1 + 1 = m
    BY <1>8, <2>1
  <2>5. \A j \in k + 1 .. m - 1 : s[j].kind \in Members
    <3> SUFFICES ASSUME NEW j \in k + 1 .. m - 1, s[j].kind \notin Members PROVE FALSE
      OBVIOUS
    <3>1. j \in k + 1 .. N /\ j < m
      BY <1>8, <2>1, <2>4
    <3>2. m <= j
      BY <2>3, <3>1
    <3> QED BY <2>4, <3>1, <3>2
  <2>6. s[m - 1].kind \in {"lbrace"} \union Members
    <3>1. CASE m - 1 = k
      BY <3>1, <2>1
    <3>2. CASE m - 1 # k
      <4>1. m - 1 \in k + 1 .. m - 1
        BY <2>1, <2>4, <3>2
      <4> QED BY <4>1, <2>5
    <3> QED BY <3>1, <3>2
  <2>7. Follows(s[m - 1].kind, s[m].kind)
    BY <1>1, <2>4
  <2>8. s[m].kind = "rbrace"
    <3>1. s[m].kind \notin Members
      BY <2>3
    <3> QED BY <2>6, <2>7, <3>1 DEF Follows, Members
  <2> QED BY <1>1, <2>1, <2>4, <2>5, <2>8 DEF IsSpan
<1>3. ASSUME NEW k \in DOMAIN s, NEW l \in DOMAIN s, IsSpan(s, k, l)
      PROVE  k \in opens /\ close(k) = l
  <2>0. k \in 1 .. N /\ l \in 1 .. N /\ N \in Nat
    BY <1>1
  <2>1. IsClose(k, l)
    <3>1. ASSUME NEW i \in k .. l - 1 PROVE s[i].kind # "rbrace"
      <4>1. i = k \/ i \in k + 1 .. l - 1
        BY <2>0
      <4> QED BY <4>1, <1>3 DEF IsSpan, Members
    <3> QED BY <2>0, <1>3, <3>1 DEF IsSpan, IsClose
  <2>2. ASSUME NEW m \in DOMAIN s, IsClose(k, m) PROVE m = l
    <3>0. m \in 1 .. N /\ m > k /\ l > k
      BY <1>1, <2>1, <2>2 DEF IsClose
    <3>1. m < l => m \in k .. l - 1
      BY <2>0, <3>0
    <3>2. l < m => l \in k .. m - 1
      BY <2>0, <3>0
    <3>3. ~(m < l) /\ ~(l < m)
      BY <2>1, <2>2, <3>1, <3>2 DEF IsClose
    <3> QED BY <2>0, <3>0, <3>3
  <2>3. close(k) = l
    BY <2>1, <2>2 DEF close
  <2> QED BY <2>3, <1>3 DEF IsSpan, opens
<1>4. opens \in SUBSET Nat /\ IsFiniteSet(opens)
  <2>1. IsFiniteSet(1 .. N) /\ opens \in SUBSET (1 .. N)
    BY <1>8, <1>9, FS_Interval DEF opens
  <2>2. IsFiniteSet(opens)
    BY <2>1, FS_Subset, Zenon
  <2>3. opens \subseteq Nat
    BY <1>8, <2>1
  <2> QED BY <2>2, <2>3
<1> DEFINE parts == [k \in opens |-> SubSeq(s, k, close(k))]
<1>5. ObjectsOfArray(s) = At(parts, opens)
  BY DEF ObjectsOfArray, opens, close, IsClose
<1>6. ObjectsIn(s) = {parts[k] : k \in opens}
  <2>1. ASSUME NEW k \in opens PROVE parts[k] \in ObjectsIn(s)
    <3>1. PICK l \in DOMAIN s : IsSpan(s, k, l)
      BY <1>2
    <3>2. close(k) = l /\ k \in DOMAIN s
      BY <1>3, <3>1 DEF opens
    <3>3. parts[k] = SubSeq(s, k, l)
      BY <3>2
    <3> HIDE DEF parts
    <3>4. IsObject(parts[k])
      BY <3>1, <3>2, <3>3, ObjectIsSpan
    <3> QED BY <3>2, <3>3, <3>4, ObjectHere
  <2>2. ASSUME NEW t \in ObjectsIn(s) PROVE \E k \in opens : parts[k] = t
    <3>1. PICK k \in DOMAIN s, l \in DOMAIN s : t = SubSeq(s, k, l) /\ IsObject(t)
      BY ObjectFrom
    <3>2. IsSpan(s, k, l)
      BY <3>1, ObjectIsSpan
    <3>3. k \in opens /\ close(k) = l
      BY <1>3, <3>2
    <3> QED BY <3>1, <3>3
  <2> HIDE DEF parts
  <2> QED BY <2>1, <2>2
<1> HIDE DEF parts
<1> QED BY <1>4, <1>5, <1>6, AtPicks

-----------------------------------------------------------------------------
(* The scan for objects: ExtractObjects defines it by a recursive function *)
(* of the place to scan from, which exists since Scan looks only ahead.    *)

Scan(s, f, k) ==
  IF k > Len(s) THEN <<>>
  ELSE IF k \notin Opens(s) THEN f[k + 1]
  ELSE IF Ends(s, k) = {} THEN <<>>
  ELSE <<SubSeq(s, k, FirstEnd(s, k))>> \o f[FirstEnd(s, k) + 1]

LEMMA EndsAre ==
  ASSUME NEW s, IsText(s), NEW k \in DOMAIN s
  PROVE  /\ \A l \in Ends(s, k) : l \in DOMAIN s /\ l > k
         /\ Ends(s, k) # {} => /\ FirstEnd(s, k) \in Ends(s, k)
                               /\ \A l \in Ends(s, k) : FirstEnd(s, k) <= l
<1>1. \A l \in Ends(s, k) : l \in DOMAIN s /\ l > k
  BY DEF Ends, Closes
<1>2. ASSUME Ends(s, k) # {} PROVE \E l \in Ends(s, k) : \A m \in Ends(s, k) : l <= m
  <2>1. Ends(s, k) \subseteq Nat
    BY <1>1, TextBasics
  <2> QED BY <1>2, <2>1, HasLeast
<1>3. Ends(s, k) # {} => /\ FirstEnd(s, k) \in Ends(s, k)
                         /\ \A l \in Ends(s, k) : FirstEnd(s, k) <= l
  BY <1>2, Zenon DEF FirstEnd
<1> QED BY <1>1, <1>3

LEMMA ScanLooksAhead ==
  ASSUME NEW s, IsText(s), NEW k \in 1 .. Len(s) + 1, NEW f, NEW g,
         \A m \in k + 1 .. Len(s) + 1 : f[m] = g[m]
  PROVE  Scan(s, f, k) = Scan(s, g, k)
<1>1. Len(s) \in Nat /\ DOMAIN s = 1 .. Len(s)
  BY TextBasics
<1>2. CASE k > Len(s)
  BY <1>2 DEF Scan
<1>3. CASE k <= Len(s)
  <2>1. k + 1 \in k + 1 .. Len(s) + 1 /\ k \in DOMAIN s
    BY <1>1, <1>3
  <2>2. f[k + 1] = g[k + 1]
    BY <2>1
  <2>3. ASSUME Ends(s, k) # {}
        PROVE  f[FirstEnd(s, k) + 1] = g[FirstEnd(s, k) + 1]
    <3>1. FirstEnd(s, k) \in DOMAIN s /\ FirstEnd(s, k) > k
      BY <2>1, <2>3, EndsAre
    <3>2. FirstEnd(s, k) + 1 \in k + 1 .. Len(s) + 1
      BY <1>1, <3>1
    <3> QED BY <3>2
  <2> QED BY <2>2, <2>3 DEF Scan
<1> QED BY <1>1, <1>2, <1>3

IsScan(s, f) ==
  /\ f = [k \in 1 .. Len(s) + 1 |-> f[k]]
  /\ \A k \in 1 .. Len(s) + 1 : f[k] = Scan(s, f, k)

LEMMA ScanExists ==
  ASSUME NEW s, IsText(s)
  PROVE  \E f : IsScan(s, f)
<1> DEFINE N == Len(s) + 1
           From(f, m) == \A k \in m .. N : f[k] = Scan(s, f, k)
           Bad == {m \in 1 .. N : ~ \E f : From(f, m)}
<1>1. N \in Nat /\ N >= 1
  BY TextBasics
<1> HIDE DEF N
<1>2. ASSUME Bad # {} PROVE FALSE
  <2> HIDE DEF Bad
  <2>1. Bad \subseteq 0 .. N
    BY <1>1 DEF Bad
  <2>2. PICK m \in Bad : \A k \in Bad : k <= m
    BY <1>1, <1>2, <2>1, HasGreatest
  <2>3. m \in 1 .. N /\ ~ \E f : From(f, m)
    BY DEF Bad
  <2>4. \E f : \A k \in m + 1 .. N : f[k] = Scan(s, f, k)
    <3>1. CASE m = N
      <4>1. m + 1 .. N = {}
        BY <1>1, <3>1
      <4> QED BY <4>1
    <3>2. CASE m # N
      <4>1. m + 1 \in 1 .. N /\ m + 1 \notin Bad
        BY <1>1, <2>1, <2>2, <2>3, <3>2
      <4>2. \E f : From(f, m + 1)
        BY <4>1 DEF Bad
      <4> QED BY <4>2
    <3> QED BY <3>1, <3>2
  <2>5. PICK f : \A k \in m + 1 .. N : f[k] = Scan(s, f, k)
    BY <2>4
  <2> DEFINE g == [k \in m .. N |-> IF k = m THEN Scan(s, f, m) ELSE f[k]]
  <2>6. g[m] = Scan(s, f, m) /\ \A k \in m + 1 .. N : g[k] = f[k]
    BY <1>1, <2>3
  <2> HIDE DEF g
  <2>7. ASSUME NEW k \in m .. N PROVE g[k] = Scan(s, g, k)
    <3>1. k \in 1 .. Len(s) + 1
      BY <1>1, <2>3 DEF N
    <3>2. \A i \in k + 1 .. Len(s) + 1 : f[i] = g[i]
      <4>1. \A i \in k + 1 .. N : i \in m + 1 .. N
        BY <1>1, <2>3
      <4> QED BY <4>1, <2>6 DEF N
    <3>3. Scan(s, f, k) = Scan(s, g, k)
      BY <3>1, <3>2, ScanLooksAhead
    <3>4. g[k] = Scan(s, f, k)
      <4>1. k = m \/ k \in m + 1 .. N
        BY <1>1, <2>3
      <4> QED BY <4>1, <2>5, <2>6
    <3> QED BY <3>3, <3>4
  <2>8. From(g, m)
    BY <2>7
  <2> QED BY <2>3, <2>8
<1>3. PICK f : From(f, 1)
  <2>1. 1 \notin Bad /\ 1 \in 1 .. N
    BY <1>1, <1>2
  <2> QED BY <2>1
<1> DEFINE g == [k \in 1 .. N |-> f[k]]
<1>4. \A k \in 1 .. N : g[k] = f[k]
  OBVIOUS
<1>5. g = [k \in 1 .. N |-> g[k]]
  OBVIOUS
<1> HIDE DEF g
<1>6. ASSUME NEW k \in 1 .. N PROVE g[k] = Scan(s, g, k)
  <2>1. \A i \in k + 1 .. Len(s) + 1 : f[i] = g[i]
    BY <1>1, <1>4 DEF N
  <2>2. k \in 1 .. Len(s) + 1
    BY DEF N
  <2>3. Scan(s, f, k) = Scan(s, g, k)
    BY <2>1, <2>2, ScanLooksAhead
  <2>4. f[k] = Scan(s, f, k)
    BY <1>3
  <2> QED BY <1>4, <2>3, <2>4
<1>7. IsScan(s, g)
  BY <1>5, <1>6 DEF IsScan, N
<1> QED BY <1>7

LEMMA ExtractIsScan ==
  ASSUME NEW s, IsText(s)
  PROVE  \E f : IsScan(s, f) /\ ExtractObjects(s) = f[1]
<1> DEFINE Fix(f) == f = [k \in 1 .. Len(s) + 1 |-> Scan(s, f, k)]
           from == CHOOSE f : Fix(f)
<1>1. \E f : Fix(f)
  <2>1. PICK f : IsScan(s, f)
    BY ScanExists
  <2>2. Fix(f)
    BY <2>1 DEF IsScan
  <2> QED BY <2>2
<1>2. Fix(from)
  <2> HIDE DEF Fix
  <2> QED BY <1>1, Zenon
<1>3. ExtractObjects(s) = from[1]
  BY DEF ExtractObjects, Scan
<1> HIDE DEF from
<1>4. IsScan(s, from)
  BY <1>2 DEF IsScan
<1> QED BY <1>3, <1>4

(* What the scan finds are parts of the text. *)
LEMMA ScanFindsParts ==
  ASSUME NEW s, IsText(s), NEW f, IsScan(s, f)
  PROVE  \A k \in 1 .. Len(s) + 1 :
           /\ f[k] \in Seq(Seq(Range(s)))
           /\ \A n \in 1 .. Len(f[k]) : \E i, j \in DOMAIN s : f[k][n] = SubSeq(s, i, j)
<1> DEFINE N == Len(s) + 1
           Fine(t) == /\ t \in Seq(Seq(Range(s)))
                      /\ \A n \in 1 .. Len(t) : \E i, j \in DOMAIN s : t[n] = SubSeq(s, i, j)
           Bad == {k \in 1 .. N : ~ Fine(f[k])}
<1>1. N \in Nat /\ N >= 1 /\ DOMAIN s = 1 .. N - 1 /\ Len(s) = N - 1
  BY TextBasics
<1> HIDE DEF N, Fine
<1>2. Fine(<<>>)
  <2>1. <<>> \in Seq(Seq(Range(s))) /\ Len(<<>>) = 0
    BY EmptySeq
  <2> QED BY <2>1 DEF Fine
<1>3. ASSUME NEW t, Fine(t), NEW i \in DOMAIN s, NEW j \in DOMAIN s
      PROVE  Fine(<<SubSeq(s, i, j)>> \o t)
  <2> DEFINE e == SubSeq(s, i, j)
  <2>1. e \in Seq(Range(s)) /\ t \in Seq(Seq(Range(s)))
    BY <1>3, PartIs DEF Fine
  <2>2. e = SubSeq(s, i, j)
    OBVIOUS
  <2> HIDE DEF e
  <2> DEFINE u == <<e>> \o t
  <2>3. /\ u \in Seq(Seq(Range(s))) /\ Len(u) = Len(t) + 1 /\ Len(t) \in Nat
        /\ \A n \in 1 .. Len(u) : u[n] = IF n = 1 THEN e ELSE t[n - 1]
    BY <2>1
  <2> HIDE DEF u
  <2>4. ASSUME NEW n \in 1 .. Len(u) PROVE \E k, l \in DOMAIN s : u[n] = SubSeq(s, k, l)
    <3>1. CASE n = 1
      BY <2>2, <2>3, <3>1
    <3>2. CASE n # 1
      <4>1. n - 1 \in 1 .. Len(t) /\ u[n] = t[n - 1]
        BY <2>3, <3>2
      <4> QED BY <1>3, <4>1 DEF Fine
    <3> QED BY <3>1, <3>2
  <2>5. Fine(u)
    BY <2>3, <2>4 DEF Fine
  <2> QED BY <2>5 DEF u, e
<1>4. ASSUME Bad # {} PROVE FALSE
  <2> HIDE DEF Bad
  <2>1. Bad \subseteq 0 .. N
    BY <1>1 DEF Bad
  <2>2. PICK k \in Bad : \A m \in Bad : m <= k
    BY <1>1, <1>4, <2>1, HasGreatest
  <2>3. k \in 1 .. N /\ ~ Fine(f[k])
    BY DEF Bad
  <2>4. \A m \in k + 1 .. N : Fine(f[m])
    <3> SUFFICES ASSUME NEW m \in k + 1 .. N, ~ Fine(f[m]) PROVE FALSE
      OBVIOUS
    <3>1. m \in 1 .. N /\ ~(m <= k)
      BY <1>1, <2>3
    <3> QED BY <2>2, <3>1 DEF Bad
  <2>5. f[k] = Scan(s, f, k)
    BY <2>3 DEF IsScan, N
  <2>6. CASE k > Len(s)
    BY <1>2, <2>3, <2>5, <2>6 DEF Scan
  <2>7. CASE k <= Len(s) /\ k \notin Opens(s)
    <3>1. f[k] = f[k + 1]
      BY <1>1, <2>3, <2>5, <2>7 DEF Scan
    <3>2. k + 1 \in k + 1 .. N
      BY <1>1, <2>3, <2>7
    <3> QED BY <2>3, <2>4, <3>1, <3>2
  <2>8. CASE k <= Len(s) /\ k \in Opens(s) /\ Ends(s, k) = {}
    <3>1. f[k] = <<>>
      BY <1>1, <2>3, <2>5, <2>8 DEF Scan
    <3> QED BY <1>2, <2>3, <3>1
  <2>9. CASE k <= Len(s) /\ k \in Opens(s) /\ Ends(s, k) # {}
    <3> DEFINE end == FirstEnd(s, k)
    <3>1. k \in DOMAIN s
      BY <1>1, <2>3, <2>9
    <3>2. end \in DOMAIN s /\ end > k
      BY <2>9, <3>1, EndsAre
    <3> HIDE DEF end
    <3>3. f[k] = <<SubSeq(s, k, end)>> \o f[end + 1]
      BY <1>1, <2>3, <2>5, <2>9 DEF Scan, end
    <3>4. end + 1 \in k + 1 .. N
      BY <1>1, <3>1, <3>2
    <3>5. Fine(f[end + 1])
      BY <2>4, <3>4
    <3>6. Fine(f[k])
      BY <1>3, <3>1, <3>2, <3>3, <3>5
    <3> QED BY <2>3, <3>6
  <2>10. Len(s) \in Int /\ k \in Int
    BY <1>1, <2>3
  <2> QED BY <2>6, <2>7, <2>8, <2>9, <2>10
<1> QED BY <1>4 DEF Fine, N

(* A brace is closed by the next closing one unless braces mislead. *)
LEMMA FirstCloseEnds ==
  ASSUME NEW s, IsText(s), ~BracesMislead(s), NEW k \in Opens(s), NEW c \in Closes(s),
         k < c, \A m \in Closes(s) : ~(k < m /\ m < c)
  PROVE  Ends(s, k) # {} /\ FirstEnd(s, k) = c /\ \A o \in Opens(s) : ~(k < o /\ o < c)
<1>1. /\ k \in DOMAIN s /\ c \in DOMAIN s /\ k \in Nat /\ c \in Nat
      /\ Opens(s) \subseteq Nat /\ Closes(s) \subseteq Nat
  BY TextBasics DEF Opens, Closes
<1>2. k \notin Closes(s) /\ c \notin Opens(s)
  BY DEF Opens, Closes
<1>3. ASSUME NEW o \in Opens(s), k < o, o < c PROVE FALSE
  <2>1. PICK m \in Closes(s) : k < m /\ m < o
    BY <1>3 DEF BracesMislead
  <2>2. m \in Nat /\ o \in Nat
    BY <1>1
  <2>3. m < c
    BY <1>1, <1>3, <2>1, <2>2
  <2> QED BY <2>1, <2>3
<1>4. Opens(s) \cap k .. c = {k}
  <2>1. ASSUME NEW o \in Opens(s), o \in k .. c PROVE o = k
    <3>1. o # c /\ o \in Nat
      BY <1>1, <1>2
    <3>2. ~(k < o /\ o < c)
      BY <1>3
    <3> QED BY <1>1, <2>1, <3>1, <3>2
  <2>2. k \in k .. c
    BY <1>1
  <2> QED BY <2>1, <2>2
<1>5. Closes(s) \cap k .. c = {c}
  <2>1. ASSUME NEW m \in Closes(s), m \in k .. c PROVE m = c
    <3>1. m # k /\ m \in Nat
      BY <1>1, <1>2
    <3> QED BY <1>1, <2>1, <3>1
  <2>2. c \in k .. c
    BY <1>1
  <2> QED BY <2>1, <2>2
<1>6. c \in Ends(s, k)
  <2>1. Cardinality({k}) = 1 /\ Cardinality({c}) = 1
    BY FS_Singleton
  <2> QED BY <1>1, <1>4, <1>5, <2>1 DEF Ends
<1>7. FirstEnd(s, k) \in Ends(s, k) /\ FirstEnd(s, k) <= c
  BY <1>1, <1>6, EndsAre
<1>8. FirstEnd(s, k) \in Closes(s) /\ k < FirstEnd(s, k)
  <2>1. \A l \in Ends(s, k) : l \in Closes(s) /\ l > k
    BY DEF Ends
  <2>2. \A l \in Ends(s, k) : l \in Nat
    BY <1>1, <2>1
  <2> QED BY <1>1, <1>7, <2>1, <2>2
<1>9. FirstEnd(s, k) = c
  <2>1. ~(FirstEnd(s, k) < c) /\ FirstEnd(s, k) \in Nat
    BY <1>1, <1>8
  <2> QED BY <1>1, <1>7, <2>1
<1> QED BY <1>3, <1>6, <1>9

(* The scan finds every object that begins where it does or later. *)
LEMMA ScanFindsObjects ==
  ASSUME NEW s, IsText(s), ~BracesMislead(s), NEW f, IsScan(s, f),
         NEW i \in DOMAIN s, NEW j \in DOMAIN s, IsSpan(s, i, j)
  PROVE  \E n \in 1 .. Len(f[1]) : f[1][n] = SubSeq(s, i, j)
<1> DEFINE N == Len(s) + 1
           e == SubSeq(s, i, j)
           Finds(k) == \E n \in 1 .. Len(f[k]) : f[k][n] = e
           Bad == {k \in 1 .. i : ~ Finds(k)}
<1>1. /\ N \in Nat /\ DOMAIN s = 1 .. N - 1 /\ Len(s) = N - 1
      /\ i \in 1 .. N - 1 /\ j \in 1 .. N - 1 /\ i < j
  BY TextBasics DEF IsSpan
<1>2. e \in Seq(Range(s))
  BY PartIs
<1>3. e = SubSeq(s, i, j)
  OBVIOUS
<1> HIDE DEF N, e
<1>4. /\ i \in Opens(s) /\ j \in Closes(s)
      /\ \A m \in Closes(s) : ~(i < m /\ m < j)
  <2>1. i \in Opens(s) /\ j \in Closes(s)
    BY DEF Opens, Closes, IsSpan
  <2>2. ASSUME NEW m \in Closes(s), i < m, m < j PROVE FALSE
    <3>1. m \in DOMAIN s /\ s[m].kind \in {"rbrace", "quoted_rbrace"}
      BY DEF Closes
    <3>2. m \in i + 1 .. j - 1
      BY <1>1, <2>2, <3>1
    <3>3. s[m].kind \in Members
      BY <3>2 DEF IsSpan
    <3>4. s[m].kind = "quoted_rbrace"
      BY <3>1, <3>3 DEF Members
    <3> QED BY <3>1, <3>4 DEF BracesMislead
  <2> QED BY <2>1, <2>2
<1>5. ASSUME NEW k \in 1 .. N, NEW d \in Seq(Range(s)), NEW t,
             t \in Seq(Seq(Range(s))), f[k] = <<d>> \o t
      PROVE  /\ d = e => Finds(k)
             /\ (\E n \in 1 .. Len(t) : t[n] = e) => Finds(k)
  <2>1. /\ Len(f[k]) = Len(t) + 1 /\ Len(t) \in Nat /\ f[k][1] = d
        /\ \A n \in 1 .. Len(t) : f[k][n + 1] = t[n]
    BY <1>5
  <2>2. 1 \in 1 .. Len(f[k]) /\ \A n \in 1 .. Len(t) : n + 1 \in 1 .. Len(f[k])
    BY <2>1
  <2> QED BY <2>1, <2>2
<1> HIDE DEF Finds
<1>6. ASSUME Bad # {} PROVE FALSE
  <2> HIDE DEF Bad
  <2>1. Bad \subseteq 0 .. i
    BY <1>1 DEF Bad
  <2>2. PICK k \in Bad : \A m \in Bad : m <= k
    <3>1. i \in Nat
      BY <1>1
    <3> QED BY <1>6, <2>1, <3>1, HasGreatest
  <2>3. k \in 1 .. i /\ ~ Finds(k)
    BY DEF Bad
  <2>4. k \in 1 .. N - 1 /\ k \in 1 .. N /\ k \in DOMAIN s /\ k <= Len(s)
    BY <1>1, <2>3
  <2>5. \A m \in k + 1 .. i : Finds(m)
    <3> SUFFICES ASSUME NEW m \in k + 1 .. i, ~ Finds(m) PROVE FALSE
      OBVIOUS
    <3>1. m \in 1 .. i /\ ~(m <= k)
      BY <1>1, <2>3
    <3> QED BY <2>2, <3>1 DEF Bad
  <2>6. f[k] = Scan(s, f, k) /\ k \in Int /\ Len(s) \in Int
    BY <1>1, <2>4 DEF IsScan, N
  <2>7. CASE k \notin Opens(s)
    <3>1. f[k] = f[k + 1]
      BY <2>4, <2>6, <2>7 DEF Scan
    <3>2. k + 1 \in k + 1 .. i
      BY <1>1, <1>4, <2>3, <2>7
    <3>3. Finds(k + 1)
      BY <2>5, <3>2
    <3> QED BY <2>3, <3>1, <3>3 DEF Finds
  <2>8. CASE k \in Opens(s)
    <3>1. \E c \in Closes(s) : k < c /\ c <= j /\ \A m \in Closes(s) : ~(k < m /\ m < c)
      <4> DEFINE C == {m \in Closes(s) : k < m}
      <4>1. j \in C /\ C \subseteq Nat
        BY <1>1, <1>4, <2>3 DEF Closes
      <4>2. PICK c \in C : \A m \in C : c <= m
        <5> HIDE DEF C
        <5> QED BY <4>1, HasLeast
      <4>3. c <= j /\ c \in Nat
        BY <4>1, <4>2
      <4>4. \A m \in Closes(s) : ~(k < m /\ m < c)
        <5> SUFFICES ASSUME NEW m \in Closes(s), k < m, m < c PROVE FALSE
          OBVIOUS
        <5>1. m \in C
          OBVIOUS
        <5>2. c <= m /\ m \in Nat
          BY <4>1, <4>2, <5>1
        <5> QED BY <4>3, <5>2
      <4> QED BY <4>3, <4>4
    <3>2. PICK c \in Closes(s) : k < c /\ c <= j /\ \A m \in Closes(s) : ~(k < m /\ m < c)
      BY <3>1
    <3>3. /\ Ends(s, k) # {} /\ FirstEnd(s, k) = c
          /\ \A o \in Opens(s) : ~(k < o /\ o < c)
      BY <2>8, <3>2, FirstCloseEnds
    <3>4. f[k] = <<SubSeq(s, k, c)>> \o f[c + 1]
      BY <2>4, <2>6, <2>8, <3>3 DEF Scan
    <3>5. c \in 1 .. N - 1 /\ c + 1 \in 1 .. N /\ c \in DOMAIN s
      BY <1>1 DEF Closes
    <3>6. SubSeq(s, k, c) \in Seq(Range(s)) /\ f[c + 1] \in Seq(Seq(Range(s)))
      <4>1. SubSeq(s, k, c) \in Seq(Range(s))
        BY <2>4, <3>5, PartIs
      <4>2. f[c + 1] \in Seq(Seq(Range(s)))
        BY <3>5, ScanFindsParts DEF N
      <4> QED BY <4>1, <4>2
    <3>7. CASE k = i
      <4>1. c = j
        <5>1. ~(i < c /\ c < j)
          BY <1>4
        <5> QED BY <1>1, <3>2, <3>5, <3>7, <5>1
      <4>2. SubSeq(s, k, c) = e
        BY <1>3, <3>7, <4>1
      <4> QED BY <1>5, <2>3, <2>4, <3>4, <3>6, <4>2
    <3>8. CASE k # i
      <4>1. ~(i < c) /\ i # c
        <5>1. c \notin Opens(s)
          BY DEF Opens, Closes
        <5> QED BY <1>1, <1>4, <2>3, <3>3, <3>5, <3>8, <5>1
      <4>2. c + 1 \in k + 1 .. i
        BY <1>1, <2>3, <3>2, <3>5, <4>1
      <4>3. Finds(c + 1)
        BY <2>5, <4>2
      <4>4. Finds(k)
        BY <1>5, <2>4, <3>4, <3>6, <4>3 DEF Finds
      <4> QED BY <2>3, <4>4
    <3> QED BY <3>7, <3>8
  <2> QED BY <2>7, <2>8
<1>7. Finds(1)
  <2>1. 1 \in 1 .. i
    BY <1>1
  <2> QED BY <1>6, <2>1
<1> QED BY <1>7 DEF Finds, e

-----------------------------------------------------------------------------
(* From objects to seeds, and what each strategy of Parse gives            *)

ValidOf(objects) ==
  {HexOf(o) : o \in {p \in objects : HexMembers(p) # {} /\ Decode(HexOf(p)) = "valid"}}

LEMMA ValidInIs == \A r : ValidIn(r) = ValidOf(ObjectsIn(r))
<1> SUFFICES ASSUME NEW r PROVE ValidIn(r) = ValidOf(ObjectsIn(r))
  OBVIOUS
<1>1. ASSUME NEW h \in ValidIn(r) PROVE h \in ValidOf(ObjectsIn(r))
  BY DEF ValidIn, SeedsIn, ValidOf
<1>2. ASSUME NEW h \in ValidOf(ObjectsIn(r)) PROVE h \in ValidIn(r)
  BY DEF ValidIn, SeedsIn, ValidOf
<1> QED BY <1>1, <1>2

LEMMA SeedsOfObjects ==
  ASSUME NEW objects, IsText(objects)
  PROVE  /\ SeedsOf(objects).seeds \in Seq(Range(SeedsOf(objects).seeds))
         /\ Range(SeedsOf(objects).seeds) = ValidOf(Range(objects))
<1> DEFINE V == Valid(objects)
           hex == [k \in V |-> HexOf(objects[k])]
<1>1. SeedsOf(objects).seeds = At(hex, V)
  BY DEF SeedsOf
<1>2. V \in SUBSET Nat /\ IsFiniteSet(V)
  <2>1. V \subseteq 1 .. Len(objects) /\ Len(objects) \in Nat
    BY TextBasics DEF Valid, Usable
  <2>2. IsFiniteSet(1 .. Len(objects))
    BY <2>1, FS_Interval
  <2>3. IsFiniteSet(V)
    <3> HIDE DEF V
    <3> QED BY <2>1, <2>2, FS_Subset
  <2> QED BY <2>1, <2>3
<1>3. {hex[k] : k \in V} = ValidOf(Range(objects))
  <2>1. ASSUME NEW k \in V PROVE hex[k] \in ValidOf(Range(objects))
    <3>1. /\ objects[k] \in Range(objects) /\ HexMembers(objects[k]) # {}
          /\ Decode(HexOf(objects[k])) = "valid"
      BY DEF Valid, Usable, Range
    <3> QED BY <3>1 DEF ValidOf
  <2>2. ASSUME NEW h \in ValidOf(Range(objects)) PROVE \E k \in V : hex[k] = h
    <3>1. PICK o \in Range(objects) : /\ HexMembers(o) # {} /\ Decode(HexOf(o)) = "valid"
                                      /\ h = HexOf(o)
      BY DEF ValidOf
    <3>2. PICK k \in DOMAIN objects : o = objects[k]
      BY DEF Range
    <3>3. k \in V
      BY <3>1, <3>2 DEF Valid, Usable
    <3> QED BY <3>1, <3>2, <3>3
  <2> HIDE DEF V, hex
  <2> QED BY <2>1, <2>2
<1> HIDE DEF V, hex
<1> QED BY <1>1, <1>2, <1>3, AtPicks

LEMMA SeqIsText == \A S : \A t \in Seq(S) : IsText(t)
BY DEF IsText, Range

LEMMA BracketedIsPart ==
  ASSUME NEW r, IsText(r), IsArray(Bracketed(r))
  PROVE  \E i, j \in DOMAIN r : i <= j /\ Bracketed(r) = SubSeq(r, i, j)
<1> DEFINE first == CHOOSE k \in Lefts(r) : \A l \in Lefts(r) : k <= l
           last  == CHOOSE k \in Rights(r) : \A l \in Rights(r) : l <= k
<1>1. Bracketed(r) # <<>>
  BY DEF IsArray
<1>2. Lefts(r) # {} /\ Rights(r) # {} /\ Bracketed(r) = SubSeq(r, first, last)
  BY <1>1 DEF Bracketed
<1>3. Len(r) \in Nat /\ Lefts(r) \subseteq 1 .. Len(r) /\ Rights(r) \subseteq 1 .. Len(r)
  BY TextBasics DEF Lefts, Rights
<1>4. first \in Lefts(r)
  <2>1. Lefts(r) \subseteq Nat
    BY <1>3
  <2>2. \E k \in Lefts(r) : \A l \in Lefts(r) : k <= l
    BY <1>2, <2>1, HasLeast
  <2> QED BY <2>2, Zenon
<1>5. last \in Rights(r)
  <2>1. Rights(r) \subseteq 0 .. Len(r)
    BY <1>3
  <2>2. \E k \in Rights(r) : \A l \in Rights(r) : l <= k
    BY <1>2, <1>3, <2>1, HasGreatest
  <2> QED BY <2>2, Zenon
<1> HIDE DEF first, last
<1>6. first \in DOMAIN r /\ last \in DOMAIN r
  BY <1>4, <1>5 DEF Lefts, Rights
<1>7. first <= last
  <2>1. first \in Int /\ last \in Int
    BY <1>3, <1>4, <1>5
  <2>2. last < first => SubSeq(r, first, last) = <<>>
    BY <2>1, SubSeqEmpty
  <2> QED BY <1>1, <1>2, <2>1, <2>2
<1> QED BY <1>2, <1>6, <1>7

LEMMA PartsOfParts ==
  ASSUME NEW r, IsText(r), NEW i \in DOMAIN r, NEW j \in DOMAIN r, i <= j
  PROVE  ObjectsIn(SubSeq(r, i, j)) \subseteq ObjectsIn(r)
<1> DEFINE t == SubSeq(r, i, j)
<1>1. /\ Len(r) \in Nat /\ DOMAIN r = 1 .. Len(r)
      /\ t \in Seq(Range(r)) /\ Len(t) = j - i + 1 /\ DOMAIN t = 1 .. Len(t)
  <2>1. Len(r) \in Nat /\ DOMAIN r = 1 .. Len(r)
    BY TextBasics
  <2>2. t \in Seq(Range(r)) /\ Len(t) = j - i + 1
    BY PartIs
  <2> HIDE DEF t
  <2> QED BY <2>1, <2>2
<1>2. t = SubSeq(r, i, j)
  OBVIOUS
<1> HIDE DEF t
<1>3. ASSUME NEW o \in ObjectsIn(t) PROVE o \in ObjectsIn(r)
  <2>1. PICK k \in DOMAIN t, l \in DOMAIN t : o = SubSeq(t, k, l) /\ IsObject(o)
    BY ObjectFrom
  <2>2. k \in 1 .. j - i + 1 /\ l \in 1 .. j - i + 1
    BY <1>1
  <2>3. o = SubSeq(r, i + k - 1, i + l - 1)
    <3> DEFINE a == SubSeq(t, k, l)
               b == SubSeq(r, i + k - 1, i + l - 1)
               n == IF k <= l THEN l - k + 1 ELSE 0
    <3>1. \A m \in 1 .. j - i + 1 : m + i - 1 \in i .. j /\ t[m] = r[m + i - 1]
      <4> TAKE m \in 1 .. j - i + 1
      <4>1. m + i - 1 \in i .. j /\ (m + i - 1) - i + 1 = m
        BY <1>1
      <4> QED BY <1>2, <4>1, PartIs
    <3>2. k \in DOMAIN t /\ l \in DOMAIN t /\ i + k - 1 \in DOMAIN r /\ i + l - 1 \in DOMAIN r
      BY <1>1, <2>2
    <3>3. /\ a \in Seq(Range(t)) /\ Len(a) = n
          /\ \A m \in k .. l : a[m - k + 1] = t[m]
      BY <1>1, <3>2, SeqIsText, PartIs
    <3>4. /\ b \in Seq(Range(r)) /\ Len(b) = n
          /\ \A m \in i + k - 1 .. i + l - 1 : b[m - (i + k - 1) + 1] = r[m]
      <4>1. (i + l - 1) - (i + k - 1) + 1 = l - k + 1 /\ (i + k - 1 <= i + l - 1 <=> k <= l)
        BY <1>1, <2>2
      <4>2. b \in Seq(Range(r)) /\ Len(b) = n
        BY <3>2, <4>1, PartIs
      <4>3. \A m \in i + k - 1 .. i + l - 1 : b[m - (i + k - 1) + 1] = r[m]
        BY <3>2, PartIs
      <4> QED BY <4>2, <4>3
    <3>5. ASSUME NEW m \in 1 .. n PROVE a[m] = b[m]
      <4>1. /\ k + m - 1 \in k .. l /\ (k + m - 1) - k + 1 = m
            /\ i + k + m - 2 \in i + k - 1 .. i + l - 1
            /\ (i + k + m - 2) - (i + k - 1) + 1 = m
            /\ k + m - 1 \in 1 .. j - i + 1 /\ (k + m - 1) + i - 1 = i + k + m - 2
        <5>1. i \in Int /\ j \in Int /\ k \in Int /\ l \in Int /\ k <= l /\ m \in 1 .. l - k + 1
          BY <1>1, <2>2
        <5> HIDE DEF n
        <5> QED BY <2>2, <5>1
      <4>2. a[m] = t[k + m - 1]
        BY <3>3, <4>1
      <4>3. b[m] = r[i + k + m - 2]
        BY <3>4, <4>1
      <4> QED BY <3>1, <4>1, <4>2, <4>3
    <3> HIDE DEF a, b
    <3>6. a = b
      BY <3>3, <3>4, <3>5
    <3> QED BY <2>1, <3>6 DEF a, b
  <2>4. i + k - 1 \in DOMAIN r /\ i + l - 1 \in DOMAIN r
    BY <1>1, <2>2
  <2> QED BY <2>1, <2>3, <2>4, ObjectHere
<1> QED BY <1>2, <1>3

(* What the three strategies of parse_llm_response give, for every text:   *)
(* seeds that are valid and of objects in it, and all of them when nothing *)
(* misleads the search. *)
LEMMA ParseGives ==
  ASSUME NEW r, IsText(r)
  PROVE  /\ Parse(r).seeds \in Seq(Range(Parse(r).seeds))
         /\ Range(Parse(r).seeds) \subseteq ValidIn(r)
         /\ \/ ValidIn(r) \subseteq Range(Parse(r).seeds)
            \/ BracesMislead(r) \/ BracketsMislead(r)
<1> DEFINE Gives(objects) ==
             /\ IsText(objects) /\ Range(objects) \subseteq ObjectsIn(r)
             /\ ObjectsIn(r) \subseteq Range(objects) \/ BracesMislead(r) \/ BracketsMislead(r)
<1>1. ASSUME NEW objects, Gives(objects), Parse(r) = SeedsOf(objects)
      PROVE  /\ Parse(r).seeds \in Seq(Range(Parse(r).seeds))
             /\ Range(Parse(r).seeds) \subseteq ValidIn(r)
             /\ \/ ValidIn(r) \subseteq Range(Parse(r).seeds)
                \/ BracesMislead(r) \/ BracketsMislead(r)
  <2>1. /\ Parse(r).seeds \in Seq(Range(Parse(r).seeds))
        /\ Range(Parse(r).seeds) = ValidOf(Range(objects))
    BY <1>1, SeedsOfObjects
  <2>2. \A A, B : A \subseteq B => ValidOf(A) \subseteq ValidOf(B)
    BY DEF ValidOf
  <2>3. ValidIn(r) = ValidOf(ObjectsIn(r))
    BY ValidInIs
  <2> QED BY <1>1, <2>1, <2>2, <2>3
<1>2. CASE IsArray(r)
  <2>1. Gives(ObjectsOfArray(r))
    BY <1>2, ArrayIsObjects DEF IsText
  <2>2. Parse(r) = SeedsOf(ObjectsOfArray(r))
    BY <1>2 DEF Parse
  <2> HIDE DEF Gives
  <2> QED BY <1>1, <2>1, <2>2
<1>3. CASE ~IsArray(r) /\ IsArray(Bracketed(r))
  <2>1. PICK i \in DOMAIN r, j \in DOMAIN r : i <= j /\ Bracketed(r) = SubSeq(r, i, j)
    BY <1>3, BracketedIsPart
  <2>2. IsText(Bracketed(r))
    BY <2>1, PartIs, SeqIsText
  <2>3. ObjectsIn(Bracketed(r)) \subseteq ObjectsIn(r)
    BY <2>1, PartsOfParts
  <2>4. /\ IsText(ObjectsOfArray(Bracketed(r)))
        /\ Range(ObjectsOfArray(Bracketed(r))) = ObjectsIn(Bracketed(r))
    BY <1>3, <2>2, ArrayIsObjects DEF IsText
  <2>5. Gives(ObjectsOfArray(Bracketed(r)))
    BY <1>3, <2>3, <2>4 DEF BracketsMislead
  <2>6. Parse(r) = SeedsOf(ObjectsOfArray(Bracketed(r)))
    BY <1>3 DEF Parse
  <2> HIDE DEF Gives
  <2> QED BY <1>1, <2>5, <2>6
<1>4. CASE ~IsArray(r) /\ ~IsArray(Bracketed(r))
  <2> DEFINE found  == ExtractObjects(r)
             places == {k \in DOMAIN found : IsObject(found[k])}
  <2>1. PICK f : IsScan(r, f) /\ found = f[1]
    BY ExtractIsScan
  <2>2. /\ found \in Seq(Seq(Range(r)))
        /\ \A n \in 1 .. Len(found) : \E i, j \in DOMAIN r : found[n] = SubSeq(r, i, j)
    <3>1. 1 \in 1 .. Len(r) + 1
      BY TextBasics
    <3> QED BY <2>1, <3>1, ScanFindsParts
  <2>3. ASSUME ~BracesMislead(r), NEW o \in ObjectsIn(r)
        PROVE  \E n \in 1 .. Len(found) : found[n] = o
    <3>1. PICK i \in DOMAIN r, j \in DOMAIN r : o = SubSeq(r, i, j) /\ IsObject(o)
      BY ObjectFrom
    <3>2. IsSpan(r, i, j)
      BY <3>1, ObjectIsSpan
    <3> QED BY <2>1, <2>3, <3>1, <3>2, ScanFindsObjects
  <2>4. Parse(r) = SeedsOf(At(found, places))
    BY <1>4 DEF Parse
  <2> HIDE DEF found
  <2>5. DOMAIN found = 1 .. Len(found) /\ Len(found) \in Nat
    BY <2>2
  <2>6. places \in SUBSET Nat /\ IsFiniteSet(places)
    <3>1. places \subseteq 1 .. Len(found) /\ IsFiniteSet(1 .. Len(found))
      BY <2>5, FS_Interval
    <3> HIDE DEF places
    <3>2. IsFiniteSet(places)
      BY <3>1, FS_Subset
    <3> QED BY <2>5, <3>1, <3>2
  <2>7. /\ IsText(At(found, places))
        /\ Range(At(found, places)) = {found[k] : k \in places}
    BY <2>6, AtPicks DEF IsText
  <2>8. ASSUME NEW k \in places PROVE found[k] \in ObjectsIn(r)
    <3>1. PICK i \in DOMAIN r, j \in DOMAIN r : found[k] = SubSeq(r, i, j)
      BY <2>2, <2>5
    <3> QED BY <3>1, ObjectHere
  <2>9. ASSUME ~BracesMislead(r), NEW o \in ObjectsIn(r)
        PROVE  \E k \in places : found[k] = o
    <3>1. PICK n \in 1 .. Len(found) : found[n] = o
      BY <2>3, <2>9
    <3>2. IsObject(o)
      BY ObjectFrom
    <3> QED BY <2>5, <3>1, <3>2
  <2> HIDE DEF places
  <2>10. Gives(At(found, places))
    BY <2>7, <2>8, <2>9
  <2> HIDE DEF Gives
  <2> QED BY <1>1, <2>4, <2>10
<1> QED BY <1>2, <1>3, <1>4

-----------------------------------------------------------------------------
(* The crash directory *)

(* the locals that hold sequences, as functions of the campaigns *)
LocalsAreFunctions ==
  /\ DOMAIN todo = Campaigns /\ todo = [p \in DOMAIN todo |-> todo[p]]
  /\ DOMAIN reply = Campaigns /\ reply = [p \in DOMAIN reply |-> reply[p]]

IInv == TypeOK /\ LocalsAreFunctions /\ SavesAreDue

LEMMA InitIInv == Init => IInv
BY SharedStoresAssumption DEF Init, IInv, TypeOK, LocalsAreFunctions, SavesAreDue, Recording

(* Leaving a campaign out of the recorders can only help. *)
LEMMA EndKeepsIInv ==
  ASSUME IInv, NEW p \in Campaigns, pc[p] # "off", End(p), UNCHANGED stores
  PROVE  IInv'
<1>1. TypeOK'
  BY DEF IInv, TypeOK, LocalsAreFunctions, End, stores, Recording
<1>2. LocalsAreFunctions'
  BY DEF IInv, LocalsAreFunctions, End
<1>3. SavesAreDue'
  BY DEF IInv, TypeOK, SavesAreDue, End, stores
<1> QED BY <1>1, <1>2, <1>3 DEF IInv

(* The steps that fill the corpus leave the crash directory alone. *)
Bootstraps(p) ==
  Launch(p) \/ SeesSeeds(p) \/ SeesNone(p) \/ GetsNothing(p) \/ GetsReply(p)
  \/ RecordCall(p) \/ AddSeed(p)

LEMMA BootstrapKeepsIInv ==
  ASSUME IInv, NEW p \in Campaigns, Bootstraps(p)
  PROVE  IInv'
<1>1. CASE Launch(p)
  <2>1. /\ UNCHANGED <<corpus, bills, hits, files, todo, reply, crash, crashes>>
        /\ pc[p] = "off" /\ pc' = [pc EXCEPT ![p] = "check"]
    BY <1>1 DEF Launch, Goto, stores
  <2>2. launches' \in 0 .. MaxLaunches
    BY <1>1, SharedStoresAssumption DEF Launch, IInv, TypeOK
  <2>3. TypeOK'
    BY <2>1, <2>2 DEF IInv, TypeOK, Recording
  <2>4. LocalsAreFunctions' /\ SavesAreDue'
    BY <2>1 DEF IInv, TypeOK, LocalsAreFunctions, SavesAreDue
  <2> QED BY <2>3, <2>4 DEF IInv
<1>2. CASE SeesSeeds(p) \/ SeesNone(p)
  <2>1. PICK label \in {"fuzz", "ask"} : pc' = [pc EXCEPT ![p] = label]
    BY <1>2 DEF SeesSeeds, SeesNone, Goto
  <2>2. /\ UNCHANGED <<corpus, bills, hits, files, todo, reply, crash, launches, crashes>>
        /\ pc[p] = "check"
    BY <1>2 DEF SeesSeeds, SeesNone, stores, history
  <2>3. TypeOK'
    BY <2>1, <2>2 DEF IInv, TypeOK, Recording
  <2>4. LocalsAreFunctions' /\ SavesAreDue'
    BY <2>1, <2>2 DEF IInv, TypeOK, LocalsAreFunctions, SavesAreDue
  <2> QED BY <2>3, <2>4 DEF IInv
<1>3. CASE GetsNothing(p)
  <2>1. PICK seeds : seeds # <<>> /\ todo' = [todo EXCEPT ![p] = seeds]
    BY <1>3 DEF GetsNothing, SetOutToStore
  <2>2. /\ pc[p] = "ask" /\ pc' = [pc EXCEPT ![p] = "seed"]
        /\ UNCHANGED <<corpus, bills, hits, files, reply, crash, launches, crashes>>
    BY <1>3 DEF GetsNothing, Goto, stores
  <2>3. TypeOK'
    BY <2>1, <2>2 DEF IInv, TypeOK, LocalsAreFunctions, Recording
  <2>4. LocalsAreFunctions' /\ SavesAreDue'
    BY <2>1, <2>2 DEF IInv, TypeOK, LocalsAreFunctions, SavesAreDue
  <2> QED BY <2>3, <2>4 DEF IInv
<1>4. CASE GetsReply(p)
  <2>1. PICK r \in Replies :
          /\ SetOutToStore(p, IF Parse(r).seeds = <<>> THEN <<Fallback>> ELSE Parse(r).seeds)
          /\ reply' = [reply EXCEPT ![p] = r]
    BY <1>4 DEF GetsReply
  <2>2. PICK seeds : seeds # <<>> /\ todo' = [todo EXCEPT ![p] = seeds]
    <3>1. (IF Parse(r).seeds = <<>> THEN <<Fallback>> ELSE Parse(r).seeds) # <<>>
      OBVIOUS
    <3> QED BY <2>1, <3>1 DEF SetOutToStore
  <2>3. /\ pc[p] = "ask" /\ pc' = [pc EXCEPT ![p] = "bill"]
        /\ UNCHANGED <<stores, crash, launches, crashes>>
    BY <1>4 DEF GetsReply, Goto
  <2>4. TypeOK'
    BY <2>1, <2>2, <2>3 DEF IInv, TypeOK, LocalsAreFunctions, stores, Recording
  <2>5. LocalsAreFunctions' /\ SavesAreDue'
    BY <2>1, <2>2, <2>3 DEF IInv, TypeOK, LocalsAreFunctions, SavesAreDue, stores
  <2> QED BY <2>4, <2>5 DEF IInv
<1>5. CASE RecordCall(p)
  <2>1. /\ pc[p] = "bill" /\ pc' = [pc EXCEPT ![p] = "seed"]
        /\ UNCHANGED <<corpus, hits, files, todo, crash, history>>
    BY <1>5 DEF RecordCall, Goto
  <2>2. PICK none : none = <<>> /\ reply' = [reply EXCEPT ![p] = none]
    BY <1>5 DEF RecordCall
  <2>3. bills' \in Nat
    BY <1>5 DEF RecordCall, IInv, TypeOK
  <2>4. TypeOK'
    BY <2>1, <2>2, <2>3 DEF IInv, TypeOK, LocalsAreFunctions, history, Recording
  <2>5. LocalsAreFunctions' /\ SavesAreDue'
    BY <2>1, <2>2, <2>3 DEF IInv, TypeOK, LocalsAreFunctions, SavesAreDue, history
  <2> QED BY <2>4, <2>5 DEF IInv
<1>6. CASE AddSeed(p)
  <2>1. PICK rest : /\ todo' = [todo EXCEPT ![p] = rest]
                    /\ pc' = [pc EXCEPT ![p] = IF rest = <<>> THEN "fuzz" ELSE "seed"]
    BY <1>6 DEF AddSeed, Goto, IInv, LocalsAreFunctions
  <2>2. pc[p] = "seed" /\ UNCHANGED <<hits, files, bills, reply, crash, history>>
    BY <1>6 DEF AddSeed
  <2>3. TypeOK'
    BY <2>1, <2>2 DEF IInv, TypeOK, LocalsAreFunctions, history, Recording
  <2>4. LocalsAreFunctions' /\ SavesAreDue'
    BY <2>1, <2>2 DEF IInv, TypeOK, LocalsAreFunctions, SavesAreDue, history
  <2> QED BY <2>3, <2>4 DEF IInv
<1> QED
  BY <1>1, <1>2, <1>3, <1>4, <1>5, <1>6 DEF Bootstraps

LEMMA RecordingKeepsIInv ==
  ASSUME IInv, NEW p \in Campaigns,
         MeetCrash(p) \/ Select(p) \/ Update(p) \/ Insert(p) \/ SaveCrash(p)
  PROVE  IInv'
<1>1. CASE MeetCrash(p)
  <2>1. TypeOK'
    BY <1>1, SharedStoresAssumption DEF MeetCrash, IInv, TypeOK, Goto, stores, Recording
  <2>2. LocalsAreFunctions'
    BY <1>1 DEF MeetCrash, IInv, LocalsAreFunctions, stores
  <2>3. SavesAreDue'
    BY <1>1 DEF MeetCrash, IInv, TypeOK, SavesAreDue, Goto, stores
  <2> QED BY <2>1, <2>2, <2>3 DEF IInv
<1>2. CASE Select(p)
  <2>1. TypeOK'
    BY <1>2 DEF Select, IInv, TypeOK, Goto, stores, history, Recording
  <2>2. LocalsAreFunctions'
    BY <1>2 DEF Select, IInv, LocalsAreFunctions, stores, history
  <2>3. SavesAreDue'
    BY <1>2 DEF Select, IInv, TypeOK, SavesAreDue, Goto, stores, history
  <2> QED BY <2>1, <2>2, <2>3 DEF IInv
<1>3. CASE Update(p)
  <2>1. TypeOK'
    BY <1>3 DEF Update, IInv, TypeOK, Goto, history, Recording
  <2>2. LocalsAreFunctions'
    BY <1>3 DEF Update, IInv, LocalsAreFunctions, history
  <2>3. SavesAreDue'
    BY <1>3 DEF Update, IInv, TypeOK, SavesAreDue, Goto, history
  <2> QED BY <2>1, <2>2, <2>3 DEF IInv
<1>4. CASE Insert(p)
  <2>1. TypeOK'
    BY <1>4 DEF Insert, IInv, TypeOK, Goto, history, Recording
  <2>2. LocalsAreFunctions'
    BY <1>4 DEF Insert, IInv, LocalsAreFunctions, history
  <2>3. SavesAreDue'
    BY <1>4 DEF Insert, IInv, TypeOK, SavesAreDue, Goto, history, Recording
  <2> QED BY <2>1, <2>2, <2>3 DEF IInv
<1>5. CASE SaveCrash(p)
  <2>1. TypeOK'
    BY <1>5 DEF SaveCrash, IInv, TypeOK, SavesAreDue, Goto, history, Recording
  <2>2. LocalsAreFunctions'
    BY <1>5 DEF SaveCrash, IInv, LocalsAreFunctions, history
  <2>3. SavesAreDue'
    BY <1>5 DEF SaveCrash, IInv, TypeOK, SavesAreDue, Goto, history
  <2> QED BY <2>1, <2>2, <2>3 DEF IInv
<1> QED BY <1>1, <1>2, <1>3, <1>4, <1>5

LEMMA NextKeepsIInv == IInv /\ [Next]_vars => IInv'
<1> SUFFICES ASSUME IInv, [Next]_vars PROVE IInv'
  OBVIOUS
<1>1. CASE UNCHANGED vars
  BY <1>1 DEF IInv, TypeOK, LocalsAreFunctions, SavesAreDue, vars, stores, locals, history, Recording
<1>2. ASSUME NEW p \in Campaigns, Bootstraps(p) PROVE IInv'
  BY <1>2, BootstrapKeepsIInv
<1>3. ASSUME NEW p \in Campaigns,
             MeetCrash(p) \/ Select(p) \/ Update(p) \/ Insert(p) \/ SaveCrash(p)
      PROVE  IInv'
  BY <1>3, RecordingKeepsIInv
<1>4. ASSUME NEW p \in Campaigns, ReplyPanics(p) \/ InsertFails(p) \/ Die(p) PROVE IInv'
  BY <1>4, EndKeepsIInv DEF ReplyPanics, InsertFails, Die
<1> QED
  BY <1>1, <1>2, <1>3, <1>4 DEF Next, Bootstraps

LEMMA Invariance == Spec => []IInv
BY InitIInv, NextKeepsIInv, PTL DEF Spec

(* No crash file is saved twice for a signature, whatever campaigns share  *)
(* the directory, and their locals fit where they are (run_campaign).      *)
THEOREM StoresTypeCorrect == Spec => []TypeOK
<1>1. IInv => TypeOK
  BY DEF IInv
<1> QED BY <1>1, Invariance, PTL

(* Whatever the other campaigns did between two statements of one of them, *)
(* its next step finds the rows and files it relies on.                    *)
THEOREM SavesAreAlwaysDue == Spec => []SavesAreDue
<1>1. IInv => SavesAreDue
  BY DEF IInv
<1> QED BY <1>1, Invariance, PTL

-----------------------------------------------------------------------------
(* The refinement mapping                                                  *)

held  == [p \in Campaigns |-> IF pc[p] \in Recording THEN crash[p] ELSE None]
owed  == [p \in Campaigns |-> IF pc[p] = "save" THEN crash[p] ELSE None]
filed == {s \in Signatures : files[s] > 0}

(* A step that records nothing leaves the mapped state as it is. *)
LEMMA BootstrapStutters ==
  ASSUME IInv, NEW p \in Campaigns, Bootstraps(p)
  PROVE  UNCHANGED L!ledger
<1>1. /\ UNCHANGED <<hits, files, crash>>
      /\ \E label \in {"check", "ask", "bill", "seed", "fuzz"} : pc' = [pc EXCEPT ![p] = label]
      /\ pc[p] \notin Recording \union {"save"}
  BY DEF Bootstraps, Launch, SeesSeeds, SeesNone, GetsNothing, GetsReply, RecordCall, AddSeed,
         Goto, stores, history, Recording
<1>2. UNCHANGED <<held, owed, filed>>
  BY <1>1 DEF IInv, TypeOK, held, owed, filed, Recording
<1> QED
  BY <1>1, <1>2 DEF L!ledger, held, owed, filed

(* A campaign that ends loses what it held and owed, and nothing else. *)
LEMMA EndLoses ==
  ASSUME IInv, NEW p \in Campaigns, End(p), UNCHANGED stores
  PROVE  L!Lose(p)
<1>1. held' = [held EXCEPT ![p] = None] /\ owed' = [owed EXCEPT ![p] = None]
  BY DEF End, IInv, TypeOK, held, owed, Recording
<1> QED
  BY <1>1 DEF L!Lose, stores, held, owed

LEMMA MeetIsMeet ==
  ASSUME IInv, NEW p \in Campaigns, MeetCrash(p)
  PROVE  L!Meet(p)
<1>1. PICK s \in Signatures : crash' = [crash EXCEPT ![p] = s]
  BY DEF MeetCrash
<1>2. pc[p] = "fuzz" /\ pc' = [pc EXCEPT ![p] = "select"] /\ UNCHANGED stores
  BY DEF MeetCrash, Goto
<1>3. held[p] = None /\ owed[p] = None
  BY <1>2 DEF held, owed, Recording
<1>4. held' = [held EXCEPT ![p] = s] /\ owed' = owed
  BY <1>1, <1>2 DEF IInv, TypeOK, held, owed, Recording
<1> QED
  BY <1>2, <1>3, <1>4 DEF L!Meet, stores, held, owed

(* UPDATE counts under a row that is there, INSERT under a new one. *)
LEMMA RecordCounts ==
  ASSUME IInv, NEW p \in Campaigns, Update(p) \/ Insert(p)
  PROVE  L!Count(p)
<1>1. /\ crash[p] \in Signatures /\ crash[p] # None
      /\ held[p] = crash[p] /\ UNCHANGED files
  BY DEF Update, Insert, IInv, TypeOK, held, Recording
<1>2. hits' = [hits EXCEPT ![crash[p]] = @ + 1]
  BY <1>1 DEF Update, Insert, IInv, TypeOK
<1>3. held' = [held EXCEPT ![p] = None]
  BY <1>1 DEF Update, Insert, Goto, IInv, TypeOK, held, Recording
<1>4. owed' = [owed EXCEPT ![p] = IF hits[crash[p]] = 0 THEN crash[p] ELSE None]
  <2>1. CASE Update(p)
    BY <2>1 DEF Update, Goto, IInv, TypeOK, SavesAreDue, owed
  <2>2. CASE Insert(p)
    BY <2>2 DEF Insert, Goto, IInv, TypeOK, owed
  <2> QED BY <2>1, <2>2
<1> QED
  BY <1>1, <1>2, <1>3, <1>4 DEF L!Count, held, owed

LEMMA SaveFiles ==
  ASSUME IInv, NEW p \in Campaigns, SaveCrash(p)
  PROVE  L!File(p)
<1>1. /\ pc[p] = "save" /\ crash[p] \in Signatures /\ crash[p] # None
      /\ files[crash[p]] = 0 /\ owed[p] = crash[p] /\ UNCHANGED hits
  BY DEF SaveCrash, IInv, TypeOK, SavesAreDue, owed, Recording
<1>2. filed' = filed \union {crash[p]} /\ crash[p] \notin filed
  BY <1>1 DEF SaveCrash, IInv, TypeOK, filed
<1>3. owed' = [owed EXCEPT ![p] = None] /\ held' = held
  BY <1>1 DEF SaveCrash, Goto, IInv, TypeOK, owed, held, Recording
<1> QED
  BY <1>1, <1>2, <1>3 DEF L!File, held, owed, filed

LEMMA StepRefines == IInv /\ [Next]_vars => [L!Next]_(L!ledger)
<1> SUFFICES ASSUME IInv, [Next]_vars PROVE [L!Next]_(L!ledger)
  OBVIOUS
<1>1. CASE UNCHANGED vars
  BY <1>1 DEF L!ledger, vars, stores, locals
<1>2. ASSUME NEW p \in Campaigns, Bootstraps(p) PROVE UNCHANGED L!ledger
  BY <1>2, BootstrapStutters
<1>3. ASSUME NEW p \in Campaigns, ReplyPanics(p) \/ InsertFails(p) \/ Die(p) PROVE L!Lose(p)
  BY <1>3, EndLoses DEF ReplyPanics, InsertFails, Die
<1>4. ASSUME NEW p \in Campaigns, MeetCrash(p) PROVE L!Meet(p)
  BY <1>4, MeetIsMeet
<1>5. ASSUME NEW p \in Campaigns, Select(p) PROVE UNCHANGED L!ledger
  <2>1. UNCHANGED <<hits, files, crash>> /\ pc[p] = "select"
        /\ \E label \in {"update", "insert"} : pc' = [pc EXCEPT ![p] = label]
    BY <1>5 DEF Select, Goto, stores
  <2>2. UNCHANGED <<held, owed, filed>>
    BY <2>1 DEF IInv, TypeOK, held, owed, filed, Recording
  <2> QED
    BY <2>1, <2>2 DEF L!ledger, held, owed, filed
<1>6. ASSUME NEW p \in Campaigns, Update(p) \/ Insert(p) PROVE L!Count(p)
  BY <1>6, RecordCounts
<1>7. ASSUME NEW p \in Campaigns, SaveCrash(p) PROVE L!File(p)
  BY <1>7, SaveFiles
<1> QED
  BY <1>1, <1>2, <1>3, <1>4, <1>5, <1>6, <1>7 DEF Next, Bootstraps, L!Next

(* Campaigns that share a crash directory keep its ledger: every crash is  *)
(* counted once under its signature and filed by the one campaign that met *)
(* it first, though SELECT and INSERT are two statements and any campaign  *)
(* may end between any two of its steps (CrashTriageDb::record).           *)
THEOREM RecordingRefinesLedger == Spec => LedgerSpec
<1>1. Init => L!Init
  BY SharedStoresAssumption DEF Init, L!Init, Recording
<1>2. IInv /\ [Next]_vars => [L!Next]_(L!ledger)
  BY StepRefines
<1> QED
  BY <1>1, <1>2, Invariance, PTL DEF Spec, LedgerSpec, L!Spec

-----------------------------------------------------------------------------
(* Filling the corpus.                                                     *)

Fuzzing == {"fuzz", "save"} \union Recording

(* What a campaign set out to store is stored or still to be stored; it is *)
(* nothing before the campaign has seeds, and all stored once it fuzzes.   *)
SeedsAreOnTheWay ==
  \A p \in Campaigns :
    /\ todo[p] \in Seq(Range(todo[p]))
    /\ pc[p] \in {"off", "check", "ask"} => promised[p] = {}
    /\ pc[p] \in {"bill", "seed"} => promised[p] \subseteq corpus \union Range(todo[p])
    /\ pc[p] \in Fuzzing => corpus # {} /\ promised[p] \subseteq corpus

(* The campaigns that may yet record a call of the language model. *)
MayBill == {p \in Campaigns : pc[p] \in {"check", "ask", "bill"}}

(* Each start is good for one call, recorded or yet to be recorded. *)
CallsAreStarts == IsFiniteSet(MayBill) /\ bills + Cardinality(MayBill) <= launches

BInv ==
  /\ DOMAIN promised = Campaigns /\ promised = [p \in DOMAIN promised |-> promised[p]]
  /\ SeedsAreOnTheWay /\ CallsAreStarts

(* The first seed and the others. *)
LEMMA HeadAndTail ==
  ASSUME NEW s, s \in Seq(Range(s)), s # <<>>
  PROVE  /\ Tail(s) \in Seq(Range(Tail(s)))
         /\ Range(s) \subseteq {Head(s)} \union Range(Tail(s))
<1> DEFINE S == Range(s)
<1> DEFINE t == Tail(s)
<1>1. /\ t \in Seq(S) /\ Len(t) = Len(s) - 1
      /\ \A i \in 1 .. Len(t) : t[i] = s[i + 1]
      /\ Len(s) \in Nat /\ DOMAIN s = 1 .. Len(s)
      /\ DOMAIN t = 1 .. Len(t) /\ Len(t) \in Nat
  <2>1. s \in Seq(S) /\ s # <<>>
    OBVIOUS
  <2> HIDE DEF S
  <2> QED BY <2>1, HeadTailProperties, LenProperties
<1>2. t \in Seq(Range(t))
  <2> HIDE DEF S, t
  <2> QED BY <1>1, SeqOfRange
<1>3. ASSUME NEW x \in Range(s)
      PROVE  x \in {Head(s)} \union Range(t)
  <2>1. PICK i \in 1 .. Len(s) : x = s[i]
    BY <1>1 DEF Range
  <2>2. CASE i = 1
    BY <1>1, <2>1, <2>2
  <2>3. CASE i # 1
    <3> DEFINE j == i - 1
    <3>1. j \in 1 .. Len(t) /\ t[j] = x
      BY <1>1, <2>1, <2>3
    <3> HIDE DEF j, t
    <3> QED BY <1>1, <3>1 DEF Range
  <2> QED BY <2>2, <2>3
<1> QED
  BY <1>2, <1>3

(* A campaign that ends promises nothing any more.                         *)
LEMMA EndKeepsSeeds ==
  ASSUME IInv, BInv, NEW p \in Campaigns, End(p), UNCHANGED stores
  PROVE  SeedsAreOnTheWay'
<1>1. /\ pc' = [pc EXCEPT ![p] = "off"] /\ corpus' = corpus
      /\ todo'[p] = <<>> /\ promised'[p] = {}
      /\ \A q \in Campaigns \ {p} : todo'[q] = todo[q] /\ promised'[q] = promised[q]
  BY DEF End, stores, IInv, LocalsAreFunctions, BInv
<1>2. pc'[p] = "off" /\ \A q \in Campaigns \ {p} : pc'[q] = pc[q]
  BY <1>1 DEF IInv, TypeOK
<1>3. <<>> \in Seq(Range(<<>>))
  BY EmptySeq
<1> DEFINE OnItsWay(q) ==
             /\ todo'[q] \in Seq(Range(todo'[q]))
             /\ pc'[q] \in {"off", "check", "ask"} => promised'[q] = {}
             /\ pc'[q] \in {"bill", "seed"} => promised'[q] \subseteq corpus' \union Range(todo'[q])
             /\ pc'[q] \in Fuzzing => corpus' # {} /\ promised'[q] \subseteq corpus'
<1>4. ASSUME NEW q \in Campaigns \ {p} PROVE OnItsWay(q)
  BY <1>1, <1>2 DEF BInv, SeedsAreOnTheWay
<1>5. OnItsWay(p)
  BY <1>1, <1>2, <1>3 DEF Fuzzing, Recording
<1>6. \A q \in Campaigns : OnItsWay(q)
  BY <1>4, <1>5
<1> QED
  BY <1>6 DEF SeedsAreOnTheWay, Fuzzing, Recording

(* What a campaign sets out to store is yet to be stored.                  *)
LEMMA SettingOutKeepsSeeds ==
  ASSUME IInv, BInv, NEW p \in Campaigns, NEW seeds, seeds \in Seq(Range(seeds)),
         SetOutToStore(p, seeds), UNCHANGED corpus,
         \E label \in {"bill", "seed"} : pc' = [pc EXCEPT ![p] = label]
  PROVE  SeedsAreOnTheWay'
<1>1. /\ todo'[p] = seeds /\ promised'[p] = Range(seeds)
      /\ \A q \in Campaigns \ {p} : todo'[q] = todo[q] /\ promised'[q] = promised[q]
  BY DEF SetOutToStore, IInv, LocalsAreFunctions, BInv
<1>2. pc'[p] \in {"bill", "seed"} /\ \A q \in Campaigns \ {p} : pc'[q] = pc[q]
  BY DEF IInv, TypeOK
<1>3. todo'[p] \in Seq(Range(todo'[p]))
  BY <1>1
<1> HIDE DEF Range
<1> QED
  BY <1>1, <1>2, <1>3 DEF BInv, SeedsAreOnTheWay, Fuzzing, Recording

(* Each step of a campaign keeps its own promise; it can only help those   *)
(* of the others, for no seed ever leaves the corpus.                      *)
LEMMA SeedsStep ==
  ASSUME IInv, BInv, NEW p \in Campaigns, Bootstraps(p)
  PROVE  SeedsAreOnTheWay'
<1>1. CASE Launch(p) \/ SeesSeeds(p) \/ SeesNone(p) \/ RecordCall(p)
  <2>1. /\ UNCHANGED <<corpus, todo, promised>>
        /\ \/ pc[p] = "off" /\ pc' = [pc EXCEPT ![p] = "check"]
           \/ pc[p] = "check" /\ corpus # {} /\ pc' = [pc EXCEPT ![p] = "fuzz"]
           \/ pc[p] = "check" /\ pc' = [pc EXCEPT ![p] = "ask"]
           \/ pc[p] = "bill" /\ pc' = [pc EXCEPT ![p] = "seed"]
    BY <1>1 DEF Launch, SeesSeeds, SeesNone, RecordCall, Goto, stores, history
  <2>2. /\ \A q \in Campaigns \ {p} : pc'[q] = pc[q]
        /\ \/ pc[p] = "off" /\ pc'[p] = "check"
           \/ pc[p] = "check" /\ corpus # {} /\ pc'[p] = "fuzz"
           \/ pc[p] = "check" /\ pc'[p] = "ask"
           \/ pc[p] = "bill" /\ pc'[p] = "seed"
    BY <2>1 DEF IInv, TypeOK
  <2>3. corpus' = corpus /\ todo' = todo /\ promised' = promised
    BY <2>1
  <2> HIDE DEF Range
  <2> QED
    BY <2>2, <2>3 DEF BInv, SeedsAreOnTheWay, Fuzzing, Recording
<1>2. CASE GetsNothing(p)
  <2>1. <<Fallback>> \in Seq(Range(<<Fallback>>))
    BY SeqOfRange, <<Fallback>> \in Seq({Fallback})
  <2>2. /\ SetOutToStore(p, <<Fallback>>) /\ UNCHANGED corpus
        /\ \E label \in {"bill", "seed"} : pc' = [pc EXCEPT ![p] = label]
    BY <1>2 DEF GetsNothing, Goto, stores
  <2> QED BY <2>1, <2>2, SettingOutKeepsSeeds
<1>3. CASE GetsReply(p)
  <2>1. PICK r \in Replies :
          SetOutToStore(p, IF Parse(r).seeds = <<>> THEN <<Fallback>> ELSE Parse(r).seeds)
    BY <1>3 DEF GetsReply
  <2> DEFINE seeds == IF Parse(r).seeds = <<>> THEN <<Fallback>> ELSE Parse(r).seeds
  <2>2. seeds \in Seq(Range(seeds))
    <3>1. <<Fallback>> \in Seq(Range(<<Fallback>>))
      BY SeqOfRange, <<Fallback>> \in Seq({Fallback})
    <3>2. Parse(r).seeds \in Seq(Range(Parse(r).seeds))
      BY SharedStoresAssumption, ParseGives DEF IsText
    <3> QED BY <3>1, <3>2
  <2>3. /\ SetOutToStore(p, seeds) /\ UNCHANGED corpus
        /\ \E label \in {"bill", "seed"} : pc' = [pc EXCEPT ![p] = label]
    BY <1>3, <2>1 DEF GetsReply, Goto, stores
  <2> HIDE DEF seeds
  <2> QED BY <2>2, <2>3, SettingOutKeepsSeeds
<1>4. CASE AddSeed(p)
  <2> DEFINE s == todo[p]
  <2>1. /\ pc[p] = "seed" /\ s \in Seq(Range(s)) /\ s # <<>>
        /\ promised[p] \subseteq corpus \union Range(s)
    BY <1>4 DEF AddSeed, BInv, SeedsAreOnTheWay, IInv, TypeOK
  <2>2. /\ corpus' = corpus \union {Head(s)}
        /\ todo'[p] = Tail(s) /\ promised' = promised
        /\ \A q \in Campaigns \ {p} : todo'[q] = todo[q]
    BY <1>4 DEF AddSeed, IInv, LocalsAreFunctions, history
  <2>3. /\ pc'[p] = IF Tail(s) = <<>> THEN "fuzz" ELSE "seed"
        /\ \A q \in Campaigns \ {p} : pc'[q] = pc[q]
    BY <1>4, <2>2 DEF AddSeed, Goto, IInv, TypeOK
  <2>4. Tail(s) \in Seq(Range(Tail(s))) /\ Range(s) \subseteq {Head(s)} \union Range(Tail(s))
    <3> HIDE DEF s
    <3> QED BY <2>1, HeadAndTail
  <2>5. promised[p] \subseteq corpus' \union Range(Tail(s))
    BY <2>1, <2>2, <2>4
  <2>6. Tail(s) = <<>> => Range(Tail(s)) = {}
    BY DEF Range
  <2>7. corpus \subseteq corpus' /\ corpus' # {}
    BY <2>2
  <2> HIDE DEF s
  <2>8. ASSUME NEW q \in Campaigns, q # p
        PROVE  /\ todo'[q] \in Seq(Range(todo'[q]))
               /\ pc'[q] \in {"off", "check", "ask"} => promised'[q] = {}
               /\ pc'[q] \in {"bill", "seed"} => promised'[q] \subseteq corpus' \union Range(todo'[q])
               /\ pc'[q] \in Fuzzing => corpus' # {} /\ promised'[q] \subseteq corpus'
    <3>1. todo'[q] = todo[q] /\ pc'[q] = pc[q] /\ promised'[q] = promised[q]
      BY <2>2, <2>3, <2>8
    <3> HIDE DEF Range
    <3> QED BY <2>7, <3>1 DEF BInv, SeedsAreOnTheWay
  <2>9. /\ todo'[p] \in Seq(Range(todo'[p]))
        /\ pc'[p] \in {"off", "check", "ask"} => promised'[p] = {}
        /\ pc'[p] \in {"bill", "seed"} => promised'[p] \subseteq corpus' \union Range(todo'[p])
        /\ pc'[p] \in Fuzzing => corpus' # {} /\ promised'[p] \subseteq corpus'
    <3> DEFINE t == Tail(s)
    <3>1. /\ t \in Seq(Range(t)) /\ promised[p] \subseteq corpus' \union Range(t)
          /\ t = <<>> => Range(t) = {}
      BY <2>4, <2>5, <2>6
    <3>2. todo'[p] = t /\ pc'[p] = (IF t = <<>> THEN "fuzz" ELSE "seed") /\ promised' = promised
      BY <2>2, <2>3
    <3> HIDE DEF t
    <3> QED BY <2>7, <3>1, <3>2 DEF Fuzzing, Recording
  <2> QED
    BY <2>8, <2>9 DEF SeedsAreOnTheWay
<1> QED
  BY <1>1, <1>2, <1>3, <1>4 DEF Bootstraps

(* A call is recorded for a start that recorded none. *)
LEMMA CallsStep ==
  ASSUME IInv, BInv, NEW p \in Campaigns,
         \/ Bootstraps(p)
         \/ End(p) /\ UNCHANGED stores
         \/ MeetCrash(p) \/ Select(p) \/ Update(p) \/ Insert(p) \/ SaveCrash(p)
  PROVE  CallsAreStarts'
<1>1. /\ bills \in Nat /\ launches \in Nat /\ IsFiniteSet(MayBill)
      /\ Cardinality(MayBill) \in Nat /\ bills + Cardinality(MayBill) <= launches
  BY SharedStoresAssumption, FS_CardinalityType DEF IInv, TypeOK, BInv, CallsAreStarts
<1>2. CASE Launch(p)
  <2>1. /\ pc[p] = "off" /\ pc' = [pc EXCEPT ![p] = "check"]
        /\ launches' = launches + 1 /\ bills' = bills
    BY <1>2 DEF Launch, Goto, stores
  <2>2. MayBill' = MayBill \union {p} /\ p \notin MayBill
    BY <2>1 DEF MayBill, IInv, TypeOK
  <2>3. IsFiniteSet(MayBill') /\ Cardinality(MayBill') = Cardinality(MayBill) + 1
    BY <1>1, <2>2, FS_AddElement
  <2> QED BY <1>1, <2>1, <2>3 DEF CallsAreStarts
<1>3. CASE RecordCall(p)
  <2>1. /\ pc[p] = "bill" /\ pc' = [pc EXCEPT ![p] = "seed"]
        /\ launches' = launches /\ bills' \in {bills, bills + 1}
    BY <1>3 DEF RecordCall, Goto, history
  <2>2. MayBill' = MayBill \ {p} /\ p \in MayBill
    BY <2>1 DEF MayBill, IInv, TypeOK
  <2>3. IsFiniteSet(MayBill') /\ Cardinality(MayBill') = Cardinality(MayBill) - 1
    BY <1>1, <2>2, FS_RemoveElement
  <2> QED BY <1>1, <2>1, <2>3 DEF CallsAreStarts
<1>4. ASSUME launches' = launches, bills' = bills, MayBill' \subseteq MayBill
      PROVE  CallsAreStarts'
  <2>1. /\ IsFiniteSet(MayBill') /\ Cardinality(MayBill') <= Cardinality(MayBill)
        /\ Cardinality(MayBill') \in Nat
    BY <1>1, <1>4, FS_Subset, FS_CardinalityType
  <2> QED BY <1>1, <1>4, <2>1 DEF CallsAreStarts
<1>5. CASE SeesSeeds(p) \/ SeesNone(p) \/ GetsNothing(p) \/ GetsReply(p) \/ AddSeed(p)
  <2>1. /\ launches' = launches /\ bills' = bills
        /\ \/ pc[p] \in {"check", "ask"}
           \/ pc'[p] \in {"seed", "fuzz"}
        /\ \A q \in Campaigns \ {p} : pc'[q] = pc[q]
    BY <1>5 DEF SeesSeeds, SeesNone, GetsNothing, GetsReply, AddSeed, Goto, stores, history,
                IInv, TypeOK
  <2> QED BY <1>4, <2>1 DEF MayBill
<1>6. CASE End(p) /\ UNCHANGED stores
  <2>1. /\ launches' = launches /\ bills' = bills
        /\ pc'[p] = "off" /\ \A q \in Campaigns \ {p} : pc'[q] = pc[q]
    BY <1>6 DEF End, stores, IInv, TypeOK
  <2> QED BY <1>4, <2>1 DEF MayBill
<1>7. CASE MeetCrash(p) \/ Select(p) \/ Update(p) \/ Insert(p) \/ SaveCrash(p)
  <2>1. /\ launches' = launches /\ bills' = bills
        /\ pc'[p] \in Fuzzing /\ \A q \in Campaigns \ {p} : pc'[q] = pc[q]
    BY <1>7 DEF MeetCrash, Select, Update, Insert, SaveCrash, Goto, stores, history,
                IInv, TypeOK, Fuzzing, Recording
  <2> QED BY <1>4, <2>1 DEF MayBill, Fuzzing, Recording
<1> QED
  BY <1>2, <1>3, <1>5, <1>6, <1>7 DEF Bootstraps

LEMMA NextKeepsBInv == IInv /\ BInv /\ [Next]_vars => BInv'
<1> SUFFICES ASSUME IInv, BInv, [Next]_vars PROVE BInv'
  OBVIOUS
<1>1. DOMAIN promised' = Campaigns /\ promised' = [p \in DOMAIN promised' |-> promised'[p]]
  BY DEF BInv, Next, Launch, SeesSeeds, SeesNone, GetsNothing, GetsReply, ReplyPanics,
         RecordCall, AddSeed, MeetCrash, Select, Update, Insert, InsertFails, SaveCrash, Die,
         End, SetOutToStore, vars, history
<1>2. CASE UNCHANGED vars
  BY <1>2 DEF BInv, SeedsAreOnTheWay, CallsAreStarts, MayBill, vars, stores, locals, history
<1>3. ASSUME NEW p \in Campaigns, Bootstraps(p) PROVE SeedsAreOnTheWay' /\ CallsAreStarts'
  BY <1>3, SeedsStep, CallsStep
<1>4. ASSUME NEW p \in Campaigns, ReplyPanics(p) \/ InsertFails(p) \/ Die(p)
      PROVE  SeedsAreOnTheWay' /\ CallsAreStarts'
  <2>1. End(p) /\ UNCHANGED stores
    BY <1>4 DEF ReplyPanics, InsertFails, Die
  <2> QED BY <2>1, EndKeepsSeeds, CallsStep
<1>5. ASSUME NEW p \in Campaigns,
             MeetCrash(p) \/ Select(p) \/ Update(p) \/ Insert(p) \/ SaveCrash(p)
      PROVE  SeedsAreOnTheWay' /\ CallsAreStarts'
  <2>1. CallsAreStarts'
    BY <1>5, CallsStep
  <2>2. /\ UNCHANGED <<corpus, todo, promised>> /\ pc[p] \in Fuzzing /\ pc'[p] \in Fuzzing
        /\ \A q \in Campaigns \ {p} : pc'[q] = pc[q]
    BY <1>5 DEF MeetCrash, Select, Update, Insert, SaveCrash, Goto, stores, history,
                IInv, TypeOK, Fuzzing, Recording
  <2>3. SeedsAreOnTheWay'
    BY <2>2 DEF BInv, SeedsAreOnTheWay, Fuzzing, Recording
  <2> QED BY <2>1, <2>3
<1> QED
  BY <1>1, <1>2, <1>3, <1>4, <1>5 DEF BInv, Next, Bootstraps

(* BootstrapIsWhole of SharedStores, for any number of campaigns: one that *)
(* fuzzes has a corpus with all it set out to store, whatever the others   *)
(* stored meanwhile, and each start records at most one call.              *)
THEOREM CorpusIsFilledWhole == Spec => []BootstrapIsWhole
<1>1. Init => BInv
  <2> SUFFICES ASSUME Init PROVE BInv
    OBVIOUS
  <2>1. MayBill = {} /\ bills = 0 /\ launches = 0
    BY DEF Init, MayBill
  <2>2. <<>> \in Seq(Range(<<>>))
    BY EmptySeq
  <2> QED
    BY <2>1, <2>2, FS_EmptySet
    DEF Init, BInv, SeedsAreOnTheWay, CallsAreStarts, Fuzzing, Recording
<1>2. IInv /\ BInv => BootstrapIsWhole
  <2> SUFFICES ASSUME IInv, BInv PROVE BootstrapIsWhole
    OBVIOUS
  <2>1. /\ bills \in Nat /\ launches \in Nat /\ Cardinality(MayBill) \in Nat
        /\ bills + Cardinality(MayBill) <= launches
    BY SharedStoresAssumption, FS_CardinalityType DEF IInv, TypeOK, BInv, CallsAreStarts
  <2>2. bills <= launches
    BY <2>1
  <2> QED BY <2>2 DEF BInv, SeedsAreOnTheWay, BootstrapIsWhole, Fuzzing, Recording
<1> QED
  BY <1>1, <1>2, Invariance, NextKeepsBInv, PTL DEF Spec

-----------------------------------------------------------------------------
(* The replies *)

(* what a campaign has yet to store until it has paid for the reply *)
RepliesAreParsed ==
  \A p \in Campaigns : reply[p] # <<>> =>
    /\ reply[p] \in Replies
    /\ todo[p] = IF Parse(reply[p]).seeds = <<>> THEN <<Fallback>> ELSE Parse(reply[p]).seeds

LEMMA NextKeepsReplies == IInv /\ RepliesAreParsed /\ [Next]_vars => RepliesAreParsed'
<1> SUFFICES ASSUME IInv, RepliesAreParsed, [Next]_vars PROVE RepliesAreParsed'
  OBVIOUS
<1> USE DEF RepliesAreParsed
<1>1. DOMAIN todo = Campaigns /\ DOMAIN reply = Campaigns
  BY DEF IInv, LocalsAreFunctions
<1>2. \A p \in Campaigns : reply[p] # <<>> => pc[p] = "bill"
  BY DEF IInv, TypeOK
<1>3. CASE UNCHANGED vars
  BY <1>3 DEF vars, locals
<1>4. ASSUME NEW p \in Campaigns, GetsReply(p) PROVE RepliesAreParsed'
  <2>1. PICK r \in Replies :
          /\ todo' = [todo EXCEPT ![p] = IF Parse(r).seeds = <<>> THEN <<Fallback>>
                                         ELSE Parse(r).seeds]
          /\ reply' = [reply EXCEPT ![p] = r]
    BY <1>4 DEF GetsReply, SetOutToStore
  <2> QED BY <1>1, <2>1
<1>5. ASSUME NEW p \in Campaigns, GetsNothing(p) \/ AddSeed(p) PROVE RepliesAreParsed'
  <2>1. PICK seeds : todo' = [todo EXCEPT ![p] = seeds]
    BY <1>5 DEF GetsNothing, SetOutToStore, AddSeed
  <2>2. reply' = reply /\ reply[p] = <<>>
    BY <1>2, <1>5 DEF GetsNothing, AddSeed
  <2> QED BY <1>1, <2>1, <2>2
<1>6. ASSUME NEW p \in Campaigns, RecordCall(p) PROVE RepliesAreParsed'
  BY <1>1, <1>6 DEF RecordCall
<1>7. ASSUME NEW p \in Campaigns, ReplyPanics(p) \/ InsertFails(p) \/ Die(p)
      PROVE  RepliesAreParsed'
  <2>1. End(p)
    BY <1>7 DEF ReplyPanics, InsertFails, Die
  <2> QED BY <1>1, <2>1 DEF End
<1>8. ASSUME NEW p \in Campaigns,
             Launch(p) \/ SeesSeeds(p) \/ SeesNone(p) \/ MeetCrash(p) \/ Select(p)
               \/ Update(p) \/ Insert(p) \/ SaveCrash(p)
      PROVE  RepliesAreParsed'
  <2>1. todo' = todo /\ reply' = reply
    BY <1>8 DEF Launch, SeesSeeds, SeesNone, MeetCrash, Select, Update, Insert, SaveCrash
  <2> QED BY <2>1
<1> QED
  BY <1>3, <1>4, <1>5, <1>6, <1>7, <1>8 DEF Next

(* ReplyIsUsed of SharedStores, for whatever a language model answers: a   *)
(* campaign stores every complete object with valid hex, unless a brace or *)
(* bracket misleads the three strategies of parse_llm_response, and stores *)
(* nothing else.                                                           *)
THEOREM RepliesAreUsed == Spec => []ReplyIsUsed
<1>1. Init => RepliesAreParsed
  BY DEF Init, RepliesAreParsed
<1>2. RepliesAreParsed => ReplyIsUsed
  <2> SUFFICES ASSUME RepliesAreParsed, NEW p \in Campaigns, reply[p] # <<>>
               PROVE  /\ Range(todo[p]) \subseteq ValidIn(reply[p]) \/ todo[p] = <<Fallback>>
                      /\ \/ ValidIn(reply[p]) \subseteq Range(todo[p])
                         \/ BracesMislead(reply[p]) \/ BracketsMislead(reply[p])
    BY DEF ReplyIsUsed
  <2> DEFINE r == reply[p]
             seeds == Parse(r).seeds
  <2>1. IsText(r) /\ todo[p] = IF seeds = <<>> THEN <<Fallback>> ELSE seeds
    BY SharedStoresAssumption DEF RepliesAreParsed, IsText
  <2> HIDE DEF r
  <2>2. /\ Range(seeds) \subseteq ValidIn(r)
        /\ ValidIn(r) \subseteq Range(seeds) \/ BracesMislead(r) \/ BracketsMislead(r)
    BY <2>1, ParseGives
  <2> HIDE DEF seeds
  <2>3. CASE seeds = <<>>
    <3>1. Range(seeds) = {}
      BY <2>3 DEF Range
    <3> QED BY <2>1, <2>2, <2>3, <3>1 DEF r
  <2>4. CASE seeds # <<>>
    BY <2>1, <2>2, <2>4 DEF r
  <2> QED BY <2>3, <2>4
<1> QED
  BY <1>1, <1>2, Invariance, NextKeepsReplies, PTL DEF Spec
=============================================================================

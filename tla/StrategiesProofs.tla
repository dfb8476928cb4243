-------------------------- MODULE StrategiesProofs --------------------------
(***************************************************************************)
(* Theorems about the mutation strategies, for messages, corpora and       *)
(* tokens of any length: no range of choices is empty, one call makes a    *)
(* message longer by a bounded amount, both ends of a message are within   *)
(* reach, and recombine joins two messages at the longest block they share.*)
(***************************************************************************)
EXTENDS Strategies, FiniteSetTheorems, WellFoundedInduction, SequenceTheorems, TLAPS

-----------------------------------------------------------------------------
(* Sets of numbers.                                                        *)

(* Induction over the subsets of a finite set; P is the set of those that  *)
(* have the property.                                                      *)
LEMMA InductionOnSubsets ==
  ASSUME NEW S, IsFiniteSet(S), NEW P,
         \A T \in SUBSET S : (\A U \in SUBSET T : U # T => U \in P) => T \in P
  PROVE  S \in P
<1> SUFFICES ASSUME S \notin P PROVE FALSE
  OBVIOUS
<1> DEFINE Bad == {T \in SUBSET S : T \notin P}
<1>1. Bad \subseteq FiniteSubsetsOf(S) /\ Bad # {}
  BY FS_FiniteSubsetsOfFinite
<1>2. IsWellFoundedOn(StrictSubsetOrdering(S), FiniteSubsetsOf(S))
  BY FS_StrictSubsetOrderingWellFounded
<1>3. PICK T \in Bad : \A U \in Bad : ~ (<<U, T>> \in StrictSubsetOrdering(S))
  <2> HIDE DEF Bad
  <2> QED
    BY <1>1, <1>2, WFMin
<1>4. PICK U \in SUBSET T : U # T /\ U \notin P
  OBVIOUS
<1>5. U \in Bad /\ <<U, T>> \in StrictSubsetOrdering(S)
  BY <1>4 DEF StrictSubsetOrdering
<1> HIDE DEF Bad
<1> QED
  BY <1>3, <1>5

(* Max finds the greatest number of a finite set.                          *)
LEMMA MaxIsGreatest ==
  ASSUME NEW S, IsFiniteSet(S), S # {}, S \subseteq Int
  PROVE  Max(S) \in S /\ \A x \in S : x <= Max(S)
<1> DEFINE P == {T \in SUBSET S : T # {} => \E g \in T : \A x \in T : x <= g}
<1>1. ASSUME NEW T \in SUBSET S, \A U \in SUBSET T : U # T => U \in P
      PROVE  T \in P
  <2> SUFFICES ASSUME T # {} PROVE \E g \in T : \A x \in T : x <= g
    OBVIOUS
  <2>1. PICK t \in T : TRUE
    OBVIOUS
  <2> DEFINE U == T \ {t}
  <2>2. U \in P
    BY <1>1
  <2>3. CASE U = {}
    BY <2>1, <2>3
  <2>4. CASE U # {}
    <3>1. PICK g \in U : \A x \in U : x <= g
      BY <2>2, <2>4
    <3>2. t \in Int /\ g \in Int /\ g \in T /\ \A x \in T : x \in U \/ x = t
      OBVIOUS
    <3>3. CASE t <= g
      BY <3>1, <3>2, <3>3
    <3>4. CASE g < t
      <4>1. \A x \in U : x <= t
        BY <3>1, <3>2, <3>4
      <4> QED
        BY <2>1, <3>2, <4>1
    <3> QED
      BY <3>2, <3>3, <3>4
  <2> QED
    BY <2>3, <2>4
<1>2. S \in P
  <2> HIDE DEF P
  <2> QED
    BY <1>1, InductionOnSubsets
<1>3. \E g \in S : \A x \in S : g >= x
  BY <1>2
<1>4. Max(S) \in S /\ \A x \in S : Max(S) >= x
  BY <1>3 DEF Max
<1> QED
  BY <1>4

-----------------------------------------------------------------------------
(* Messages.                                                               *)

Messages == Seq(Byte)

(* A message is a function on its offsets, counted from 1.                 *)
LEMMA MessageType ==
  ASSUME NEW m \in Messages
  PROVE  /\ Len(m) \in Nat /\ DOMAIN m = 1 .. Len(m) /\ m \in [1 .. Len(m) -> Byte]
         /\ m = <<>> <=> Len(m) = 0
<1>1. Len(m) \in Nat /\ DOMAIN m = 1 .. Len(m) /\ m \in [1 .. Len(m) -> Byte]
  BY LenProperties DEF Messages
<1>2. m # <<>> => Len(m) \in Nat \ {0}
  BY EmptySeq DEF Messages
<1>3. Len(<<>>) = 0
  BY EmptySeq
<1> QED
  BY <1>1, <1>2, <1>3

(* What is given byte by byte is a message.                                *)
LEMMA BytesMakeMessage ==
  ASSUME NEW n \in Nat, NEW m \in [1 .. n -> Byte]
  PROVE  m \in Messages /\ Len(m) = n
<1>1. m \in Messages
  BY SeqDef DEF Messages
<1>2. DOMAIN m = 1 .. n /\ DOMAIN m = 1 .. Len(m) /\ Len(m) \in Nat
  BY <1>1, MessageType
<1> QED
  BY <1>1, <1>2

(* A part of a message is a message.                                       *)
LEMMA PartOfMessage ==
  ASSUME NEW m \in Messages, NEW i \in Nat, NEW j \in Nat, 1 <= i, j <= Len(m)
  PROVE  /\ SubSeq(m, i, j) \in Messages
         /\ Len(SubSeq(m, i, j)) = IF i <= j THEN j - i + 1 ELSE 0
         /\ \A k \in 1 .. j - i + 1 : SubSeq(m, i, j)[k] = m[i + k - 1]
<1>1. \A k \in i .. j : m[k] \in Byte
  BY MessageType
<1> QED
  BY <1>1, SubSeqProperties DEF Messages

(* Two messages put together.                                              *)
LEMMA JoinedMessages ==
  ASSUME NEW a \in Messages, NEW b \in Messages
  PROVE  /\ a \o b \in Messages
         /\ Len(a \o b) = Len(a) + Len(b)
         /\ \A k \in 1 .. Len(a) + Len(b) :
              (a \o b)[k] = IF k <= Len(a) THEN a[k] ELSE b[k - Len(a)]
BY ConcatProperties DEF Messages

(* The n bytes of a message from an offset on.                             *)
LEMMA BlockOfMessage ==
  ASSUME NEW m \in Messages, NEW i \in Nat, NEW n \in Nat, i + n <= Len(m)
  PROVE  /\ SubSeq(m, i + 1, i + n) \in Messages
         /\ Len(SubSeq(m, i + 1, i + n)) = n
         /\ \A k \in 1 .. n : SubSeq(m, i + 1, i + n)[k] = m[i + k]
<1> DEFINE f == i + 1
           g == i + n
           x == SubSeq(m, f, g)
<1>1. /\ f \in Nat /\ g \in Nat /\ 1 <= f /\ g - f + 1 = n
      /\ f <= g <=> n # 0
      /\ \A k \in 1 .. n : f + k - 1 = i + k
  OBVIOUS
<1>2. g <= Len(m)
  OBVIOUS
<1> HIDE DEF f, g
<1>3. /\ x \in Messages /\ Len(x) = IF f <= g THEN g - f + 1 ELSE 0
      /\ \A k \in 1 .. g - f + 1 : x[k] = m[f + k - 1]
  BY <1>1, <1>2, PartOfMessage
<1> HIDE DEF x
<1>4. Len(x) = n /\ \A k \in 1 .. n : x[k] = m[i + k]
  BY <1>1, <1>3
<1> QED
  BY <1>3, <1>4 DEF x, f, g

(* The end of a message behind an offset.                                  *)
LEMMA EndOfMessage ==
  ASSUME NEW m \in Messages, NEW i \in 0 .. Len(m)
  PROVE  /\ SubSeq(m, i + 1, Len(m)) \in Messages
         /\ Len(SubSeq(m, i + 1, Len(m))) = Len(m) - i
         /\ \A k \in 1 .. Len(m) - i : SubSeq(m, i + 1, Len(m))[k] = m[i + k]
<1>1. Len(m) \in Nat
  BY MessageType
<1> DEFINE n == Len(m) - i
<1>2. n \in Nat /\ i \in Nat /\ i + n = Len(m) /\ i + n <= Len(m)
  BY <1>1
<1> HIDE DEF n
<1>3. /\ SubSeq(m, i + 1, i + n) \in Messages
      /\ Len(SubSeq(m, i + 1, i + n)) = n
      /\ \A k \in 1 .. n : SubSeq(m, i + 1, i + n)[k] = m[i + k]
  BY <1>1, <1>2, BlockOfMessage
<1> QED
  BY <1>2, <1>3 DEF n

(* The beginning of a message up to an offset.                             *)
LEMMA BeginningOfMessage ==
  ASSUME NEW m \in Messages, NEW i \in 0 .. Len(m)
  PROVE  /\ SubSeq(m, 1, i) \in Messages
         /\ Len(SubSeq(m, 1, i)) = i
         /\ \A k \in 1 .. i : SubSeq(m, 1, i)[k] = m[k]
<1>1. Len(m) \in Nat
  BY MessageType
<1> DEFINE z == 0
<1>2. /\ i \in Nat /\ z \in Nat /\ z + i <= Len(m) /\ z + 1 = 1 /\ z + i = i
      /\ \A k \in 1 .. i : z + k = k
  BY <1>1
<1> HIDE DEF z
<1>3. /\ SubSeq(m, z + 1, z + i) \in Messages
      /\ Len(SubSeq(m, z + 1, z + i)) = i
      /\ \A k \in 1 .. i : SubSeq(m, z + 1, z + i)[k] = m[z + k]
  BY <1>2, BlockOfMessage
<1> QED
  BY <1>2, <1>3

(* The beginning of one message before the end of another, byte by byte.   *)
LEMMA BeginningThenEnd ==
  ASSUME NEW m \in Messages, NEW other \in Messages,
         NEW i \in 0 .. Len(m), NEW j \in 0 .. Len(other)
  PROVE  LET out == SubSeq(m, 1, i) \o SubSeq(other, j + 1, Len(other))
         IN  /\ out \in Messages /\ Len(out) = i + (Len(other) - j)
             /\ \A k \in 1 .. i : out[k] = m[k]
             /\ \A k \in 1 .. Len(other) - j : out[i + k] = other[j + k]
<1> DEFINE front == SubSeq(m, 1, i)
           back  == SubSeq(other, j + 1, Len(other))
           l     == Len(other) - j
           out   == front \o back
<1>1. front \in Messages /\ Len(front) = i /\ \A k \in 1 .. i : front[k] = m[k]
  BY BeginningOfMessage
<1>2. back \in Messages /\ Len(back) = l /\ \A k \in 1 .. l : back[k] = other[j + k]
  BY EndOfMessage
<1>3. i \in Nat /\ l \in Nat
  BY MessageType
<1> HIDE DEF front, back, l
<1>4. /\ out \in Messages /\ Len(out) = i + l
      /\ \A k \in 1 .. i + l : out[k] = IF k <= i THEN front[k] ELSE back[k - i]
  BY <1>1, <1>2, JoinedMessages
<1> HIDE DEF out
<1>5. ASSUME NEW k \in 1 .. i
      PROVE  out[k] = m[k]
  <2>1. k \in 1 .. i + l /\ k <= i
    BY <1>3
  <2> QED
    BY <1>1, <1>4, <2>1
<1>6. ASSUME NEW k \in 1 .. l
      PROVE  out[i + k] = other[j + k]
  <2>1. i + k \in 1 .. i + l /\ ~ (i + k <= i) /\ (i + k) - i = k
    BY <1>3
  <2>2. out[i + k] = back[(i + k) - i]
    BY <1>4, <2>1
  <2> QED
    BY <1>2, <2>1, <2>2
<1> QED
  BY <1>4, <1>5, <1>6 DEF out, front, back, l

(* Overwriting keeps the length, and puts the bytes where they belong.     *)
LEMMA OverwriteKeepsLength ==
  ASSUME NEW m \in Messages, NEW at \in Int, NEW bytes \in Messages
  PROVE  /\ Overwrite(m, at, bytes) \in Messages
         /\ Len(Overwrite(m, at, bytes)) = Len(m)
         /\ \A k \in 1 .. Len(m) :
              Overwrite(m, at, bytes)[k] =
                IF k - at \in 1 .. Len(bytes) THEN bytes[k - at] ELSE m[k]
<1> DEFINE out == Overwrite(m, at, bytes)
<1>1. /\ Len(m) \in Nat /\ DOMAIN m = 1 .. Len(m) /\ m \in [1 .. Len(m) -> Byte]
      /\ DOMAIN bytes = 1 .. Len(bytes) /\ bytes \in [1 .. Len(bytes) -> Byte]
  BY MessageType
<1>2. out \in [1 .. Len(m) -> Byte]
  BY <1>1 DEF Overwrite
<1>3. \A k \in 1 .. Len(m) :
        out[k] = IF k - at \in 1 .. Len(bytes) THEN bytes[k - at] ELSE m[k]
  BY <1>1 DEF Overwrite
<1>4. out \in Messages /\ Len(out) = Len(m)
  <2> HIDE DEF out
  <2> QED
    BY <1>1, <1>2, BytesMakeMessage
<1> QED
  BY <1>3, <1>4

(* Inserting makes a message longer by what is inserted.                   *)
LEMMA InsertAddsLength ==
  ASSUME NEW m \in Messages, NEW at \in 0 .. Len(m), NEW bytes \in Messages
  PROVE  /\ Insert(m, at, bytes) \in Messages
         /\ Len(Insert(m, at, bytes)) = Len(m) + Len(bytes)
<1> DEFINE front == SubSeq(m, 1, at)
           back  == SubSeq(m, at + 1, Len(m))
<1>1. Len(m) \in Nat /\ Len(bytes) \in Nat /\ at \in Nat /\ at <= Len(m)
  BY MessageType
<1>2. front \in Messages /\ Len(front) = at
  BY <1>1, PartOfMessage
<1>3. back \in Messages /\ Len(back) = Len(m) - at
  BY <1>1, PartOfMessage
<1> HIDE DEF front, back
<1> DEFINE start == front \o bytes
<1>4. start \in Messages /\ Len(start) = at + Len(bytes)
  BY <1>2, JoinedMessages
<1>5. Insert(m, at, bytes) = start \o back
  BY DEF Insert, front, back
<1> HIDE DEF start
<1>6. start \o back \in Messages /\ Len(start \o back) = Len(start) + Len(back)
  BY <1>3, <1>4, JoinedMessages
<1> QED
  BY <1>1, <1>3, <1>4, <1>5, <1>6

(* Deleting makes it shorter by what is deleted.                           *)
LEMMA DeleteTakesLength ==
  ASSUME NEW m \in Messages, NEW at \in Nat, NEW n \in Nat, at + n <= Len(m)
  PROVE  /\ Delete(m, at, n) \in Messages
         /\ Len(Delete(m, at, n)) = Len(m) - n
<1> DEFINE front == SubSeq(m, 1, at)
           back  == SubSeq(m, at + n + 1, Len(m))
<1>1. Len(m) \in Nat /\ at <= Len(m)
  BY MessageType
<1>2. front \in Messages /\ Len(front) = at
  BY <1>1, PartOfMessage
<1>3. back \in Messages /\ Len(back) = Len(m) - (at + n)
  BY <1>1, PartOfMessage
<1> HIDE DEF front, back
<1>4. Delete(m, at, n) = front \o back
  BY DEF Delete, front, back
<1>5. front \o back \in Messages /\ Len(front \o back) = Len(front) + Len(back)
  BY <1>2, <1>3, JoinedMessages
<1> QED
  BY <1>1, <1>2, <1>3, <1>4, <1>5

-----------------------------------------------------------------------------
(* Bytes.                                                                  *)

(* The powers of two and of Base that numbers of bytes are made of.        *)
LEMMA Powers ==
  /\ 2 ^ 0 = 1 /\ 2 ^ 1 = 2 /\ 2 ^ 2 = 4 /\ 2 ^ 3 = 8
  /\ 2 ^ 4 = 16 /\ 2 ^ 5 = 32 /\ 2 ^ 6 = 64 /\ 2 ^ 7 = 128
OBVIOUS

(* A flipped bit gives another byte.                                       *)
LEMMA FlippedIsOther ==
  ASSUME NEW v \in Byte, NEW bit \in Bits
  PROVE  FlippedBit(v, bit) \in Byte /\ FlippedBit(v, bit) # v
<1> DEFINE p == 2 ^ bit
<1>1. p \in {1, 2, 4, 8, 16, 32, 64, 128} /\ p < Base
  <2>1. bit \in 0 .. 7 /\ p < Base
    BY DEF Bits
  <2>2. \/ bit = 0 \/ bit = 1 \/ bit = 2 \/ bit = 3
        \/ bit = 4 \/ bit = 5 \/ bit = 6 \/ bit = 7
    BY <2>1
  <2>3. p \in {1, 2, 4, 8, 16, 32, 64, 128}
    <3>1. bit = 0 => p = 1
      BY Powers
    <3>2. bit = 1 => p = 2
      BY Powers
    <3>3. bit = 2 => p = 4
      BY Powers
    <3>4. bit = 3 => p = 8
      BY Powers
    <3>5. bit = 4 => p = 16
      BY Powers
    <3>6. bit = 5 => p = 32
      BY Powers
    <3>7. bit = 6 => p = 64
      BY Powers
    <3>8. bit = 7 => p = 128
      BY Powers
    <3> QED
      BY <2>2, <3>1, <3>2, <3>3, <3>4, <3>5, <3>6, <3>7, <3>8
  <2> QED
    BY <2>1, <2>3
<1>2. Base \in {2, 4, 8, 256}
  BY StrategiesAssumption
<1> HIDE DEF p
<1> DEFINE f == IF (v \div p) % 2 = 1 THEN v - p ELSE v + p
<1>3. f \in Byte /\ f # v
  <2>1. CASE p = 1
    BY <1>1, <1>2, <2>1 DEF Byte
  <2>2. CASE p = 2
    BY <1>1, <1>2, <2>2 DEF Byte
  <2>3. CASE p = 4
    BY <1>1, <1>2, <2>3 DEF Byte
  <2>4. CASE p = 8
    BY <1>1, <1>2, <2>4 DEF Byte
  <2>5. CASE p = 16
    BY <1>1, <1>2, <2>5 DEF Byte
  <2>6. CASE p = 32
    BY <1>1, <1>2, <2>6 DEF Byte
  <2>7. CASE p = 64
    BY <1>1, <1>2, <2>7 DEF Byte
  <2>8. CASE p = 128
    BY <1>1, <1>2, <2>8 DEF Byte
  <2> QED
    BY <1>1, <2>1, <2>2, <2>3, <2>4, <2>5, <2>6, <2>7, <2>8
<1> QED
  BY <1>3 DEF FlippedBit, p

LEMMA BasePowers ==
  /\ Base ^ 0 = 1 /\ Base ^ 1 = Base /\ Base ^ 2 = Base * Base
  /\ Base ^ 3 = Base * Base * Base /\ Base ^ 4 = Base * Base * Base * Base
<1>1. CASE Base = 2
  <2>1. 2 ^ 0 = 1 /\ 2 ^ 1 = 2 /\ 2 ^ 2 = 4 /\ 2 ^ 3 = 8 /\ 2 ^ 4 = 16
    OBVIOUS
  <2> QED
    BY <1>1, <2>1
<1>2. CASE Base = 4
  <2>1. 4 ^ 0 = 1 /\ 4 ^ 1 = 4 /\ 4 ^ 2 = 16 /\ 4 ^ 3 = 64 /\ 4 ^ 4 = 256
    OBVIOUS
  <2> QED
    BY <1>2, <2>1
<1>3. CASE Base = 8
  <2>1. 8 ^ 0 = 1 /\ 8 ^ 1 = 8 /\ 8 ^ 2 = 64 /\ 8 ^ 3 = 512 /\ 8 ^ 4 = 4096
    OBVIOUS
  <2> QED
    BY <1>3, <2>1
<1>4. CASE Base = 256
  <2>1. /\ 256 ^ 0 = 1 /\ 256 ^ 1 = 256 /\ 256 ^ 2 = 65536
        /\ 256 ^ 3 = 16777216 /\ 256 ^ 4 = 4294967296
    OBVIOUS
  <2> QED
    BY <1>4, <2>1
<1> QED
  BY <1>1, <1>2, <1>3, <1>4, StrategiesAssumption

(* A remainder modulo Base is a byte.                                      *)
LEMMA RemaindersAreBytes ==
  ASSUME NEW x \in Int
  PROVE  x % Base \in Byte
BY StrategiesAssumption DEF Byte

(* A byte that something is added to or taken from is another byte.        *)
LEMMA ShiftedIsOther ==
  ASSUME NEW v \in Byte
  PROVE  Shifted(v) \subseteq Byte /\ \E w \in Shifted(v) : w # v
<1>1. Base \in {2, 4, 8, 256} /\ DeltaMax \in 1 .. Base - 1 /\ v \in 0 .. Base - 1
  BY StrategiesAssumption DEF Byte
<1>2. \A d \in 1 .. DeltaMax : v + d \in Int /\ v + Base - d \in Int
  BY <1>1
<1>3. Shifted(v) \subseteq Byte
  BY <1>2, RemaindersAreBytes DEF Shifted
<1>4. (v + 1) % Base \in Shifted(v)
  <2> DEFINE near(d) == {(v + d) % Base, (v + Base - d) % Base}
  <2>1. (v + 1) % Base \in near(1) /\ 1 \in 1 .. DeltaMax
    BY <1>1
  <2>2. Shifted(v) = UNION {near(d) : d \in 1 .. DeltaMax}
    BY DEF Shifted
  <2> HIDE DEF near
  <2> QED
    BY <2>1, <2>2
<1>5. (v + 1) % Base # v
  BY <1>1
<1> QED
  BY <1>3, <1>4, <1>5

(* Interesting numbers of n bytes are n bytes; 0 is one, and so is the     *)
(* greatest there is.                                                      *)
LEMMA InterestingType ==
  ASSUME NEW n \in {1, 2, 4}
  PROVE  /\ Interesting(n) \subseteq Messages
         /\ \A bytes \in Interesting(n) : Len(bytes) = n
         /\ \E low, high \in Interesting(n) : \A k \in 1 .. n : low[k] = 0 /\ high[k] = Base - 1
<1>1. Base \in {2, 4, 8, 256}
  BY StrategiesAssumption
<1> DEFINE all == Base ^ n
           half == IF n = 1 THEN {} ELSE {Base ^ (n \div 2) - 1, Base ^ (n \div 2)}
           one  == IF n = 1 THEN {} ELSE {Base - 1, Base}
           vs   == {0, 1, all \div 2 - 1, all \div 2, all - 1} \union half \union one
<1>2. all \in Nat /\ all >= 2
  <2>1. n = 1 => all = Base
    BY BasePowers
  <2>2. n = 2 => all = Base * Base
    BY BasePowers
  <2>3. n = 4 => all = Base * Base * Base * Base
    BY BasePowers
  <2> HIDE DEF all
  <2> QED
    BY <1>1, <2>1, <2>2, <2>3
<1>3. vs \subseteq Nat
  <2>1. {0, 1, all \div 2 - 1, all \div 2, all - 1} \subseteq Nat
    <3> HIDE DEF all
    <3> QED
      BY <1>2
  <2>2. half \subseteq Nat
    <3>1. n = 2 => half = {Base - 1, Base}
      BY BasePowers
    <3>2. n = 4 => half = {Base * Base - 1, Base * Base}
      BY BasePowers
    <3>3. n = 1 => half = {}
      OBVIOUS
    <3> HIDE DEF half
    <3> QED
      BY <1>1, <3>1, <3>2, <3>3
  <2>3. one \subseteq Nat
    BY <1>1
  <2> QED
    BY <2>1, <2>2, <2>3
<1>4. \A k \in 1 .. n : Base ^ (k - 1) \in Nat /\ Base ^ (k - 1) > 0
  <2> SUFFICES ASSUME NEW k \in 1 .. n PROVE Base ^ (k - 1) \in Nat /\ Base ^ (k - 1) > 0
    OBVIOUS
  <2> DEFINE e == k - 1
             p == Base ^ e
  <2>1. e = 0 \/ e = 1 \/ e = 2 \/ e = 3
    OBVIOUS
  <2>2. p = 1 \/ p = Base \/ p = Base * Base \/ p = Base * Base * Base
    <3> HIDE DEF e
    <3> QED
      BY <2>1, BasePowers
  <2>3. p \in Nat /\ p > 0
    <3> HIDE DEF p
    <3> QED
      BY <1>1, <2>2
  <2> QED
    BY <2>3
<1>5. Interesting(n) = {LittleEndian(v, n) : v \in vs}
  BY DEF Interesting
<1>6. ASSUME NEW v \in vs
      PROVE  /\ LittleEndian(v, n) \in [1 .. n -> Byte]
             /\ \A k \in 1 .. n : LittleEndian(v, n)[k] = (v \div Base ^ (k - 1)) % Base
  <2>1. ASSUME NEW k \in 1 .. n PROVE (v \div Base ^ (k - 1)) % Base \in Byte
    <3> DEFINE p == Base ^ (k - 1)
    <3>1. p \in Nat /\ p > 0 /\ v \in Nat
      BY <1>3, <1>4
    <3> HIDE DEF p, vs
    <3>2. v \div p \in Int
      BY <3>1
    <3>3. (v \div p) % Base \in Byte
      BY <3>2, RemaindersAreBytes
    <3> QED
      BY <3>3 DEF p
  <2> QED
    BY <2>1 DEF LittleEndian
<1>7. n \in Nat
  OBVIOUS
<1>8. \A v \in vs : LittleEndian(v, n) \in Messages /\ Len(LittleEndian(v, n)) = n
  <2> HIDE DEF vs
  <2> QED
    BY <1>6, <1>7, BytesMakeMessage
<1>9. \A k \in 1 .. n : LittleEndian(0, n)[k] = 0
  <2> SUFFICES ASSUME NEW k \in 1 .. n PROVE LittleEndian(0, n)[k] = 0
    OBVIOUS
  <2> DEFINE p == Base ^ (k - 1)
  <2>1. LittleEndian(0, n)[k] = (0 \div p) % Base
    BY <1>6
  <2>2. p \in Nat /\ p > 0
    BY <1>4
  <2> HIDE DEF p
  <2>3. 0 \div p = 0
    BY <2>2
  <2> QED
    BY <1>1, <2>1, <2>3
<1>10. \A k \in 1 .. n : LittleEndian(all - 1, n)[k] = Base - 1
  <2> SUFFICES ASSUME NEW k \in 1 .. n PROVE LittleEndian(all - 1, n)[k] = Base - 1
    OBVIOUS
  <2> DEFINE e == k - 1
             p == Base ^ e
  <2>1. LittleEndian(all - 1, n)[k] = ((all - 1) \div p) % Base
    BY <1>6
  <2>2. /\ e = 0 => p = 1
        /\ e = 1 => p = Base
        /\ e = 2 => p = Base * Base
        /\ e = 3 => p = Base * Base * Base
    <3> HIDE DEF e
    <3> QED
      BY BasePowers
  <2>3. /\ n = 1 => all = Base
        /\ n = 2 => all = Base * Base
        /\ n = 4 => all = Base * Base * Base * Base
    BY BasePowers
  <2>4. e \in 0 .. n - 1
    OBVIOUS
  <2> HIDE DEF e, p, all
  <2>5. ((all - 1) \div p) % Base = Base - 1
    <3>1. CASE Base = 2
      BY <2>2, <2>3, <2>4, <3>1
    <3>2. CASE Base = 4
      BY <2>2, <2>3, <2>4, <3>2
    <3>3. CASE Base = 8
      BY <2>2, <2>3, <2>4, <3>3
    <3>4. CASE Base = 256
      BY <2>2, <2>3, <2>4, <3>4
    <3> QED
      BY <1>1, <3>1, <3>2, <3>3, <3>4
  <2> QED
    BY <2>1, <2>5
<1>11. LittleEndian(0, n) \in Interesting(n) /\ LittleEndian(all - 1, n) \in Interesting(n)
  BY <1>5
<1>12. Interesting(n) \subseteq Messages /\ \A bytes \in Interesting(n) : Len(bytes) = n
  <2> HIDE DEF vs
  <2> QED
    BY <1>5, <1>8
<1> HIDE DEF all, vs
<1> QED
  BY <1>9, <1>10, <1>11, <1>12

-----------------------------------------------------------------------------
(* What each strategy returns.                                             *)

(* What the longest insertion or fallback adds to a message.               *)
Growth == Max({InsertMax, FallbackLen})

LEMMA GrowthBounds ==
  Growth \in Nat /\ InsertMax <= Growth /\ FallbackLen <= Growth /\ Growth >= 1
<1>1. IsFiniteSet({InsertMax, FallbackLen})
  <2>1. IsFiniteSet({InsertMax} \union {FallbackLen})
    BY FS_Singleton, FS_Union
  <2>2. {InsertMax, FallbackLen} = {InsertMax} \union {FallbackLen}
    OBVIOUS
  <2> QED
    BY <2>1, <2>2
<1>2. InsertMax \in Nat \ {0} /\ FallbackLen \in Nat \ {0}
  BY StrategiesAssumption
<1>3. Growth \in {InsertMax, FallbackLen} /\ \A x \in {InsertMax, FallbackLen} : x <= Growth
  <2> DEFINE S == {InsertMax, FallbackLen}
  <2>1. IsFiniteSet(S) /\ S # {} /\ S \subseteq Int
    BY <1>1, <1>2
  <2> HIDE DEF S
  <2>2. Max(S) \in S /\ \A x \in S : x <= Max(S)
    BY <2>1, MaxIsGreatest
  <2> QED
    BY <2>2 DEF S, Growth
<1> HIDE DEF Growth
<1> QED
  BY <1>2, <1>3

(* A strategy has an outcome, all of its outcomes are messages, and none   *)
(* is longer than the message it was given by more than g.                 *)
IsSound(outs, m, g) ==
  outs # {} /\ \A out \in outs : out \in Messages /\ Len(out) <= Len(m) + g

LEMMA SoundIsMonotonic ==
  ASSUME NEW outs, NEW m \in Messages, NEW g \in Nat, NEW h \in Nat, g <= h,
         IsSound(outs, m, g)
  PROVE  IsSound(outs, m, h)
<1>1. Len(m) \in Nat /\ \A out \in outs : Len(out) \in Nat
  BY MessageType DEF IsSound
<1> QED
  BY <1>1 DEF IsSound

(* Random bytes.                                                           *)
LEMMA RandomType ==
  ASSUME NEW n \in Nat
  PROVE  /\ Random(n) # {}
         /\ \A bytes \in Random(n) : bytes \in Messages /\ Len(bytes) = n
<1>1. 0 \in Byte
  BY StrategiesAssumption DEF Byte
<1>2. [k \in 1 .. n |-> 0] \in Random(n)
  BY <1>1 DEF Random
<1> QED
  BY <1>2, BytesMakeMessage DEF Random

(* One byte is a message of one byte, and one of Random(1).                *)
LEMMA OneByte ==
  ASSUME NEW v \in Byte
  PROVE  <<v>> \in Messages /\ Len(<<v>>) = 1 /\ <<v>>[1] = v /\ <<v>> \in Random(1)
<1>1. <<v>> \in [1 .. 1 -> Byte] /\ <<v>>[1] = v
  OBVIOUS
<1> QED
  BY <1>1, BytesMakeMessage DEF Random

(* A fallback.                                                             *)
LEMMA FallbackIsSound ==
  ASSUME NEW m \in Messages
  PROVE  IsSound(RandomFallback, m, Growth)
<1>1. FallbackLen \in Nat /\ Len(m) \in Nat /\ FallbackLen <= Growth /\ Growth \in Nat
  BY StrategiesAssumption, GrowthBounds, MessageType
<1>2. /\ RandomFallback # {}
      /\ \A out \in RandomFallback : out \in Messages /\ Len(out) = FallbackLen
  BY <1>1, RandomType DEF RandomFallback
<1> QED
  BY <1>1, <1>2 DEF IsSound

(* Edits in place: each outcome is the message with bytes written over it. *)
LEMMA OverwritesAreSound ==
  ASSUME NEW m \in Messages, NEW outs, outs # {},
         \A out \in outs : \E at \in Nat, bytes \in Messages : out = Overwrite(m, at, bytes)
  PROVE  IsSound(outs, m, 0)
<1>1. Len(m) \in Nat
  BY MessageType
<1>2. \A out \in outs : out \in Messages /\ Len(out) = Len(m)
  BY OverwriteKeepsLength
<1> QED
  BY <1>1, <1>2 DEF IsSound

(* A block of a message that is not empty lies within it.                  *)
LEMMA BlocksLieWithin ==
  ASSUME NEW m \in Messages, m # <<>>
  PROVE  /\ \A b \in Blocks(m) : b.at \in Nat /\ b.len \in Nat \ {0} /\ b.at + b.len <= Len(m)
         /\ \A at \in Offsets(m) : [at |-> at, len |-> 1] \in Blocks(m)
<1>1. Len(m) \in Nat \ {0} /\ BlockMax \in Nat \ {0}
  BY StrategiesAssumption, MessageType
<1> DEFINE longest == Shorter(BlockMax, Len(m))
           blocks(n) == {[at |-> at, len |-> n] : at \in 0 .. Len(m) - n}
<1>2. longest \in Nat \ {0} /\ longest <= Len(m)
  BY <1>1 DEF Shorter
<1>3. Blocks(m) = UNION {blocks(n) : n \in 1 .. longest}
  BY DEF Blocks
<1> HIDE DEF longest
<1>4. ASSUME NEW b \in Blocks(m)
      PROVE  b.at \in Nat /\ b.len \in Nat \ {0} /\ b.at + b.len <= Len(m)
  <2>1. PICK n \in 1 .. longest : b \in blocks(n)
    BY <1>3
  <2>2. PICK at \in 0 .. Len(m) - n : b = [at |-> at, len |-> n]
    BY <2>1
  <2> QED
    BY <1>1, <1>2, <2>2
<1>5. ASSUME NEW at \in Offsets(m)
      PROVE  [at |-> at, len |-> 1] \in Blocks(m)
  <2>1. at \in 0 .. Len(m) - 1 /\ 1 \in 1 .. longest
    BY <1>1, <1>2, <1>5 DEF Offsets
  <2>2. [at |-> at, len |-> 1] \in blocks(1)
    BY <2>1
  <2> HIDE DEF blocks
  <2> QED
    BY <1>3, <2>1, <2>2
<1> QED
  BY <1>4, <1>5

(* An edit in place that can replace a byte, at either end, by another.    *)
ChangesEnds(outs, m) ==
  \A end \in {1, Len(m)} : \E out \in outs : Len(out) = Len(m) /\ out[end] # m[end]

(* It can if bytes are written over each end that differ there.            *)
LEMMA OverwritesChangeEnds ==
  ASSUME NEW m \in Messages, m # <<>>, NEW outs,
         \A end \in {1, Len(m)} : \E at \in Int, bytes \in Messages :
           /\ end - at \in 1 .. Len(bytes) /\ bytes[end - at] # m[end]
           /\ Overwrite(m, at, bytes) \in outs
  PROVE  ChangesEnds(outs, m)
<1> SUFFICES ASSUME NEW end \in {1, Len(m)}
             PROVE  \E out \in outs : Len(out) = Len(m) /\ out[end] # m[end]
  BY DEF ChangesEnds
<1>1. end \in 1 .. Len(m)
  BY MessageType
<1>2. PICK at \in Int, bytes \in Messages :
        /\ end - at \in 1 .. Len(bytes) /\ bytes[end - at] # m[end]
        /\ Overwrite(m, at, bytes) \in outs
  OBVIOUS
<1> DEFINE out == Overwrite(m, at, bytes)
<1>3. /\ Len(out) = Len(m)
      /\ out[end] = IF end - at \in 1 .. Len(bytes) THEN bytes[end - at] ELSE m[end]
  BY <1>1, OverwriteKeepsLength
<1>4. out \in outs
  BY <1>2
<1> HIDE DEF out
<1> QED
  BY <1>2, <1>3, <1>4

(* Or if a byte at any offset can be replaced by another.                  *)
LEMMA ByteEditsChangeEnds ==
  ASSUME NEW m \in Messages, m # <<>>, NEW outs,
         \A at \in Offsets(m) : \E bytes \in Messages :
           Len(bytes) = 1 /\ bytes[1] # m[at + 1] /\ Overwrite(m, at, bytes) \in outs
  PROVE  ChangesEnds(outs, m)
<1>1. ASSUME NEW end \in {1, Len(m)}
      PROVE  \E at \in Int, bytes \in Messages :
               /\ end - at \in 1 .. Len(bytes) /\ bytes[end - at] # m[end]
               /\ Overwrite(m, at, bytes) \in outs
  <2> DEFINE at == end - 1
  <2>1. at \in Offsets(m) /\ at + 1 = end /\ at \in Int /\ end - at = 1
    BY MessageType DEF Offsets
  <2> HIDE DEF at
  <2>2. PICK bytes \in Messages :
          Len(bytes) = 1 /\ bytes[1] # m[at + 1] /\ Overwrite(m, at, bytes) \in outs
    BY <2>1
  <2>3. end - at \in 1 .. Len(bytes) /\ bytes[end - at] # m[end]
    BY <2>1, <2>2
  <2> QED
    BY <2>1, <2>2, <2>3
<1> QED
  BY <1>1, OverwritesChangeEnds

(* The strategies that replace a byte by one of those it may become.       *)
LEMMA ByteEditsWork ==
  ASSUME NEW m \in Messages, m # <<>>, NEW become, NEW outs,
         \A at \in Offsets(m) : become[at] \subseteq Byte /\ \E v \in become[at] : v # m[at + 1],
         \A out : out \in outs <=>
           \E at \in Offsets(m) : \E v \in become[at] : out = Overwrite(m, at, <<v>>)
  PROVE  IsSound(outs, m, Growth) /\ ChangesEnds(outs, m)
<1>1. 0 \in Offsets(m) /\ Offsets(m) \subseteq Nat
  BY MessageType DEF Offsets
<1>2. outs # {}
  <2>1. PICK v \in become[0] : TRUE
    BY <1>1
  <2> QED
    BY <1>1, <2>1
<1>3. \A out \in outs : \E at \in Nat, bytes \in Messages : out = Overwrite(m, at, bytes)
  <2> SUFFICES ASSUME NEW out \in outs
               PROVE  \E at \in Nat, bytes \in Messages : out = Overwrite(m, at, bytes)
    OBVIOUS
  <2>1. PICK at \in Offsets(m) : \E v \in become[at] : out = Overwrite(m, at, <<v>>)
    OBVIOUS
  <2>2. PICK v \in become[at] : out = Overwrite(m, at, <<v>>)
    BY <2>1
  <2>3. at \in Nat /\ v \in Byte
    BY <1>1
  <2>4. <<v>> \in Messages
    BY <2>3, OneByte
  <2> QED
    BY <2>2, <2>3, <2>4, Zenon
<1>4. IsSound(outs, m, 0)
  BY <1>2, <1>3, OverwritesAreSound
<1>5. ASSUME NEW at \in Offsets(m)
      PROVE  \E bytes \in Messages :
               Len(bytes) = 1 /\ bytes[1] # m[at + 1] /\ Overwrite(m, at, bytes) \in outs
  <2>1. PICK v \in become[at] : v # m[at + 1]
    OBVIOUS
  <2>2. v \in Byte /\ Overwrite(m, at, <<v>>) \in outs
    OBVIOUS
  <2>3. <<v>> \in Messages /\ Len(<<v>>) = 1 /\ <<v>>[1] = v
    BY <2>2, OneByte
  <2> DEFINE bytes == <<v>>
  <2>4. bytes \in Messages /\ Len(bytes) = 1 /\ bytes[1] # m[at + 1] /\ Overwrite(m, at, bytes) \in outs
    BY <2>1, <2>2, <2>3
  <2> HIDE DEF bytes
  <2> QED
    BY <2>4
<1> QED
  BY <1>4, <1>5, ByteEditsChangeEnds, GrowthBounds, SoundIsMonotonic

LEMMA BitFlipWorks ==
  ASSUME NEW m \in Messages
  PROVE  IsSound(BitFlip(m), m, Growth) /\ (m # <<>> => ChangesEnds(BitFlip(m), m))
<1>1. CASE m = <<>>
  BY <1>1, FallbackIsSound DEF BitFlip
<1>2. CASE m # <<>>
  <2> DEFINE become == [at \in Offsets(m) |-> Flipped(m[at + 1])]
  <2>1. \A at \in Offsets(m) : m[at + 1] \in Byte
    BY MessageType DEF Offsets
  <2>2. 0 \in Bits
    BY Powers, StrategiesAssumption DEF Bits
  <2>3. \A v \in Byte : Flipped(v) \subseteq Byte /\ \E w \in Flipped(v) : w # v
    BY <2>2, FlippedIsOther DEF Flipped
  <2>4. \A at \in Offsets(m) : become[at] \subseteq Byte /\ \E v \in become[at] : v # m[at + 1]
    BY <2>1, <2>3
  <2>5. \A out : out \in BitFlip(m) <=>
          \E at \in Offsets(m) : \E v \in become[at] : out = Overwrite(m, at, <<v>>)
    <3>1. \A out : out \in BitFlip(m) <=>
            \E at \in Offsets(m) : \E v \in Flipped(m[at + 1]) : out = Overwrite(m, at, <<v>>)
      <4> DEFINE edits(at) == {Overwrite(m, at, <<v>>) : v \in Flipped(m[at + 1])}
      <4> HIDE DEF become
      <4>1. BitFlip(m) = UNION {edits(at) : at \in Offsets(m)}
        BY <1>2 DEF BitFlip
      <4> SUFFICES ASSUME NEW out
                   PROVE  out \in BitFlip(m) <=>
                            \E at \in Offsets(m) : \E v \in Flipped(m[at + 1]) : out = Overwrite(m, at, <<v>>)
        OBVIOUS
      <4>2. \A at : out \in edits(at) <=> \E v \in Flipped(m[at + 1]) : out = Overwrite(m, at, <<v>>)
        OBVIOUS
      <4>3. out \in BitFlip(m) <=> \E at \in Offsets(m) : out \in edits(at)
        <5> HIDE DEF edits
        <5> QED
          BY <4>1
      <4> HIDE DEF edits
      <4> QED
        BY <4>2, <4>3
    <3>2. \A at \in Offsets(m) : become[at] = Flipped(m[at + 1])
      OBVIOUS
    <3> HIDE DEF become
    <3> QED
      BY <3>1, <3>2
  <2> HIDE DEF become
  <2> QED
    BY <1>2, <2>4, <2>5, ByteEditsWork
<1> QED
  BY <1>1, <1>2

LEMMA ArithmeticWorks ==
  ASSUME NEW m \in Messages
  PROVE  IsSound(Arithmetic(m), m, Growth) /\ (m # <<>> => ChangesEnds(Arithmetic(m), m))
<1>1. CASE m = <<>>
  BY <1>1, FallbackIsSound DEF Arithmetic
<1>2. CASE m # <<>>
  <2> DEFINE become == [at \in Offsets(m) |-> Shifted(m[at + 1])]
  <2>1. \A at \in Offsets(m) : m[at + 1] \in Byte
    BY MessageType DEF Offsets
  <2>2. \A at \in Offsets(m) : become[at] \subseteq Byte /\ \E v \in become[at] : v # m[at + 1]
    BY <2>1, ShiftedIsOther
  <2>3. \A out : out \in Arithmetic(m) <=>
          \E at \in Offsets(m) : \E v \in become[at] : out = Overwrite(m, at, <<v>>)
    <3>1. \A out : out \in Arithmetic(m) <=>
            \E at \in Offsets(m) : \E v \in Shifted(m[at + 1]) : out = Overwrite(m, at, <<v>>)
      <4> DEFINE edits(at) == {Overwrite(m, at, <<v>>) : v \in Shifted(m[at + 1])}
      <4> HIDE DEF become
      <4>1. Arithmetic(m) = UNION {edits(at) : at \in Offsets(m)}
        BY <1>2 DEF Arithmetic
      <4> SUFFICES ASSUME NEW out
                   PROVE  out \in Arithmetic(m) <=>
                            \E at \in Offsets(m) : \E v \in Shifted(m[at + 1]) : out = Overwrite(m, at, <<v>>)
        OBVIOUS
      <4>2. \A at : out \in edits(at) <=> \E v \in Shifted(m[at + 1]) : out = Overwrite(m, at, <<v>>)
        OBVIOUS
      <4>3. out \in Arithmetic(m) <=> \E at \in Offsets(m) : out \in edits(at)
        <5> HIDE DEF edits
        <5> QED
          BY <4>1
      <4> HIDE DEF edits
      <4> QED
        BY <4>2, <4>3
    <3>2. \A at \in Offsets(m) : become[at] = Shifted(m[at + 1])
      OBVIOUS
    <3> HIDE DEF become
    <3> QED
      BY <3>1, <3>2
  <2> HIDE DEF become
  <2> QED
    BY <1>2, <2>2, <2>3, ByteEditsWork
<1> QED
  BY <1>1, <1>2

LEMMA ByteSubstituteWorks ==
  ASSUME NEW m \in Messages
  PROVE  /\ IsSound(ByteSubstitute(m), m, Growth)
         /\ m # <<>> => ChangesEnds(ByteSubstitute(m), m)
<1>1. CASE m = <<>>
  BY <1>1, FallbackIsSound DEF ByteSubstitute
<1>2. CASE m # <<>>
  <2> DEFINE become == [at \in Offsets(m) |-> Byte]
  <2>1. 0 \in Byte /\ 1 \in Byte
    BY StrategiesAssumption DEF Byte
  <2>2. \A at \in Offsets(m) : become[at] \subseteq Byte /\ \E v \in become[at] : v # m[at + 1]
    BY <2>1
  <2>3. \A out : out \in ByteSubstitute(m) <=>
          \E at \in Offsets(m) : \E v \in become[at] : out = Overwrite(m, at, <<v>>)
    <3>1. \A out : out \in ByteSubstitute(m) <=>
            \E at \in Offsets(m) : \E v \in Byte : out = Overwrite(m, at, <<v>>)
      <4>1. ByteSubstitute(m) = {Overwrite(m, at, <<v>>) : at \in Offsets(m), v \in Byte}
        BY <1>2 DEF ByteSubstitute
      <4> HIDE DEF become
      <4> QED
        BY <4>1
    <3>2. \A at \in Offsets(m) : become[at] = Byte
      OBVIOUS
    <3> HIDE DEF become
    <3> QED
      BY <3>1, <3>2
  <2> HIDE DEF become
  <2> QED
    BY <1>2, <2>2, <2>3, ByteEditsWork
<1> QED
  BY <1>1, <1>2

(* The strategies that edit a block.                                       *)
LEMMA BlockFlipWorks ==
  ASSUME NEW m \in Messages
  PROVE  IsSound(BlockFlip(m), m, Growth) /\ (m # <<>> => ChangesEnds(BlockFlip(m), m))
<1>1. CASE m = <<>>
  BY <1>1, FallbackIsSound DEF BlockFlip
<1>2. CASE m # <<>>
  <2> DEFINE flipped(b) == [k \in 1 .. b.len |-> Base - 1 - m[b.at + k]]
  <2>1. BlockFlip(m) = {Overwrite(m, b.at, flipped(b)) : b \in Blocks(m)}
    BY <1>2 DEF BlockFlip
  <2>2. Base \in {2, 4, 8, 256} /\ Len(m) \in Nat \ {0} /\ \A k \in 1 .. Len(m) : m[k] \in Byte
    BY <1>2, StrategiesAssumption, MessageType
  <2>3. ASSUME NEW b \in Blocks(m)
        PROVE  b.at \in Nat /\ flipped(b) \in Messages /\ Len(flipped(b)) = b.len
    <3>1. b.at \in Nat /\ b.len \in Nat \ {0} /\ b.at + b.len <= Len(m)
      BY <1>2, BlocksLieWithin
    <3>2. ASSUME NEW k \in 1 .. b.len PROVE Base - 1 - m[b.at + k] \in Byte
      <4>1. b.at + k \in 1 .. Len(m)
        BY <2>2, <3>1
      <4> QED
        BY <2>2, <4>1 DEF Byte
    <3>3. flipped(b) \in [1 .. b.len -> Byte]
      BY <3>2
    <3> HIDE DEF flipped
    <3> QED
      BY <3>1, <3>3, BytesMakeMessage
  <2>4. ASSUME NEW at \in Offsets(m)
        PROVE  \E bytes \in Messages :
                 Len(bytes) = 1 /\ bytes[1] # m[at + 1] /\ Overwrite(m, at, bytes) \in BlockFlip(m)
    <3> DEFINE b == [at |-> at, len |-> 1]
               bytes == flipped(b)
    <3>1. b \in Blocks(m) /\ b.at = at /\ b.len = 1
      BY <1>2, BlocksLieWithin
    <3>2. at + 1 \in 1 .. Len(m)
      BY <2>2 DEF Offsets
    <3>3. bytes[1] = Base - 1 - m[at + 1]
      BY <3>1
    <3>4. bytes[1] # m[at + 1]
      <4>1. m[at + 1] \in 0 .. Base - 1
        BY <2>2, <3>2 DEF Byte
      <4> HIDE DEF bytes
      <4> QED
        BY <2>2, <3>3, <4>1
    <3>5. Overwrite(m, at, bytes) \in BlockFlip(m)
      <4> HIDE DEF flipped, b
      <4> QED
        BY <2>1, <3>1
    <3>6. bytes \in Messages /\ Len(bytes) = 1
      <4> HIDE DEF flipped, b
      <4> QED
        BY <2>3, <3>1
    <3> HIDE DEF bytes
    <3> QED
      BY <3>4, <3>5, <3>6
  <2>5. ChangesEnds(BlockFlip(m), m)
    BY <1>2, <2>4, ByteEditsChangeEnds
  <2>6. BlockFlip(m) # {}
    <3>1. 0 \in Offsets(m)
      BY <2>2 DEF Offsets
    <3> QED
      BY <2>4, <3>1
  <2>7. \A out \in BlockFlip(m) : \E at \in Nat, bytes \in Messages : out = Overwrite(m, at, bytes)
    <3> SUFFICES ASSUME NEW out \in BlockFlip(m)
                 PROVE  \E at \in Nat, bytes \in Messages : out = Overwrite(m, at, bytes)
      OBVIOUS
    <3> HIDE DEF flipped
    <3>1. PICK b \in Blocks(m) : out = Overwrite(m, b.at, flipped(b))
      BY <2>1
    <3> QED
      BY <2>3, <3>1
  <2>8. IsSound(BlockFlip(m), m, 0)
    BY <2>6, <2>7, OverwritesAreSound
  <2> QED
    BY <2>5, <2>8, GrowthBounds, SoundIsMonotonic
<1> QED
  BY <1>1, <1>2

LEMMA BlockSubstituteWorks ==
  ASSUME NEW m \in Messages
  PROVE  /\ IsSound(BlockSubstitute(m), m, Growth)
         /\ m # <<>> => ChangesEnds(BlockSubstitute(m), m)
<1>1. CASE m = <<>>
  BY <1>1, FallbackIsSound DEF BlockSubstitute
<1>2. CASE m # <<>>
  <2> DEFINE edits(b) == {Overwrite(m, b.at, bytes) : bytes \in Random(b.len)}
  <2>1. BlockSubstitute(m) = UNION {edits(b) : b \in Blocks(m)}
    BY <1>2 DEF BlockSubstitute
  <2>2. Len(m) \in Nat \ {0} /\ 0 \in Byte /\ 1 \in Byte
    BY <1>2, StrategiesAssumption, MessageType DEF Byte
  <2>3. ASSUME NEW b \in Blocks(m), NEW bytes \in Random(b.len)
        PROVE  /\ b.at \in Nat /\ bytes \in Messages
               /\ Overwrite(m, b.at, bytes) \in BlockSubstitute(m)
    <3>1. b.at \in Nat /\ b.len \in Nat
      BY <1>2, BlocksLieWithin
    <3>2. bytes \in Messages
      BY <3>1, RandomType
    <3>3. Overwrite(m, b.at, bytes) \in edits(b)
      OBVIOUS
    <3> HIDE DEF edits
    <3> QED
      BY <2>1, <3>1, <3>2, <3>3
  <2>4. ASSUME NEW at \in Offsets(m)
        PROVE  \E bytes \in Messages :
                 /\ Len(bytes) = 1 /\ bytes[1] # m[at + 1]
                 /\ Overwrite(m, at, bytes) \in BlockSubstitute(m)
    <3> DEFINE b == [at |-> at, len |-> 1]
    <3>1. b \in Blocks(m) /\ b.at = at /\ b.len = 1
      BY <1>2, BlocksLieWithin
    <3>2. PICK v \in Byte : v # m[at + 1]
      BY <2>2
    <3> DEFINE bytes == <<v>>
    <3>3. bytes \in Messages /\ Len(bytes) = 1 /\ bytes[1] = v /\ bytes \in Random(1)
      BY OneByte
    <3> HIDE DEF bytes, b
    <3>4. Overwrite(m, at, bytes) \in BlockSubstitute(m)
      BY <2>3, <3>1, <3>3
    <3> QED
      BY <3>2, <3>3, <3>4
  <2>5. ChangesEnds(BlockSubstitute(m), m)
    BY <1>2, <2>4, ByteEditsChangeEnds
  <2>6. BlockSubstitute(m) # {}
    <3>1. 0 \in Offsets(m)
      BY <2>2 DEF Offsets
    <3> QED
      BY <2>4, <3>1
  <2>7. \A out \in BlockSubstitute(m) :
          \E at \in Nat, bytes \in Messages : out = Overwrite(m, at, bytes)
    <3> SUFFICES ASSUME NEW out \in BlockSubstitute(m)
                 PROVE  \E at \in Nat, bytes \in Messages : out = Overwrite(m, at, bytes)
      OBVIOUS
    <3>1. PICK b \in Blocks(m) : out \in edits(b)
      <4> HIDE DEF edits
      <4> QED
        BY <2>1
    <3>2. PICK bytes \in Random(b.len) : out = Overwrite(m, b.at, bytes)
      BY <3>1
    <3> QED
      BY <2>3, <3>2
  <2>8. IsSound(BlockSubstitute(m), m, 0)
    BY <2>6, <2>7, OverwritesAreSound
  <2> QED
    BY <2>5, <2>8, GrowthBounds, SoundIsMonotonic
<1> QED
  BY <1>1, <1>2

(* Interesting numbers that are not longer than the message.               *)
LEMMA PutInterestingWorks ==
  ASSUME NEW m \in Messages, NEW n \in {1, 2, 4}, n <= Len(m)
  PROVE  IsSound(PutInteresting(m, n), m, Growth) /\ ChangesEnds(PutInteresting(m, n), m)
<1>1. Len(m) \in Nat /\ m # <<>>
  BY MessageType
<1>2. Interesting(n) \subseteq Messages /\ \A bytes \in Interesting(n) : Len(bytes) = n
  BY InterestingType
<1>3. PICK low \in Interesting(n), high \in Interesting(n) :
        \A k \in 1 .. n : low[k] = 0 /\ high[k] = Base - 1
  BY InterestingType
<1>4. PutInteresting(m, n) = {Overwrite(m, at, bytes) : at \in 0 .. Len(m) - n, bytes \in Interesting(n)}
  BY DEF PutInteresting
<1>5. ASSUME NEW end \in {1, Len(m)}
      PROVE  \E at \in Int, bytes \in Messages :
               /\ end - at \in 1 .. Len(bytes) /\ bytes[end - at] # m[end]
               /\ Overwrite(m, at, bytes) \in PutInteresting(m, n)
  <2>1. PICK at \in 0 .. Len(m) - n : end - at \in 1 .. n
    <3>1. CASE end = 1
      <4>1. 0 \in 0 .. Len(m) - n /\ end - 0 \in 1 .. n
        BY <1>1, <3>1
      <4> QED
        BY <4>1
    <3>2. CASE end = Len(m)
      <4>1. Len(m) - n \in 0 .. Len(m) - n /\ end - (Len(m) - n) \in 1 .. n
        BY <1>1, <3>2
      <4> QED
        BY <4>1
    <3> QED
      BY <3>1, <3>2
  <2>2. PICK bytes \in {low, high} : bytes[end - at] # m[end]
    <3>1. low[end - at] = 0 /\ high[end - at] = Base - 1 /\ 0 # Base - 1
      BY <1>3, <2>1, StrategiesAssumption
    <3> QED
      BY <3>1
  <2>3. bytes \in Interesting(n)
    OBVIOUS
  <2>4. at \in Int /\ bytes \in Messages /\ Len(bytes) = n
    BY <1>2, <2>3
  <2>5. Overwrite(m, at, bytes) \in PutInteresting(m, n)
    BY <1>4, <2>3
  <2> QED
    BY <2>1, <2>2, <2>4, <2>5
<1>6. ChangesEnds(PutInteresting(m, n), m)
  BY <1>1, <1>5, OverwritesChangeEnds
<1>7. PutInteresting(m, n) # {}
  <2>1. 1 \in {1, Len(m)}
    OBVIOUS
  <2> QED
    BY <1>5, <2>1
<1>8. \A out \in PutInteresting(m, n) :
        \E at \in Nat, bytes \in Messages : out = Overwrite(m, at, bytes)
  BY <1>2, <1>4
<1>9. IsSound(PutInteresting(m, n), m, 0)
  BY <1>7, <1>8, OverwritesAreSound
<1> QED
  BY <1>6, <1>9, GrowthBounds, SoundIsMonotonic

LEMMA InterestingByteWorks ==
  ASSUME NEW m \in Messages
  PROVE  /\ IsSound(InterestingByte(m), m, Growth)
         /\ m # <<>> => ChangesEnds(InterestingByte(m), m)
<1>1. CASE m = <<>>
  <2>1. Len(m) = 0
    BY <1>1, MessageType
  <2>2. Interesting(1) # {} /\ \A out \in Interesting(1) : out \in Messages /\ Len(out) = 1
    BY InterestingType
  <2>3. IsSound(Interesting(1), m, Growth)
    <3>1. 1 <= Len(m) + Growth
      BY <2>1, GrowthBounds
    <3>2. \A out \in Interesting(1) : out \in Messages /\ Len(out) <= Len(m) + Growth
      BY <2>2, <3>1
    <3> QED
      BY <2>2, <3>2 DEF IsSound
  <2> QED
    BY <1>1, <2>3 DEF InterestingByte
<1>2. CASE m # <<>>
  <2>1. 1 <= Len(m)
    BY <1>2, MessageType
  <2> QED
    BY <1>2, <2>1, PutInterestingWorks DEF InterestingByte
<1> QED
  BY <1>1, <1>2

LEMMA InterestingU16Works ==
  ASSUME NEW m \in Messages
  PROVE  /\ IsSound(InterestingU16(m), m, Growth)
         /\ m # <<>> => ChangesEnds(InterestingU16(m), m)
<1>1. Len(m) \in Nat
  BY MessageType
<1>2. CASE Len(m) < 2
  BY <1>2, InterestingByteWorks DEF InterestingU16
<1>3. CASE 2 <= Len(m)
  BY <1>1, <1>3, PutInterestingWorks DEF InterestingU16
<1> QED
  BY <1>1, <1>2, <1>3

LEMMA InterestingU32Works ==
  ASSUME NEW m \in Messages
  PROVE  /\ IsSound(InterestingU32(m), m, Growth)
         /\ m # <<>> => ChangesEnds(InterestingU32(m), m)
<1>1. Len(m) \in Nat
  BY MessageType
<1>2. CASE Len(m) < 4
  BY <1>2, InterestingU16Works DEF InterestingU32
<1>3. CASE 4 <= Len(m)
  BY <1>1, <1>3, PutInterestingWorks DEF InterestingU32
<1> QED
  BY <1>1, <1>2, <1>3

(* Insertions: each outcome is the message with at most n bytes inserted.  *)
LEMMA InsertionsAreSound ==
  ASSUME NEW m \in Messages, NEW n \in Nat, NEW outs, outs # {},
         \A out \in outs : \E at \in 0 .. Len(m), bytes \in Messages :
           Len(bytes) <= n /\ out = Insert(m, at, bytes)
  PROVE  IsSound(outs, m, n)
<1> SUFFICES ASSUME NEW out \in outs
             PROVE  out \in Messages /\ Len(out) <= Len(m) + n
  BY DEF IsSound
<1>1. PICK at \in 0 .. Len(m), bytes \in Messages :
        Len(bytes) <= n /\ out = Insert(m, at, bytes)
  OBVIOUS
<1>2. out \in Messages /\ Len(out) = Len(m) + Len(bytes)
  BY <1>1, InsertAddsLength
<1>3. Len(m) \in Nat /\ Len(bytes) \in Nat
  BY MessageType
<1> QED
  BY <1>1, <1>2, <1>3

(* A byte can come before the message, and behind it.                      *)
ReachesBehind(outs, m) ==
  \A v \in Byte : {<<v>> \o m, m \o <<v>>} \subseteq outs

LEMMA InsertionsReachBehind ==
  ASSUME NEW m \in Messages, NEW outs,
         \A at \in {0, Len(m)} : \A v \in Byte : Insert(m, at, <<v>>) \in outs
  PROVE  ReachesBehind(outs, m)
<1> SUFFICES ASSUME NEW v \in Byte
             PROVE  <<v>> \o m \in outs /\ m \o <<v>> \in outs
  BY DEF ReachesBehind
<1> DEFINE b == <<v>>
<1>1. Len(m) \in Nat /\ b \in Messages
  BY MessageType, OneByte
<1>2. SubSeq(m, 1, 0) = <<>> /\ SubSeq(m, Len(m) + 1, Len(m)) = <<>>
  BY <1>1, SubSeqEmpty
<1>3. SubSeq(m, 1, Len(m)) = m
  BY SubSeqFull DEF Messages
<1> HIDE DEF b
<1>4. <<>> \o b = b /\ m \o b \in Messages
  BY <1>1, ConcatEmptySeq, JoinedMessages DEF Messages
<1>5. (m \o b) \o <<>> = m \o b
  BY <1>4, ConcatEmptySeq DEF Messages
<1>6. Insert(m, 0, b) = b \o m
  BY <1>2, <1>3, <1>4 DEF Insert
<1>7. Insert(m, Len(m), b) = m \o b
  BY <1>2, <1>3, <1>5 DEF Insert
<1> QED
  BY <1>6, <1>7 DEF b

LEMMA ByteInsertWorks ==
  ASSUME NEW m \in Messages
  PROVE  IsSound(ByteInsert(m), m, Growth) /\ ReachesBehind(ByteInsert(m), m)
<1> DEFINE byte(v) == <<v>>
<1>1. ByteInsert(m) = {Insert(m, at, byte(v)) : at \in 0 .. Len(m), v \in Byte}
  BY DEF ByteInsert
<1>2. Len(m) \in Nat /\ 0 \in 0 .. Len(m) /\ Len(m) \in 0 .. Len(m) /\ 0 \in Byte
  BY MessageType, StrategiesAssumption DEF Byte
<1>3. \A v \in Byte : byte(v) = <<v>> /\ byte(v) \in Messages /\ Len(byte(v)) = 1
  BY OneByte
<1> HIDE DEF byte
<1>4. \A at \in {0, Len(m)} : \A v \in Byte : Insert(m, at, <<v>>) \in ByteInsert(m)
  BY <1>1, <1>2, <1>3
<1>5. ByteInsert(m) # {}
  BY <1>2, <1>4
<1>6. ASSUME NEW out \in ByteInsert(m)
      PROVE  \E at \in 0 .. Len(m), bytes \in Messages :
               Len(bytes) <= 1 /\ out = Insert(m, at, bytes)
  <2>1. PICK at \in 0 .. Len(m), v \in Byte : out = Insert(m, at, byte(v))
    BY <1>1
  <2> DEFINE bytes == byte(v)
  <2>2. bytes \in Messages /\ Len(bytes) = 1 /\ out = Insert(m, at, bytes)
    BY <1>3, <2>1
  <2> HIDE DEF bytes
  <2>3. Len(bytes) <= 1
    BY <2>2
  <2> QED
    BY <2>2, <2>3
<1>7. IsSound(ByteInsert(m), m, 1)
  BY <1>5, <1>6, InsertionsAreSound
<1> QED
  BY <1>4, <1>7, InsertionsReachBehind, GrowthBounds, SoundIsMonotonic

LEMMA BlockInsertWorks ==
  ASSUME NEW m \in Messages
  PROVE  IsSound(BlockInsert(m), m, Growth) /\ ReachesBehind(BlockInsert(m), m)
<1> DEFINE edits(n) == {Insert(m, at, bytes) : at \in 0 .. Len(m), bytes \in Random(n)}
<1>1. BlockInsert(m) = UNION {edits(n) : n \in 1 .. InsertMax}
  BY DEF BlockInsert
<1>2. /\ Len(m) \in Nat /\ 0 \in 0 .. Len(m) /\ Len(m) \in 0 .. Len(m)
      /\ 0 \in Byte /\ InsertMax \in Nat \ {0} /\ 1 \in 1 .. InsertMax
  BY MessageType, StrategiesAssumption DEF Byte
<1>3. ASSUME NEW at \in 0 .. Len(m), NEW v \in Byte
      PROVE  Insert(m, at, <<v>>) \in BlockInsert(m)
  <2>1. Insert(m, at, <<v>>) \in edits(1)
    BY OneByte
  <2> HIDE DEF edits
  <2> QED
    BY <1>1, <1>2, <2>1
<1>4. BlockInsert(m) # {}
  BY <1>2, <1>3
<1>5. ASSUME NEW out \in BlockInsert(m)
      PROVE  \E at \in 0 .. Len(m), bytes \in Messages :
               Len(bytes) <= InsertMax /\ out = Insert(m, at, bytes)
  <2>1. PICK n \in 1 .. InsertMax : out \in edits(n)
    <3> HIDE DEF edits
    <3> QED
      BY <1>1
  <2>2. PICK at \in 0 .. Len(m), bytes \in Random(n) : out = Insert(m, at, bytes)
    BY <2>1
  <2>3. bytes \in Messages /\ Len(bytes) = n /\ n <= InsertMax
    BY <1>2, RandomType
  <2> QED
    BY <2>2, <2>3
<1>6. IsSound(BlockInsert(m), m, InsertMax)
  <2> HIDE DEF edits
  <2> QED
    BY <1>2, <1>4, <1>5, InsertionsAreSound
<1> QED
  BY <1>2, <1>3, <1>6, InsertionsReachBehind, GrowthBounds, SoundIsMonotonic

LEMMA RepeatByteWorks ==
  ASSUME NEW m \in Messages
  PROVE  IsSound(RepeatByte(m), m, Growth) /\ ReachesBehind(RepeatByte(m), m)
<1> DEFINE repeated(n, v) == [k \in 1 .. n |-> v]
<1>1. RepeatByte(m) =
        {Insert(m, at, repeated(n, v)) : at \in 0 .. Len(m), n \in 1 .. InsertMax, v \in Byte}
  BY DEF RepeatByte
<1>2. /\ Len(m) \in Nat /\ 0 \in 0 .. Len(m) /\ Len(m) \in 0 .. Len(m)
      /\ 0 \in Byte /\ InsertMax \in Nat \ {0} /\ 1 \in 1 .. InsertMax
  BY MessageType, StrategiesAssumption DEF Byte
<1>3. \A v \in Byte : repeated(1, v) = <<v>>
  OBVIOUS
<1>4. ASSUME NEW n \in 1 .. InsertMax, NEW v \in Byte
      PROVE  repeated(n, v) \in Messages /\ Len(repeated(n, v)) <= InsertMax
  <2>1. repeated(n, v) \in [1 .. n -> Byte] /\ n \in Nat /\ n <= InsertMax
    BY <1>2
  <2> HIDE DEF repeated
  <2> QED
    BY <2>1, BytesMakeMessage
<1> HIDE DEF repeated
<1>5. \A at \in {0, Len(m)} : \A v \in Byte : Insert(m, at, <<v>>) \in RepeatByte(m)
  BY <1>1, <1>2, <1>3
<1>6. RepeatByte(m) # {}
  BY <1>2, <1>5
<1>7. \A out \in RepeatByte(m) : \E at \in 0 .. Len(m), bytes \in Messages :
        Len(bytes) <= InsertMax /\ out = Insert(m, at, bytes)
  BY <1>1, <1>4
<1>8. IsSound(RepeatByte(m), m, InsertMax)
  BY <1>2, <1>6, <1>7, InsertionsAreSound
<1> QED
  BY <1>2, <1>5, <1>8, InsertionsReachBehind, GrowthBounds, SoundIsMonotonic

(* Deletions: each outcome is the message without some of its bytes.       *)
LEMMA DeletionsAreSound ==
  ASSUME NEW m \in Messages, NEW outs, outs # {},
         \A out \in outs : \E at, n \in Nat : at + n <= Len(m) /\ out = Delete(m, at, n)
  PROVE  IsSound(outs, m, Growth)
<1> SUFFICES ASSUME NEW out \in outs
             PROVE  out \in Messages /\ Len(out) <= Len(m) + Growth
  BY DEF IsSound
<1>1. PICK at \in Nat, n \in Nat : at + n <= Len(m) /\ out = Delete(m, at, n)
  OBVIOUS
<1>2. out \in Messages /\ Len(out) = Len(m) - n
  BY <1>1, DeleteTakesLength
<1> QED
  BY <1>2, GrowthBounds, MessageType

(* Deleting one byte at an end leaves the front or the tail.               *)
LEMMA EndsAreDeleted ==
  ASSUME NEW m \in Messages, m # <<>>
  PROVE  Delete(m, 0, 1) = Tail(m) /\ Delete(m, Len(m) - 1, 1) = Front(m)
<1>1. Len(m) \in Nat \ {0}
  BY MessageType
<1>2. SubSeq(m, 1, 0) = <<>> /\ SubSeq(m, 2, Len(m)) = Tail(m) /\ Tail(m) \in Messages
  BY <1>1, SubSeqEmpty, TailIsSubSeq, HeadTailProperties DEF Messages
<1>3. <<>> \o Tail(m) = Tail(m)
  BY <1>2, ConcatEmptySeq DEF Messages
<1>4. Delete(m, 0, 1) = SubSeq(m, 1, 0) \o SubSeq(m, 2, Len(m))
  BY DEF Delete
<1> DEFINE front == SubSeq(m, 1, Len(m) - 1)
<1>5. front \in Messages
  BY <1>1, PartOfMessage
<1>6. (Len(m) - 1) + 1 + 1 = Len(m) + 1
  BY <1>1
<1>7. SubSeq(m, (Len(m) - 1) + 1 + 1, Len(m)) = <<>>
  BY <1>1, <1>6, SubSeqEmpty
<1>8. Delete(m, Len(m) - 1, 1) = front \o <<>>
  BY <1>7 DEF Delete
<1> HIDE DEF front
<1>9. front \o <<>> = front
  BY <1>5, ConcatEmptySeq DEF Messages
<1> QED
  BY <1>2, <1>3, <1>4, <1>8, <1>9 DEF front, Front

LEMMA ByteDeleteWorks ==
  ASSUME NEW m \in Messages
  PROVE  /\ IsSound(ByteDelete(m), m, Growth)
         /\ Len(m) > 1 => {Front(m), Tail(m)} \subseteq ByteDelete(m)
<1>1. Len(m) \in Nat
  BY MessageType
<1>2. CASE Len(m) <= 1
  <2>1. ByteDelete(m) = {m}
    BY <1>2 DEF ByteDelete
  <2> QED
    BY <1>1, <1>2, <2>1, GrowthBounds DEF IsSound
<1>3. CASE Len(m) > 1
  <2>1. ByteDelete(m) = {Delete(m, at, 1) : at \in 0 .. Len(m) - 1}
    BY <1>1, <1>3 DEF ByteDelete, Offsets
  <2>2. 0 \in 0 .. Len(m) - 1 /\ Len(m) - 1 \in 0 .. Len(m) - 1 /\ m # <<>>
    BY <1>1, <1>3, MessageType
  <2>3. {Front(m), Tail(m)} \subseteq ByteDelete(m)
    BY <2>1, <2>2, EndsAreDeleted
  <2>4. \A out \in ByteDelete(m) : \E at, n \in Nat : at + n <= Len(m) /\ out = Delete(m, at, n)
    <3>1. \A at \in 0 .. Len(m) - 1 : at \in Nat /\ 1 \in Nat /\ at + 1 <= Len(m)
      BY <1>1
    <3> QED
      BY <2>1, <3>1
  <2> QED
    BY <2>3, <2>4, DeletionsAreSound
<1> QED
  BY <1>1, <1>2, <1>3

LEMMA BlockDeleteWorks ==
  ASSUME NEW m \in Messages
  PROVE  /\ IsSound(BlockDelete(m), m, Growth)
         /\ Len(m) > 1 => {Front(m), Tail(m)} \subseteq BlockDelete(m)
<1>1. Len(m) \in Nat
  BY MessageType
<1>2. CASE m = <<>>
  <2>1. Len(m) = 0
    BY <1>2, MessageType
  <2> QED
    BY <1>2, <2>1, FallbackIsSound DEF BlockDelete
<1>3. CASE m # <<>>
  <2>1. Len(m) \in Nat \ {0}
    BY <1>3, MessageType
  <2> DEFINE size(b) == IF b.len >= Len(m) THEN 1 ELSE b.len
             cuts(n) == {Delete(m, at, n) : at \in 0 .. Len(m) - n}
  <2>2. BlockDelete(m) = UNION {cuts(size(b)) : b \in Blocks(m)}
    BY <1>3 DEF BlockDelete
  <2>3. \A b \in Blocks(m) : size(b) \in Nat \ {0} /\ size(b) <= Len(m)
    BY <1>3, <2>1, BlocksLieWithin
  <2>4. cuts(1) \subseteq BlockDelete(m)
    <3> DEFINE b == [at |-> 0, len |-> 1]
    <3>1. 0 \in Offsets(m)
      BY <2>1 DEF Offsets
    <3>2. b \in Blocks(m)
      BY <1>3, <3>1, BlocksLieWithin
    <3>3. size(b) = 1
      OBVIOUS
    <3> HIDE DEF b, size, cuts
    <3> QED
      BY <2>2, <3>2, <3>3
  <2>5. {Front(m), Tail(m)} \subseteq BlockDelete(m)
    <3>1. Delete(m, 0, 1) \in cuts(1) /\ Delete(m, Len(m) - 1, 1) \in cuts(1)
      BY <2>1
    <3> HIDE DEF cuts
    <3> QED
      BY <1>3, <2>4, <3>1, EndsAreDeleted
  <2>6. ASSUME NEW out \in BlockDelete(m)
        PROVE  \E at, n \in Nat : at + n <= Len(m) /\ out = Delete(m, at, n)
    <3>1. PICK b \in Blocks(m) : out \in cuts(size(b))
      <4> HIDE DEF cuts, size
      <4> QED
        BY <2>2
    <3> DEFINE n == size(b)
    <3>2. n \in Nat /\ n <= Len(m)
      BY <2>3
    <3> HIDE DEF n
    <3>3. PICK at \in 0 .. Len(m) - n : out = Delete(m, at, n)
      BY <3>1 DEF n
    <3>4. at \in Nat /\ at + n <= Len(m)
      BY <2>1, <3>2
    <3> QED
      BY <3>2, <3>3, <3>4
  <2>7. BlockDelete(m) # {}
    BY <2>5
  <2>8. IsSound(BlockDelete(m), m, Growth)
    <3> HIDE DEF cuts, size
    <3> QED
      BY <2>6, <2>7, DeletionsAreSound
  <2> QED
    BY <2>5, <2>8
<1> QED
  BY <1>2, <1>3

-----------------------------------------------------------------------------
(* The strategies that use other messages.                                 *)

(* Tokens come from outside; n bounds their length.                        *)
LEMMA TokenInsertWorks ==
  ASSUME NEW m \in Messages, tokens \subseteq Messages, NEW n \in Nat, Growth <= n,
         \A token \in tokens : Len(token) <= n
  PROVE  IsSound(TokenInsert(m), m, n)
<1>1. CASE tokens = {}
  <2>1. IsSound(BlockInsert(m), m, n)
    BY BlockInsertWorks, GrowthBounds, SoundIsMonotonic
  <2> QED
    BY <1>1, <2>1 DEF TokenInsert
<1>2. CASE tokens # {}
  <2>1. TokenInsert(m) = {Insert(m, at, token) : at \in 0 .. Len(m), token \in tokens}
    BY <1>2 DEF TokenInsert
  <2>2. 0 \in 0 .. Len(m)
    BY MessageType
  <2>3. TokenInsert(m) # {}
    BY <1>2, <2>1, <2>2
  <2>4. \A out \in TokenInsert(m) : \E at \in 0 .. Len(m), bytes \in Messages :
          Len(bytes) <= n /\ out = Insert(m, at, bytes)
    BY <2>1
  <2> QED
    BY <2>3, <2>4, InsertionsAreSound
<1> QED
  BY <1>1, <1>2

LEMMA TokenReplaceWorks ==
  ASSUME NEW m \in Messages, tokens \subseteq Messages
  PROVE  IsSound(TokenReplace(m), m, Growth)
<1>1. CASE tokens = {} \/ m = <<>>
  BY <1>1, BlockSubstituteWorks DEF TokenReplace
<1>2. CASE tokens # {} /\ m # <<>>
  <2>1. TokenReplace(m) = {Overwrite(m, at, token) : at \in Offsets(m), token \in tokens}
    BY <1>2 DEF TokenReplace
  <2>2. 0 \in Offsets(m) /\ Offsets(m) \subseteq Nat
    BY <1>2, MessageType DEF Offsets
  <2>3. TokenReplace(m) # {}
    <3>1. PICK token \in tokens : TRUE
      BY <1>2
    <3>2. Overwrite(m, 0, token) \in TokenReplace(m)
      BY <2>1, <2>2
    <3> QED
      BY <3>2
  <2>4. \A out \in TokenReplace(m) :
          \E at \in Nat, bytes \in Messages : out = Overwrite(m, at, bytes)
    BY <2>1, <2>2
  <2>5. IsSound(TokenReplace(m), m, 0)
    BY <2>3, <2>4, OverwritesAreSound
  <2> QED
    BY <2>5, GrowthBounds, SoundIsMonotonic
<1> QED
  BY <1>1, <1>2

LEMMA SpliceWorks ==
  ASSUME NEW m \in Messages, NEW other \in Messages, NEW n \in Nat,
         Growth <= n, Len(other) <= n
  PROVE  IsSound(Splice(m, other), m, n)
<1>1. CASE other = <<>>
  <2>1. IsSound(BlockSubstitute(m), m, n)
    BY BlockSubstituteWorks, GrowthBounds, SoundIsMonotonic
  <2> QED
    BY <1>1, <2>1 DEF Splice
<1>2. CASE other # <<>>
  <2> DEFINE spliced(a, b) == SubSeq(m, 1, a) \o SubSeq(other, b + 1, Len(other))
  <2>1. Splice(m, other) = {spliced(a, b) : a \in 0 .. Len(m), b \in 0 .. Len(other)}
    BY <1>2 DEF Splice
  <2>2. Len(m) \in Nat /\ Len(other) \in Nat /\ 0 \in 0 .. Len(m) /\ 0 \in 0 .. Len(other)
    BY MessageType
  <2>3. \A a \in 0 .. Len(m), b \in 0 .. Len(other) :
          spliced(a, b) \in Messages /\ Len(spliced(a, b)) = a + (Len(other) - b)
    BY BeginningThenEnd
  <2> HIDE DEF spliced
  <2>4. \A a \in 0 .. Len(m), b \in 0 .. Len(other) :
          spliced(a, b) \in Messages /\ Len(spliced(a, b)) <= Len(m) + n
    BY <2>2, <2>3
  <2>5. Splice(m, other) # {}
    BY <2>1, <2>2
  <2>6. ASSUME NEW out \in Splice(m, other)
        PROVE  out \in Messages /\ Len(out) <= Len(m) + n
    <3>1. PICK a \in 0 .. Len(m), b \in 0 .. Len(other) : out = spliced(a, b)
      BY <2>1
    <3> QED
      BY <2>4, <3>1
  <2> QED
    BY <2>5, <2>6 DEF IsSound
<1> QED
  BY <1>1, <1>2

-----------------------------------------------------------------------------
(* The pairs of offsets, and how long two messages agree from one on.      *)

(* The pairs of offsets of two messages, numbered in the order of the      *)
(* loops of recombine.                                                     *)
IsPair(a, b, p) == p \in [a : 0 .. Len(a) - 1, b : 0 .. Len(b) - 1]

(* Quotient and remainder are those of the division.                       *)
LEMMA Division ==
  ASSUME NEW x \in Nat, NEW n \in Nat \ {0}
  PROVE  /\ x \div n \in Nat /\ x % n \in 0 .. n - 1
         /\ x = (x \div n) * n + (x % n)
OBVIOUS

LEMMA DivisionIsUnique ==
  ASSUME NEW n \in Nat \ {0}, NEW i \in Nat, NEW j \in 0 .. n - 1
  PROVE  (i * n + j) \div n = i /\ (i * n + j) % n = j
<1> DEFINE x == i * n + j
           q == x \div n
           r == x % n
<1>1. x \in Nat
  <2>1. i * n \in Nat
    OBVIOUS
  <2> QED
    BY <2>1
<1>2. q \in Nat /\ r \in 0 .. n - 1 /\ i * n + j = q * n + r
  <2> HIDE DEF x
  <2>1. x \div n \in Nat /\ x % n \in 0 .. n - 1 /\ x = (x \div n) * n + (x % n)
    BY <1>1, Division
  <2> QED
    BY <2>1 DEF x
<1> HIDE DEF q, r, x
<1>3. ASSUME NEW s \in Nat, NEW t \in Nat, s < t, NEW u \in 0 .. n - 1, NEW w \in 0 .. n - 1
      PROVE  s * n + u # t * n + w
  <2> DEFINE d == t - s
  <2>1. d \in Nat /\ d >= 1 /\ t = s + d
    BY <1>3
  <2> HIDE DEF d
  <2>2. t * n = s * n + d * n
    BY <2>1
  <2>3. d * n >= n
    BY <2>1
  <2>4. s * n \in Nat /\ d * n \in Nat
    BY <2>1
  <2> QED
    BY <2>2, <2>3, <2>4
<1>4. q = i
  BY <1>2, <1>3
<1>5. r = j
  <2>1. i * n \in Nat
    OBVIOUS
  <2> QED
    BY <1>2, <1>4, <2>1
<1> QED
  BY <1>4, <1>5 DEF q, r, x

LEMMA PairsAreNumbered ==
  ASSUME NEW a \in Messages, NEW b \in Messages
  PROVE  /\ DOMAIN Pairs(a, b) = 1 .. Len(a) * Len(b)
         /\ \A k \in DOMAIN Pairs(a, b) : IsPair(a, b, Pairs(a, b)[k])
         /\ \A p : IsPair(a, b, p) => \E k \in DOMAIN Pairs(a, b) : Pairs(a, b)[k] = p
<1> DEFINE m == Len(a)
           n == Len(b)
           s == Pairs(a, b)
<1>1. m \in Nat /\ n \in Nat
  BY MessageType
<1>2. DOMAIN s = 1 .. m * n
  BY DEF Pairs
<1>3. \A k \in 1 .. m * n : s[k] = [a |-> (k - 1) \div n, b |-> (k - 1) % n]
  BY DEF Pairs
<1> HIDE DEF m, n, s
<1>4. m * n \in Nat
  BY <1>1
<1>5. ASSUME NEW k \in 1 .. m * n
      PROVE  s[k] \in [a : 0 .. m - 1, b : 0 .. n - 1]
  <2>1. n # 0
    <3>1. n = 0 => m * n = 0
      BY <1>1
    <3> QED
      BY <1>4, <3>1
  <2> DEFINE x == k - 1
             q == x \div n
             r == x % n
  <2>2. x \in Nat /\ x < m * n
    BY <1>4
  <2>3. q \in Nat /\ r \in 0 .. n - 1 /\ x = q * n + r
    <3> HIDE DEF x
    <3> QED
      BY <1>1, <2>1, <2>2, Division
  <2> HIDE DEF q, r, x
  <2>4. q < m
    <3> SUFFICES ASSUME q >= m PROVE FALSE
      BY <1>1, <2>3
    <3> DEFINE d == q - m
    <3>1. d \in Nat /\ q = m + d
      BY <1>1, <2>3
    <3> HIDE DEF d
    <3>2. q * n = m * n + d * n /\ d * n \in Nat
      BY <1>1, <3>1
    <3> QED
      BY <1>1, <1>4, <2>2, <2>3, <3>2
  <2>5. s[k] = [a |-> q, b |-> r]
    BY <1>3 DEF q, r, x
  <2> QED
    BY <1>1, <2>3, <2>4, <2>5
<1>6. ASSUME NEW p \in [a : 0 .. m - 1, b : 0 .. n - 1]
      PROVE  \E k \in 1 .. m * n : s[k] = p
  <2> DEFINE i == p.a
             j == p.b
             k == i * n + j + 1
  <2>1. i \in Nat /\ i <= m - 1 /\ j \in 0 .. n - 1 /\ n \in Nat \ {0} /\ p = [a |-> i, b |-> j]
    BY <1>1
  <2> HIDE DEF i, j
  <2>2. i * n \in Nat /\ k \in Nat /\ k - 1 = i * n + j /\ k >= 1
    BY <2>1
  <2>3. k <= m * n
    <3> DEFINE d == m - 1 - i
    <3>1. d \in Nat /\ m = i + 1 + d
      BY <1>1, <2>1
    <3> HIDE DEF d
    <3>2. m * n = i * n + n + d * n /\ d * n \in Nat
      BY <2>1, <3>1
    <3> QED
      BY <2>1, <2>2, <3>2
  <2>4. (k - 1) \div n = i /\ (k - 1) % n = j
    <3> HIDE DEF k
    <3> QED
      BY <2>1, <2>2, DivisionIsUnique
  <2> HIDE DEF k
  <2>5. k \in 1 .. m * n
    BY <1>4, <2>2, <2>3
  <2> QED
    BY <1>3, <2>1, <2>4, <2>5
<1> QED
  BY <1>2, <1>5, <1>6 DEF IsPair, m, n, s

(* Agreement is the length of the longest block that begins at both        *)
(* offsets of a pair.                                                      *)
Agrees(a, b, p, n) ==
  /\ n \in Nat /\ p.a + n <= Len(a) /\ p.b + n <= Len(b)
  /\ \A k \in 1 .. n : a[p.a + k] = b[p.b + k]

LEMMA AgreementIsLongest ==
  ASSUME NEW a \in Messages, NEW b \in Messages, NEW p, IsPair(a, b, p)
  PROVE  /\ Agrees(a, b, p, Agreement(a, b, p))
         /\ \A n : Agrees(a, b, p, n) => n <= Agreement(a, b, p)
<1> DEFINE rest == Shorter(Len(a) - p.a, Len(b) - p.b)
           S    == {n \in 0 .. rest : \A k \in 1 .. n : a[p.a + k] = b[p.b + k]}
<1>1. /\ Len(a) \in Nat /\ Len(b) \in Nat
      /\ p.a \in Nat /\ p.a < Len(a) /\ p.b \in Nat /\ p.b < Len(b)
  BY MessageType DEF IsPair
<1>2. /\ rest \in Nat
      /\ \A n \in Nat : n \in 0 .. rest <=> p.a + n <= Len(a) /\ p.b + n <= Len(b)
  <2> DEFINE u == Len(a) - p.a
             v == Len(b) - p.b
  <2>1. u \in Nat /\ v \in Nat
    BY <1>1
  <2>2. /\ \A n \in Nat : n <= u <=> p.a + n <= Len(a)
        /\ \A n \in Nat : n <= v <=> p.b + n <= Len(b)
    BY <1>1
  <2> HIDE DEF u, v
  <2>3. /\ Shorter(u, v) \in Nat
        /\ \A n \in Nat : n \in 0 .. Shorter(u, v) <=> n <= u /\ n <= v
    BY <2>1 DEF Shorter
  <2>4. rest = Shorter(u, v)
    BY DEF u, v
  <2> HIDE DEF rest
  <2> QED BY <2>2, <2>3, <2>4
<1>3. \A n : n \in S <=> Agrees(a, b, p, n)
  <2> HIDE DEF rest
  <2> QED
    BY <1>2 DEF Agrees
<1>4. IsFiniteSet(S) /\ S \subseteq Int /\ S # {}
  <2>1. IsFiniteSet(0 .. rest)
    <3> HIDE DEF rest
    <3> QED
      BY <1>2, FS_Interval
  <2>2. S \subseteq 0 .. rest
    OBVIOUS
  <2>3. 0 \in S
    <3> HIDE DEF rest
    <3> QED
      BY <1>2
  <2>4. IsFiniteSet(S)
    <3> HIDE DEF S, rest
    <3> QED
      BY <2>1, <2>2, FS_Subset
  <2> QED
    BY <2>3, <2>4
<1>5. Agreement(a, b, p) = Max(S)
  BY DEF Agreement
<1> HIDE DEF S
<1>6. Max(S) \in S /\ \A n \in S : n <= Max(S)
  BY <1>4, MaxIsGreatest
<1> QED
  BY <1>3, <1>5, <1>6

-----------------------------------------------------------------------------
(* The fold of BestMatch, and what it finds.                               *)

NoMatch == [len |-> 0, a |-> 0, b |-> 0]
Better(a, b, best, p) ==
  IF Agreement(a, b, p) >= 2 /\ Agreement(a, b, p) > best.len
  THEN [len |-> Agreement(a, b, p), a |-> p.a, b |-> p.b]
  ELSE best

(* The best of the pairs of each set, as the fold computes it: from the    *)
(* best of the others and the last.                                        *)
IsFold(g, a, b, S) ==
  g = [s \in SUBSET S |->
         IF s = {} THEN NoMatch ELSE Better(a, b, g[s \ {Max(s)}], Pairs(a, b)[Max(s)])]

LEMMA BestMatchIsFolded ==
  ASSUME NEW a, NEW b
  PROVE  BestMatch(a, b) =
           (CHOOSE g : IsFold(g, a, b, DOMAIN Pairs(a, b)))[DOMAIN Pairs(a, b)]
BY DEF BestMatch, FoldLeft, MapThenFoldSet, IsFold, Better, NoMatch

(* There is such a function: one for all but the last is extended to the   *)
(* sets that hold the last.                                                *)
LEMMA FoldExists ==
  ASSUME NEW a, NEW b, NEW S, IsFiniteSet(S), S \subseteq Int
  PROVE  \E g : IsFold(g, a, b, S)
<1> DEFINE P == {T \in SUBSET S : \E g : IsFold(g, a, b, T)}
<1>1. ASSUME NEW T \in SUBSET S, \A U \in SUBSET T : U # T => U \in P
      PROVE  T \in P
  <2>1. CASE T = {}
    <3> DEFINE g == [s \in SUBSET {} |-> NoMatch]
    <3>1. IsFold(g, a, b, {})
      BY DEF IsFold
    <3> HIDE DEF g
    <3> QED
      BY <2>1, <3>1
  <2>2. CASE T # {}
    <3> DEFINE last == Max(T)
               R    == T \ {last}
    <3>1. IsFiniteSet(T) /\ T \subseteq Int
      BY FS_Subset
    <3>2. last \in T /\ \A x \in T : x <= last
      BY <2>2, <3>1, MaxIsGreatest
    <3>3. R \in SUBSET T /\ R # T
      BY <3>2
    <3>4. PICK g : IsFold(g, a, b, R)
      <4> HIDE DEF R
      <4> QED
        BY <1>1, <3>3
    <3> DEFINE h == [s \in SUBSET T |->
                       IF last \in s THEN Better(a, b, g[s \ {last}], Pairs(a, b)[last]) ELSE g[s]]
    <3>5. ASSUME NEW s \in SUBSET T
          PROVE  h[s] = IF s = {} THEN NoMatch
                        ELSE Better(a, b, h[s \ {Max(s)}], Pairs(a, b)[Max(s)])
      <4>1. CASE last \in s
        <5>1. Max(s) = last
          <6>1. IsFiniteSet(s) /\ s \subseteq Int /\ s # {}
            BY <3>1, <4>1, FS_Subset
          <6>2. Max(s) \in s /\ \A x \in s : x <= Max(s)
            BY <6>1, MaxIsGreatest
          <6>3. Max(s) \in Int /\ last \in Int /\ Max(s) <= last /\ last <= Max(s)
            BY <3>1, <3>2, <4>1, <6>2
          <6> QED
            BY <6>3
        <5>2. h[s] = Better(a, b, g[s \ {last}], Pairs(a, b)[last])
          BY <4>1
        <5>3. h[s \ {last}] = g[s \ {last}]
          OBVIOUS
        <5> HIDE DEF h, last
        <5> QED
          BY <4>1, <5>1, <5>2, <5>3
      <4>2. CASE last \notin s
        <5>1. s \in SUBSET R /\ h[s] = g[s]
          BY <4>2
        <5>2. g[s] = IF s = {} THEN NoMatch
                     ELSE Better(a, b, g[s \ {Max(s)}], Pairs(a, b)[Max(s)])
          <6> HIDE DEF R, h
          <6> QED
            BY <3>4, <5>1 DEF IsFold
        <5>3. h[s \ {Max(s)}] = g[s \ {Max(s)}]
          BY <4>2
        <5> HIDE DEF h, last, R
        <5> QED
          BY <5>1, <5>2, <5>3
      <4> QED
        BY <4>1, <4>2
    <3>6. IsFold(h, a, b, T)
      <4>1. h = [s \in SUBSET T |-> h[s]]
        OBVIOUS
      <4> HIDE DEF h
      <4> QED
        BY <3>5, <4>1 DEF IsFold
    <3> HIDE DEF h
    <3> QED
      BY <3>6
  <2> QED
    BY <2>1, <2>2
<1>2. S \in P
  <2> HIDE DEF P
  <2> QED
    BY <1>1, InductionOnSubsets
<1> QED
  BY <1>2

(* The best of the pairs numbered by S: none agrees on two bytes, or it is *)
(* one of those that agree longest.                                        *)
IsBest(best, a, b, S) ==
  \/ best = NoMatch /\ \A k \in S : Agreement(a, b, Pairs(a, b)[k]) < 2
  \/ /\ \E k \in S : best = [len |-> Agreement(a, b, Pairs(a, b)[k]),
                             a |-> Pairs(a, b)[k].a, b |-> Pairs(a, b)[k].b]
     /\ best.len >= 2
     /\ \A k \in S : Agreement(a, b, Pairs(a, b)[k]) <= best.len

LEMMA BestMatchIsBest ==
  ASSUME NEW a \in Messages, NEW b \in Messages
  PROVE  IsBest(BestMatch(a, b), a, b, DOMAIN Pairs(a, b))
<1> DEFINE S == DOMAIN Pairs(a, b)
<1>1. S = 1 .. Len(a) * Len(b) /\ Len(a) * Len(b) \in Nat
  BY PairsAreNumbered, MessageType
<1>2. IsFiniteSet(S) /\ S \subseteq Int
  BY <1>1, FS_Interval
<1>3. \A k \in S : Agreement(a, b, Pairs(a, b)[k]) \in Nat
  BY PairsAreNumbered, AgreementIsLongest DEF Agrees
<1> HIDE DEF S
<1>4. PICK g : IsFold(g, a, b, S) /\ BestMatch(a, b) = g[S]
  <2> DEFINE g == CHOOSE f : IsFold(f, a, b, S)
  <2>1. IsFold(g, a, b, S)
    BY <1>2, FoldExists
  <2>2. BestMatch(a, b) = g[S]
    BY BestMatchIsFolded DEF S
  <2> HIDE DEF g
  <2> QED
    BY <2>1, <2>2
<1> DEFINE P == {T \in SUBSET S : IsBest(g[T], a, b, T)}
<1>5. ASSUME NEW T \in SUBSET S, \A U \in SUBSET T : U # T => U \in P
      PROVE  T \in P
  <2>1. CASE T = {}
    <3>1. g[T] = NoMatch
      BY <1>4, <2>1 DEF IsFold
    <3> QED
      BY <2>1, <3>1 DEF IsBest
  <2>2. CASE T # {}
    <3> DEFINE last == Max(T)
               R    == T \ {last}
               old  == g[R]
               n    == Agreement(a, b, Pairs(a, b)[last])
    <3>1. IsFiniteSet(T) /\ T \subseteq Int
      BY <1>2, FS_Subset
    <3>2. last \in T
      BY <2>2, <3>1, MaxIsGreatest
    <3>3. IsBest(old, a, b, R)
      <4>1. R \in SUBSET T /\ R # T
        BY <3>2
      <4> QED
        BY <1>5, <4>1
    <3>4. g[T] = Better(a, b, old, Pairs(a, b)[last])
      BY <1>4, <2>2 DEF IsFold
    <3>5. /\ n \in Nat /\ T = R \union {last} /\ R \subseteq S
          /\ \A k \in R : Agreement(a, b, Pairs(a, b)[k]) \in Nat
      BY <1>3, <3>2
    <3>6. old.len \in Nat
      <4> HIDE DEF old, R
      <4>1. CASE old = NoMatch
        BY <4>1 DEF NoMatch
      <4>2. CASE \E k \in R : old = [len |-> Agreement(a, b, Pairs(a, b)[k]),
                                    a |-> Pairs(a, b)[k].a, b |-> Pairs(a, b)[k].b]
        <5>1. PICK k \in R : old = [len |-> Agreement(a, b, Pairs(a, b)[k]),
                                   a |-> Pairs(a, b)[k].a, b |-> Pairs(a, b)[k].b]
          BY <4>2
        <5>2. old.len = Agreement(a, b, Pairs(a, b)[k])
          BY <5>1
        <5> QED
          BY <3>5, <5>2
      <4> QED
        BY <3>3, <4>1, <4>2 DEF IsBest
    <3>7. CASE n >= 2 /\ n > old.len
      <4> DEFINE new == [len |-> n, a |-> Pairs(a, b)[last].a, b |-> Pairs(a, b)[last].b]
      <4>1. g[T] = new
        BY <3>4, <3>7 DEF Better
      <4>2. \A k \in R : Agreement(a, b, Pairs(a, b)[k]) <= n
        BY <3>3, <3>5, <3>6, <3>7 DEF IsBest, NoMatch
      <4>3. new.len = n /\ \A k \in T : Agreement(a, b, Pairs(a, b)[k]) <= n
        BY <3>5, <4>2
      <4>4. IsBest(new, a, b, T)
        BY <3>2, <3>7, <4>3 DEF IsBest
      <4> HIDE DEF new
      <4> QED
        BY <4>1, <4>4
    <3>8. CASE ~ (n >= 2 /\ n > old.len)
      <4>1. g[T] = old
        BY <3>4, <3>8 DEF Better
      <4> HIDE DEF old, n
      <4>2. CASE old = NoMatch /\ \A k \in R : Agreement(a, b, Pairs(a, b)[k]) < 2
        <5>1. n < 2
          BY <3>5, <3>8, <4>2 DEF NoMatch
        <5>2. \A k \in T : Agreement(a, b, Pairs(a, b)[k]) < 2
          BY <3>5, <4>2, <5>1 DEF n
        <5> QED
          BY <4>1, <4>2, <5>2 DEF IsBest
      <4>3. CASE /\ old.len >= 2
                 /\ \E k \in R : old = [len |-> Agreement(a, b, Pairs(a, b)[k]),
                                        a |-> Pairs(a, b)[k].a, b |-> Pairs(a, b)[k].b]
                 /\ \A k \in R : Agreement(a, b, Pairs(a, b)[k]) <= old.len
        <5>1. n <= old.len
          BY <3>5, <3>6, <3>8, <4>3
        <5>2. \A k \in T : Agreement(a, b, Pairs(a, b)[k]) <= old.len
          BY <3>5, <4>3, <5>1 DEF n
        <5>3. \E k \in T : old = [len |-> Agreement(a, b, Pairs(a, b)[k]),
                                  a |-> Pairs(a, b)[k].a, b |-> Pairs(a, b)[k].b]
          BY <3>5, <4>3
        <5> QED
          BY <4>1, <4>3, <5>2, <5>3 DEF IsBest
      <4> QED
        BY <3>3, <4>2, <4>3 DEF IsBest
    <3> QED
      BY <3>7, <3>8
  <2> QED
    BY <2>1, <2>2
<1>6. S \in P
  <2> HIDE DEF P
  <2> QED
    BY <1>2, <1>5, InductionOnSubsets
<1> QED
  BY <1>4, <1>6 DEF S

-----------------------------------------------------------------------------
(* Recombination.                                                          *)

(* Two messages share a block at a pair of offsets if they agree on it.    *)
LEMMA SharedBlocksAgree ==
  ASSUME NEW a \in Messages, NEW b \in Messages, NEW n \in Nat \ {0},
         n <= Len(a), n <= Len(b)
  PROVE  \A p : p \in SharedBlocks(a, b, n) <=> IsPair(a, b, p) /\ Agrees(a, b, p, n)
<1>1. Len(a) \in Nat /\ Len(b) \in Nat
  BY MessageType
<1>2. ASSUME NEW i \in Nat, NEW j \in Nat, i + n <= Len(a), j + n <= Len(b)
      PROVE  SubSeq(a, i + 1, i + n) = SubSeq(b, j + 1, j + n)
               <=> \A k \in 1 .. n : a[i + k] = b[j + k]
  <2> DEFINE x == SubSeq(a, i + 1, i + n)
             y == SubSeq(b, j + 1, j + n)
  <2>1. x \in Messages /\ Len(x) = n /\ \A k \in 1 .. n : x[k] = a[i + k]
    BY <1>2, BlockOfMessage
  <2>2. y \in Messages /\ Len(y) = n /\ \A k \in 1 .. n : y[k] = b[j + k]
    BY <1>2, BlockOfMessage
  <2> HIDE DEF x, y
  <2>3. (\A k \in 1 .. n : x[k] = y[k]) => x = y
    BY <2>1, <2>2, SeqEqual DEF Messages
  <2>4. x = y <=> \A k \in 1 .. n : a[i + k] = b[j + k]
    BY <2>1, <2>2, <2>3
  <2> QED
    BY <2>4 DEF x, y
<1>3. ASSUME NEW p
      PROVE  p \in [a : 0 .. Len(a) - n, b : 0 .. Len(b) - n] <=>
               IsPair(a, b, p) /\ p.a + n <= Len(a) /\ p.b + n <= Len(b)
  <2>1. ASSUME p \in [a : 0 .. Len(a) - n, b : 0 .. Len(b) - n]
        PROVE  IsPair(a, b, p) /\ p.a + n <= Len(a) /\ p.b + n <= Len(b)
    BY <1>1, <2>1 DEF IsPair
  <2>2. ASSUME IsPair(a, b, p), p.a + n <= Len(a), p.b + n <= Len(b)
        PROVE  p \in [a : 0 .. Len(a) - n, b : 0 .. Len(b) - n]
    BY <1>1, <2>2 DEF IsPair
  <2> QED
    BY <2>1, <2>2
<1>4. ASSUME NEW p \in [a : 0 .. Len(a) - n, b : 0 .. Len(b) - n]
      PROVE  SubSeq(a, p.a + 1, p.a + n) = SubSeq(b, p.b + 1, p.b + n)
               <=> \A k \in 1 .. n : a[p.a + k] = b[p.b + k]
  <2>1. p.a \in Nat /\ p.a + n <= Len(a) /\ p.b \in Nat /\ p.b + n <= Len(b)
    BY <1>1
  <2> QED
    BY <1>2, <2>1
<1> QED
  BY <1>3, <1>4 DEF SharedBlocks, Agrees

(* The pair BestMatch ends up with.                                        *)
LEMMA BestMatchAgrees ==
  ASSUME NEW a \in Messages, NEW b \in Messages
  PROVE  /\ BestMatch(a, b).len \in Nat
         /\ BestMatch(a, b).len >= 2 =>
              LET p == [a |-> BestMatch(a, b).a, b |-> BestMatch(a, b).b]
              IN  IsPair(a, b, p) /\ Agrees(a, b, p, BestMatch(a, b).len)
         /\ \A p, n : IsPair(a, b, p) /\ Agrees(a, b, p, n) /\ n >= 2 =>
              BestMatch(a, b).len >= n
<1> DEFINE best == BestMatch(a, b)
           S    == DOMAIN Pairs(a, b)
<1>1. IsBest(best, a, b, S)
  BY BestMatchIsBest
<1> HIDE DEF best
<1>2. ASSUME NEW p, NEW n, IsPair(a, b, p), Agrees(a, b, p, n)
      PROVE  \E k \in S : Agreement(a, b, Pairs(a, b)[k]) >= n
  <2>1. PICK k \in S : Pairs(a, b)[k] = p
    BY <1>2, PairsAreNumbered
  <2>2. n <= Agreement(a, b, p) /\ n \in Nat /\ Agreement(a, b, p) \in Nat
    BY <1>2, AgreementIsLongest DEF Agrees
  <2> QED
    BY <2>1, <2>2
<1>3. \A k \in S : /\ IsPair(a, b, Pairs(a, b)[k])
                   /\ Agreement(a, b, Pairs(a, b)[k]) \in Nat
                   /\ Agrees(a, b, Pairs(a, b)[k], Agreement(a, b, Pairs(a, b)[k]))
  BY PairsAreNumbered, AgreementIsLongest DEF Agrees
<1> HIDE DEF S
<1>4. CASE best = NoMatch /\ \A k \in S : Agreement(a, b, Pairs(a, b)[k]) < 2
  <2>1. best.len = 0
    BY <1>4 DEF NoMatch
  <2>2. ASSUME NEW p, NEW n, IsPair(a, b, p), Agrees(a, b, p, n), n >= 2
        PROVE  FALSE
    <3>1. n \in Nat
      BY <2>2 DEF Agrees
    <3> QED
      BY <1>2, <1>3, <1>4, <2>2, <3>1
  <2> QED
    BY <2>1, <2>2 DEF best
<1>5. CASE /\ best.len >= 2
           /\ \E k \in S : best = [len |-> Agreement(a, b, Pairs(a, b)[k]),
                                   a |-> Pairs(a, b)[k].a, b |-> Pairs(a, b)[k].b]
           /\ \A k \in S : Agreement(a, b, Pairs(a, b)[k]) <= best.len
  <2>1. PICK k \in S : best = [len |-> Agreement(a, b, Pairs(a, b)[k]),
                               a |-> Pairs(a, b)[k].a, b |-> Pairs(a, b)[k].b]
    BY <1>5
  <2> DEFINE p == [a |-> best.a, b |-> best.b]
  <2>2. p = Pairs(a, b)[k]
    <3>1. IsPair(a, b, Pairs(a, b)[k])
      BY <1>3
    <3> QED
      BY <2>1, <3>1 DEF IsPair
  <2>3. best.len = Agreement(a, b, Pairs(a, b)[k])
    BY <2>1
  <2>4. best.len \in Nat /\ IsPair(a, b, p) /\ Agrees(a, b, p, best.len)
    <3> HIDE DEF p
    <3> QED
      BY <1>3, <2>2, <2>3
  <2>5. ASSUME NEW q, NEW n, IsPair(a, b, q), Agrees(a, b, q, n), n >= 2
        PROVE  best.len >= n
    <3>1. n \in Nat
      BY <2>5 DEF Agrees
    <3>2. PICK j \in S : Agreement(a, b, Pairs(a, b)[j]) >= n
      BY <1>2, <2>5
    <3> QED
      BY <1>3, <1>5, <2>4, <3>1, <3>2
  <2> QED
    BY <2>4, <2>5 DEF best
<1> QED
  BY <1>1, <1>4, <1>5 DEF IsBest

LEMMA RecombineWorks ==
  ASSUME NEW m \in Messages, NEW other \in Messages, NEW n \in Nat,
         Growth <= n, Len(other) <= n
  PROVE  IsSound(Recombine(m, other), m, n)
<1> DEFINE best == BestMatch(m, other)
<1>1. best.len \in Nat
  BY BestMatchAgrees
<1>2. CASE best.len < 2
  BY <1>2, SpliceWorks DEF Recombine
<1>3. CASE best.len >= 2
  <2> DEFINE i == best.a + best.len
             j == best.b + best.len
             out == SubSeq(m, 1, i) \o SubSeq(other, j + 1, Len(other))
  <2>1. i \in 0 .. Len(m) /\ j \in 0 .. Len(other)
    <3> DEFINE p == [a |-> best.a, b |-> best.b]
    <3>1. IsPair(m, other, p) /\ Agrees(m, other, p, best.len) /\ p.a = best.a /\ p.b = best.b
      BY <1>3, BestMatchAgrees
    <3> HIDE DEF p, best
    <3> QED
      BY <1>1, <3>1, MessageType DEF IsPair, Agrees
  <2>2. Recombine(m, other) = {out}
    <3>1. ~ (best.len < 2)
      <4> HIDE DEF best
      <4> QED
        BY <1>1, <1>3
    <3> QED
      BY <3>1 DEF Recombine
  <2> HIDE DEF i, j
  <2>3. out \in Messages /\ Len(out) = i + (Len(other) - j)
    BY <2>1, BeginningThenEnd
  <2>4. Len(m) \in Nat /\ Len(other) \in Nat
    BY MessageType
  <2> HIDE DEF out
  <2>5. Len(out) <= Len(m) + n
    BY <2>1, <2>3, <2>4
  <2> QED
    BY <2>2, <2>3, <2>5 DEF IsSound
<1> QED
  BY <1>1, <1>2, <1>3

(* A block two messages share can be taken from either.                    *)
LEMMA BlockFromEither ==
  ASSUME NEW m \in Messages, NEW other \in Messages, NEW p, NEW n,
         IsPair(m, other, p), Agrees(m, other, p, n)
  PROVE  SubSeq(m, 1, p.a + n) \o SubSeq(other, p.b + n + 1, Len(other)) =
           SubSeq(m, 1, p.a) \o SubSeq(other, p.b + 1, Len(other))
<1> DEFINE i == p.a
           j == p.b
           r == Len(other) - (j + n)
           x == SubSeq(m, 1, i + n) \o SubSeq(other, (j + n) + 1, Len(other))
           y == SubSeq(m, 1, i) \o SubSeq(other, j + 1, Len(other))
<1>1. /\ Len(m) \in Nat /\ Len(other) \in Nat /\ n \in Nat /\ i \in Nat /\ j \in Nat
      /\ i + n <= Len(m) /\ j + n <= Len(other)
      /\ \A k \in 1 .. n : m[i + k] = other[j + k]
  BY MessageType DEF IsPair, Agrees
<1> HIDE DEF i, j
<1>2. /\ i + n \in 0 .. Len(m) /\ i \in 0 .. Len(m)
      /\ j + n \in 0 .. Len(other) /\ j \in 0 .. Len(other)
      /\ r \in Nat /\ Len(other) - j = n + r
  BY <1>1
<1>3. /\ x \in Messages /\ Len(x) = (i + n) + r
      /\ \A k \in 1 .. i + n : x[k] = m[k]
      /\ \A k \in 1 .. r : x[(i + n) + k] = other[(j + n) + k]
  BY <1>2, BeginningThenEnd
<1>4. /\ y \in Messages /\ Len(y) = i + (Len(other) - j)
      /\ \A k \in 1 .. i : y[k] = m[k]
      /\ \A k \in 1 .. Len(other) - j : y[i + k] = other[j + k]
  BY <1>2, BeginningThenEnd
<1> HIDE DEF x, y, r
<1>5. Len(x) = Len(y) /\ Len(x) = i + n + r
  BY <1>1, <1>2, <1>3, <1>4
<1>6. ASSUME NEW k \in 1 .. i + n + r
      PROVE  x[k] = y[k]
  <2>1. CASE k <= i
    <3>1. k \in 1 .. i /\ k \in 1 .. i + n
      BY <1>1, <1>2, <2>1
    <3> QED
      BY <1>3, <1>4, <3>1
  <2>2. CASE i < k /\ k <= i + n
    <3> DEFINE e == k - i
    <3>1. e \in 1 .. n /\ e \in 1 .. n + r /\ k = i + e /\ k \in 1 .. i + n
      BY <1>1, <1>2, <2>2
    <3> HIDE DEF e
    <3>2. x[k] = m[i + e]
      BY <1>3, <3>1
    <3>3. y[k] = other[j + e]
      BY <1>2, <1>4, <3>1
    <3> QED
      BY <1>1, <3>1, <3>2, <3>3
  <2>3. CASE i + n < k
    <3> DEFINE e == k - (i + n)
    <3>1. e \in 1 .. r /\ n + e \in 1 .. n + r /\ k = (i + n) + e /\ k = i + (n + e)
      BY <1>1, <1>2, <2>3
    <3>2. (j + n) + e = j + (n + e)
      BY <1>1, <1>2, <3>1
    <3> HIDE DEF e
    <3>3. x[k] = other[(j + n) + e]
      BY <1>3, <3>1
    <3>4. y[k] = other[j + (n + e)]
      BY <1>2, <1>4, <3>1
    <3> QED
      BY <3>2, <3>3, <3>4
  <2> QED
    BY <1>1, <1>2, <2>1, <2>2, <2>3
<1>7. x = y
  BY <1>3, <1>4, <1>5, <1>6, SeqEqual DEF Messages
<1> QED
  BY <1>7 DEF x, y, i, j

(* Recombination joins two messages at a longest block they share.         *)
LEMMA RecombineJoinsAtLongest ==
  ASSUME NEW m \in Messages, NEW other \in Messages
  PROVE  LET shared == {n \in 2 .. Shorter(Len(m), Len(other)) : SharedBlocks(m, other, n) # {}}
             n      == Max(shared)
             joined(p) == SubSeq(m, 1, p.a) \o SubSeq(other, p.b + 1, Len(other))
         IN  IF shared = {}
             THEN Recombine(m, other) = Splice(m, other)
             ELSE \E p \in SharedBlocks(m, other, n) : Recombine(m, other) = {joined(p)}
<1> DEFINE least  == Shorter(Len(m), Len(other))
           shared == {n \in 2 .. least : SharedBlocks(m, other, n) # {}}
           best   == BestMatch(m, other)
           joined(p) == SubSeq(m, 1, p.a) \o SubSeq(other, p.b + 1, Len(other))
<1>1. /\ Len(m) \in Nat /\ Len(other) \in Nat /\ least \in Nat
      /\ \A n \in Nat : n <= least <=> n <= Len(m) /\ n <= Len(other)
  BY MessageType DEF Shorter
<1>2. /\ best.len \in Nat
      /\ best.len >= 2 =>
           LET p == [a |-> best.a, b |-> best.b]
           IN  IsPair(m, other, p) /\ Agrees(m, other, p, best.len)
      /\ \A p, n : IsPair(m, other, p) /\ Agrees(m, other, p, n) /\ n >= 2 => best.len >= n
  BY BestMatchAgrees
<1> HIDE DEF least, best
<1>3. \A n : n \in shared => n \in Nat /\ n >= 2 /\ n <= Len(m) /\ n <= Len(other)
  BY <1>1
<1>4. \A n \in shared : \A p :
        p \in SharedBlocks(m, other, n) <=> IsPair(m, other, p) /\ Agrees(m, other, p, n)
  <2> HIDE DEF shared
  <2> QED
    BY <1>3, SharedBlocksAgree
<1>5. ASSUME best.len >= 2
      PROVE  best.len \in shared /\ [a |-> best.a, b |-> best.b] \in SharedBlocks(m, other, best.len)
  <2> DEFINE p == [a |-> best.a, b |-> best.b]
  <2>1. IsPair(m, other, p) /\ Agrees(m, other, p, best.len)
    BY <1>2, <1>5
  <2> HIDE DEF p
  <2>2. best.len <= Len(m) /\ best.len <= Len(other)
    BY <1>1, <1>2, <2>1 DEF IsPair, Agrees
  <2>3. p \in SharedBlocks(m, other, best.len)
    BY <1>2, <1>5, <2>1, <2>2, SharedBlocksAgree
  <2>4. best.len \in 2 .. least
    BY <1>1, <1>2, <1>5, <2>2
  <2> QED
    BY <2>3, <2>4 DEF p
<1>6. CASE shared = {}
  <2>1. best.len < 2
    BY <1>2, <1>5, <1>6
  <2>2. Recombine(m, other) = Splice(m, other)
    BY <2>1 DEF Recombine, best
  <2> QED
    BY <1>6, <2>2 DEF least
<1>7. CASE shared # {}
  <2> DEFINE n == Max(shared)
             p == [a |-> best.a, b |-> best.b]
  <2>1. n \in shared /\ \A x \in shared : x <= n
    <3>1. IsFiniteSet(2 .. least)
      BY <1>1, FS_Interval
    <3>2. IsFiniteSet(shared) /\ shared \subseteq Int
      <4>1. shared \subseteq 2 .. least
        OBVIOUS
      <4>2. 2 .. least \subseteq Int
        BY <1>1
      <4> DEFINE I == 2 .. least
      <4> HIDE DEF shared, I
      <4>3. IsFiniteSet(shared)
        BY <3>1, <4>1, FS_Subset DEF I
      <4> QED
        BY <4>1, <4>2, <4>3
    <3> HIDE DEF shared
    <3> QED
      BY <1>7, <3>2, MaxIsGreatest
  <2> HIDE DEF n
  <2>2. best.len >= n
    <3>1. PICK q \in SharedBlocks(m, other, n) : TRUE
      BY <2>1
    <3>2. IsPair(m, other, q) /\ Agrees(m, other, q, n) /\ n >= 2
      <4> HIDE DEF shared
      <4> QED
        BY <1>3, <1>4, <2>1, <3>1
    <3> QED
      BY <1>2, <3>2
  <2> HIDE DEF shared
  <2>3. n \in Nat /\ n >= 2 /\ best.len >= 2
    BY <1>2, <1>3, <2>1, <2>2
  <2>4. best.len = n
    BY <1>2, <1>5, <2>1, <2>2, <2>3
  <2>5. p \in SharedBlocks(m, other, n)
    BY <1>5, <2>3, <2>4
  <2>6. IsPair(m, other, p) /\ Agrees(m, other, p, n)
    <3> HIDE DEF p
    <3> QED
      BY <1>4, <2>1, <2>5
  <2>7. Recombine(m, other) =
          {SubSeq(m, 1, best.a + best.len) \o SubSeq(other, best.b + best.len + 1, Len(other))}
    <3>1. ~ (best.len < 2)
      BY <1>2, <2>3
    <3> QED
      BY <3>1 DEF Recombine, best
  <2>8. p.a = best.a /\ p.b = best.b
    OBVIOUS
  <2> HIDE DEF p
  <2>9. SubSeq(m, 1, p.a + n) \o SubSeq(other, p.b + n + 1, Len(other)) = joined(p)
    BY <2>6, BlockFromEither
  <2>10. Recombine(m, other) = {joined(p)}
    BY <2>4, <2>7, <2>8, <2>9
  <2>11. \E q \in SharedBlocks(m, other, n) : Recombine(m, other) = {joined(q)}
    BY <2>5, <2>10
  <2> QED
    BY <1>7, <2>11 DEF n, shared, least
<1> QED
  BY <1>6, <1>7

-----------------------------------------------------------------------------
(* Every strategy, and the state machine.                                  *)

(* An edit havoc can make.                                                 *)
LEMMA HavocEditIsSound ==
  ASSUME NEW s \in HavocStrategies, NEW m \in Messages
  PROVE  IsSound(Apply(s, m), m, Growth)
<1>1. CASE s = "BitFlip"
  BY <1>1, BitFlipWorks DEF Apply
<1>2. CASE s = "ByteSubstitute"
  BY <1>2, ByteSubstituteWorks DEF Apply
<1>3. CASE s = "ByteInsert"
  BY <1>3, ByteInsertWorks DEF Apply
<1>4. CASE s = "ByteDelete"
  BY <1>4, ByteDeleteWorks DEF Apply
<1>5. CASE s = "BlockFlip"
  BY <1>5, BlockFlipWorks DEF Apply
<1>6. CASE s = "BlockSubstitute"
  BY <1>6, BlockSubstituteWorks DEF Apply
<1>7. CASE s = "BlockInsert"
  BY <1>7, BlockInsertWorks DEF Apply
<1>8. CASE s = "BlockDelete"
  BY <1>8, BlockDeleteWorks DEF Apply
<1>9. CASE s = "InterestingByte"
  BY <1>9, InterestingByteWorks DEF Apply
<1>10. CASE s = "InterestingU16"
  BY <1>10, InterestingU16Works DEF Apply
<1>11. CASE s = "InterestingU32"
  BY <1>11, InterestingU32Works DEF Apply
<1>12. CASE s = "RepeatByte"
  BY <1>12, RepeatByteWorks DEF Apply
<1>13. CASE s = "Arithmetic"
  BY <1>13, ArithmeticWorks DEF Apply
<1> QED
  BY <1>1, <1>2, <1>3, <1>4, <1>5, <1>6, <1>7, <1>8, <1>9, <1>10, <1>11, <1>12, <1>13
     DEF HavocStrategies

(* Any strategy but havoc.                                                 *)
LEMMA ApplyIsSound ==
  ASSUME NEW s \in PlainStrategies, NEW m \in Messages, NEW n \in Nat, Growth <= n,
         corpus \subseteq Messages, \A other \in corpus : Len(other) <= n,
         tokens \subseteq Messages, \A token \in tokens : Len(token) <= n
  PROVE  IsSound(Apply(s, m), m, n)
<1>1. CASE s \in HavocStrategies
  BY <1>1, HavocEditIsSound, GrowthBounds, SoundIsMonotonic
<1>2. IsSound(BlockSubstitute(m), m, n)
  BY BlockSubstituteWorks, GrowthBounds, SoundIsMonotonic
<1>3. CASE s = "Splice"
  <2>1. Apply(s, m) = IF corpus = {} THEN BlockSubstitute(m)
                      ELSE UNION {Splice(m, other) : other \in corpus}
    BY <1>3 DEF Apply
  <2>2. \A other \in corpus : IsSound(Splice(m, other), m, n)
    BY SpliceWorks
  <2>3. corpus # {} => IsSound(UNION {Splice(m, other) : other \in corpus}, m, n)
    BY <2>2 DEF IsSound
  <2> QED
    BY <1>2, <2>1, <2>3
<1>4. CASE s = "Recombine"
  <2>1. Apply(s, m) = IF corpus = {} THEN BlockSubstitute(m)
                      ELSE UNION {Recombine(m, other) : other \in corpus}
    BY <1>4 DEF Apply
  <2>2. \A other \in corpus : IsSound(Recombine(m, other), m, n)
    BY RecombineWorks
  <2>3. corpus # {} => IsSound(UNION {Recombine(m, other) : other \in corpus}, m, n)
    BY <2>2 DEF IsSound
  <2> QED
    BY <1>2, <2>1, <2>3
<1>5. CASE s = "TokenInsert"
  <2>1. Apply(s, m) = TokenInsert(m)
    BY <1>5 DEF Apply
  <2> QED
    BY <2>1, TokenInsertWorks
<1>6. CASE s = "TokenReplace"
  <2>1. Apply(s, m) = TokenReplace(m)
    BY <1>6 DEF Apply
  <2>2. IsSound(TokenReplace(m), m, n)
    BY TokenReplaceWorks, GrowthBounds, SoundIsMonotonic
  <2> QED
    BY <2>1, <2>2
<1> QED
  BY <1>1, <1>3, <1>4, <1>5, <1>6 DEF PlainStrategies

(* The longest message of a set.                                           *)
LEMMA LongestBounds ==
  ASSUME NEW set, IsFiniteSet(set), set \subseteq Messages
  PROVE  Longest(set) \in Nat /\ \A m \in set : Len(m) <= Longest(set)
<1> DEFINE lengths == {Len(m) : m \in set}
           S       == {0} \union lengths
<1>1. IsFiniteSet(lengths)
  <2> DEFINE f == [m \in set |-> Len(m)]
  <2>1. f \in Surjection(set, lengths)
    BY DEF Surjection
  <2> HIDE DEF f, lengths
  <2> QED
    BY <2>1, FS_Surjection
<1>2. \A m \in set : Len(m) \in Nat
  BY MessageType
<1>3. IsFiniteSet(S)
  <2> HIDE DEF lengths
  <2> QED
    BY <1>1, FS_Singleton, FS_Union
<1>4. S # {} /\ S \subseteq Nat /\ \A m \in set : Len(m) \in S
  BY <1>2
<1>5. Longest(set) = Max(S)
  BY DEF Longest
<1> HIDE DEF S
<1>6. S \subseteq Int
  BY <1>4
<1>7. Max(S) \in S /\ \A x \in S : x <= Max(S)
  BY <1>3, <1>4, <1>6, MaxIsGreatest
<1> QED
  BY <1>4, <1>5, <1>7

(* What one call may add to a message.                                     *)
MaxEdits == Max(HavocEdits)
Bound == Max({MaxEdits * Growth, Longest(corpus), Longest(tokens)})

LEMMA EditsBounds ==
  MaxEdits \in Nat \ {0} /\ MaxEdits \in HavocEdits /\ \A n \in HavocEdits : n <= MaxEdits
<1>1. HavocEdits \subseteq Int
  BY StrategiesAssumption
<1>2. MaxEdits \in HavocEdits /\ \A n \in HavocEdits : n <= MaxEdits
  BY <1>1, StrategiesAssumption, MaxIsGreatest DEF MaxEdits
<1> QED
  BY <1>2, StrategiesAssumption

LEMMA BoundBounds ==
  ASSUME corpus \in Corpora, tokens \in Dictionaries
  PROVE  /\ Bound \in Nat /\ Growth <= Bound /\ MaxEdits * Growth <= Bound
         /\ corpus \subseteq Messages /\ \A other \in corpus : Len(other) <= Bound
         /\ tokens \subseteq Messages /\ \A token \in tokens : Len(token) <= Bound
<1>1. /\ IsFiniteSet(corpus) /\ corpus \subseteq Messages
      /\ IsFiniteSet(tokens) /\ tokens \subseteq Messages
  BY StrategiesAssumption DEF Messages
<1>2. /\ Longest(corpus) \in Nat /\ \A other \in corpus : Len(other) <= Longest(corpus)
      /\ Longest(tokens) \in Nat /\ \A token \in tokens : Len(token) <= Longest(tokens)
  BY <1>1, LongestBounds
<1> DEFINE havoc == MaxEdits * Growth
           c     == Longest(corpus)
           t     == Longest(tokens)
           S     == {havoc, c, t}
<1>3. havoc \in Nat /\ Growth \in Nat /\ Growth <= havoc
  <2>1. MaxEdits \in Nat /\ MaxEdits >= 1 /\ Growth \in Nat
    BY EditsBounds, GrowthBounds
  <2> DEFINE d == MaxEdits - 1
  <2>2. d \in Nat /\ MaxEdits = d + 1
    BY <2>1
  <2> HIDE DEF d
  <2>3. MaxEdits * Growth = d * Growth + Growth /\ d * Growth \in Nat
    BY <2>1, <2>2
  <2> QED
    BY <2>1, <2>3
<1>4. Bound = Max(S)
  BY DEF Bound
<1> HIDE DEF havoc, c, t
<1>5. IsFiniteSet(S)
  <2>1. IsFiniteSet({havoc} \union ({c} \union {t}))
    BY FS_Singleton, FS_Union
  <2>2. S = {havoc} \union ({c} \union {t})
    OBVIOUS
  <2> QED
    BY <2>1, <2>2
<1>6. S # {} /\ S \subseteq Int /\ S \subseteq Nat /\ havoc \in S /\ c \in S /\ t \in S
  BY <1>2, <1>3 DEF c, t
<1> HIDE DEF S
<1>7. Max(S) \in S /\ \A x \in S : x <= Max(S)
  BY <1>5, <1>6, MaxIsGreatest
<1>8. Bound \in Nat /\ havoc <= Bound /\ c <= Bound /\ t <= Bound
  BY <1>4, <1>6, <1>7
<1> HIDE DEF Bound
<1>9. Growth <= Bound
  BY <1>3, <1>8
<1>10. \A other \in corpus : Len(other) <= Bound
  BY <1>1, <1>2, <1>8, MessageType DEF c
<1>11. \A token \in tokens : Len(token) <= Bound
  BY <1>1, <1>2, <1>8, MessageType DEF t
<1> QED
  BY <1>1, <1>8, <1>9, <1>10, <1>11 DEF havoc

(* Whatever has been done, the message is one of bytes; what havoc adds is *)
(* bounded by the edits it has made, and by all it may make once it ends.  *)
IndInv ==
  /\ corpus \in Corpora /\ tokens \in Dictionaries
  /\ message \in Messages /\ calledWith \in Nat
  /\ editsLeft \in 0 .. MaxEdits
  /\ IF editsLeft = 0
     THEN Len(message) <= calledWith + Bound
     ELSE Len(message) <= calledWith + (MaxEdits - editsLeft) * Growth

LEMMA SeedIsMessage ==
  ASSUME corpus \in Corpora, tokens \in Dictionaries, NEW m \in corpus \union {<<>>}
  PROVE  m \in Messages /\ Len(m) \in Nat
<1>1. <<>> \in Messages
  BY EmptySeq DEF Messages
<1>2. m \in Messages
  BY <1>1, BoundBounds
<1> QED
  BY <1>2, MessageType

LEMMA IndInvInit == Init => IndInv
<1> SUFFICES ASSUME Init PROVE IndInv
  OBVIOUS
<1>1. message \in Messages /\ Len(message) \in Nat
  BY SeedIsMessage DEF Init
<1>2. Bound \in Nat /\ MaxEdits \in Nat
  BY BoundBounds, EditsBounds DEF Init
<1> HIDE DEF Bound, MaxEdits
<1> QED
  BY <1>1, <1>2 DEF Init, IndInv

LEMMA IndInvNext == IndInv /\ [Next]_vars => IndInv'
<1> SUFFICES ASSUME IndInv, [Next]_vars PROVE IndInv'
  OBVIOUS
<1>1. /\ Bound \in Nat /\ Growth \in Nat /\ Growth <= Bound /\ MaxEdits * Growth <= Bound
      /\ MaxEdits \in Nat \ {0} /\ \A n \in HavocEdits : n \in Nat \ {0} /\ n <= MaxEdits
  BY BoundBounds, GrowthBounds, EditsBounds, StrategiesAssumption DEF IndInv
<1>2. corpus' = corpus /\ tokens' = tokens
  BY DEF Next, Mutate, Havoc, HavocEdit, PickSeed, vars
<1>3. Bound' = Bound /\ Growth' = Growth /\ MaxEdits' = MaxEdits
  BY <1>2 DEF Bound, Longest, Growth, MaxEdits
<1>4. Len(message) \in Nat
  BY MessageType DEF IndInv
<1>5. CASE UNCHANGED vars
  BY <1>2, <1>3, <1>5 DEF IndInv, vars
<1>6. ASSUME NEW s \in PlainStrategies, Mutate(s)
      PROVE  IndInv'
  <2>1. IsSound(Apply(s, message), message, Bound)
    BY <1>1, ApplyIsSound, BoundBounds DEF IndInv
  <2>2. message' \in Messages /\ Len(message') <= Len(message) + Bound
    BY <1>6, <2>1 DEF Mutate, IsSound
  <2> QED
    BY <1>2, <1>3, <1>4, <1>6, <2>2 DEF IndInv, Mutate
<1>7. ASSUME Havoc
      PROVE  IndInv'
  <2>1. /\ editsLeft' \in 0 .. MaxEdits /\ editsLeft' # 0
        /\ editsLeft' \in Nat /\ editsLeft' <= MaxEdits
    BY <1>1, <1>7 DEF Havoc
  <2> DEFINE made == (MaxEdits - editsLeft') * Growth
  <2>2. made \in Nat
    <3>1. ASSUME NEW e \in Nat, e <= MaxEdits
          PROVE  (MaxEdits - e) * Growth \in Nat
      <4> DEFINE d == MaxEdits - e
      <4>1. d \in Nat
        BY <1>1, <3>1
      <4> HIDE DEF d
      <4>2. d * Growth \in Nat
        BY <1>1, <4>1
      <4> QED
        BY <4>2 DEF d
    <3> QED
      BY <2>1, <3>1
  <2>3. message' = message /\ calledWith' = Len(message)
    BY <1>7 DEF Havoc
  <2> HIDE DEF made
  <2>4. Len(message') <= calledWith' + made
    BY <1>4, <2>2, <2>3
  <2> QED
    BY <1>2, <1>3, <1>4, <2>1, <2>3, <2>4 DEF IndInv, made
<1>8. ASSUME NEW s \in HavocStrategies, HavocEdit(s)
      PROVE  IndInv'
  <2>1. IsSound(Apply(s, message), message, Growth)
    BY HavocEditIsSound DEF IndInv
  <2>2. message' \in Messages /\ Len(message') <= Len(message) + Growth /\ Len(message') \in Nat
    BY <1>8, <2>1, MessageType DEF HavocEdit, IsSound
  <2>3. editsLeft \in Nat /\ editsLeft > 0 /\ editsLeft <= MaxEdits /\ editsLeft' = editsLeft - 1
    BY <1>1, <1>8 DEF IndInv, HavocEdit
  <2> DEFINE before == (MaxEdits - editsLeft) * Growth
             after  == (MaxEdits - editsLeft') * Growth
  <2>4. before \in Nat /\ after = before + Growth
    <3> DEFINE d == MaxEdits - editsLeft
    <3>1. d \in Nat /\ MaxEdits - editsLeft' = d + 1
      BY <1>1, <2>3
    <3> HIDE DEF d
    <3>2. (d + 1) * Growth = d * Growth + Growth /\ d * Growth \in Nat
      BY <1>1, <3>1
    <3> QED
      BY <3>1, <3>2 DEF d
  <2>5. Len(message) <= calledWith + before /\ calledWith \in Nat /\ calledWith' = calledWith
    BY <1>8, <2>3 DEF IndInv, HavocEdit
  <2> HIDE DEF before, after
  <2>6. Len(message') <= calledWith' + after
    BY <1>1, <1>4, <2>2, <2>4, <2>5
  <2>7. editsLeft' = 0 => after = MaxEdits * Growth
    BY <1>1 DEF after
  <2>8. editsLeft' = 0 => Len(message') <= calledWith' + Bound
    <3> SUFFICES ASSUME editsLeft' = 0 PROVE Len(message') <= calledWith' + Bound
      OBVIOUS
    <3>1. after <= Bound /\ after \in Nat
      BY <1>1, <2>4, <2>7
    <3> QED
      BY <1>1, <2>2, <2>5, <2>6, <3>1
  <2>9. editsLeft' \in 0 .. MaxEdits
    BY <1>1, <2>3
  <2> QED
    BY <1>2, <1>3, <2>2, <2>5, <2>6, <2>8, <2>9 DEF IndInv, after
<1>9. ASSUME PickSeed
      PROVE  IndInv'
  <2>1. message' \in Messages /\ Len(message') \in Nat
    BY <1>9, SeedIsMessage DEF IndInv, PickSeed
  <2>2. calledWith' = Len(message') /\ editsLeft' = 0 /\ editsLeft = 0
    BY <1>9 DEF PickSeed
  <2> QED
    BY <1>1, <1>2, <1>3, <2>1, <2>2 DEF IndInv
<1> QED
  BY <1>5, <1>6, <1>7, <1>8, <1>9 DEF Next

LEMMA Invariant == Spec => []IndInv
<1> QED
  BY IndInvInit, IndInvNext, PTL DEF Spec

-----------------------------------------------------------------------------
(* The theorems.                                                           *)

(* No strategy panics, whatever message, corpus and tokens it is given:    *)
(* no range its random choices are drawn from is empty, and every outcome  *)
(* is a string of bytes (phaedra-mutator/src/strategies.rs).               *)
THEOREM StrategiesNeverPanic == Spec => []NoStrategyPanics
<1>1. IndInv => NoStrategyPanics
  <2> SUFFICES ASSUME IndInv, NEW s \in PlainStrategies
               PROVE  /\ Apply(s, message) # {}
                      /\ \A out \in Apply(s, message) : \A k \in DOMAIN out : out[k] \in Byte
    BY DEF NoStrategyPanics
  <2>1. IsSound(Apply(s, message), message, Bound)
    BY ApplyIsSound, BoundBounds DEF IndInv
  <2>2. \A out \in Messages : \A k \in DOMAIN out : out[k] \in Byte
    BY MessageType
  <2> QED
    BY <2>1, <2>2 DEF IsSound
<1> QED
  BY <1>1, Invariant, PTL

(* One call makes a message longer by a bounded amount: havoc by what its  *)
(* edits can add to one another, any other strategy by an insertion, a     *)
(* fallback, a token or another message                                    *)
(* (phaedra-mutator/src/strategies.rs, engine.rs).                         *)
THEOREM CallsGrowBounded == Spec => []GrowthIsBounded
<1>1. IndInv => GrowthIsBounded
  <2> SUFFICES ASSUME IndInv PROVE GrowthIsBounded
    OBVIOUS
  <2>1. Bound \in Nat /\ Growth \in Nat /\ MaxEdits * Growth <= Bound /\ MaxEdits \in Nat
    BY BoundBounds, GrowthBounds, EditsBounds DEF IndInv
  <2>2. Len(message) \in Nat /\ calledWith \in Nat
    BY MessageType DEF IndInv
  <2>3. Len(message) <= calledWith + Bound
    <3>1. CASE editsLeft = 0
      BY <3>1 DEF IndInv
    <3>2. CASE editsLeft # 0
      <4> DEFINE d == MaxEdits - editsLeft
      <4>1. d \in Nat /\ editsLeft \in Nat /\ MaxEdits = d + editsLeft
        BY <2>1 DEF IndInv
      <4>2. Len(message) <= calledWith + d * Growth
        BY <3>2 DEF IndInv
      <4> HIDE DEF d
      <4>3. MaxEdits * Growth = d * Growth + editsLeft * Growth
        BY <2>1, <4>1
      <4>4. d * Growth \in Nat /\ editsLeft * Growth \in Nat /\ MaxEdits * Growth \in Nat
        BY <2>1, <4>1
      <4> QED
        BY <2>1, <2>2, <4>2, <4>3, <4>4
    <3> QED
      BY <3>1, <3>2
  <2>4. Len(message) - calledWith <= Bound
    BY <2>1, <2>2, <2>3
  <2> QED
    BY <2>4 DEF GrowthIsBounded, Bound, Growth, MaxEdits
<1> QED
  BY <1>1, Invariant, PTL

(* Edits in place reach the first and the last byte of every message,      *)
(* deletions can remove them, insertions come before and behind them: no   *)
(* range of offsets ends too early (phaedra-mutator/src/strategies.rs).    *)
THEOREM EndsAreReached == Spec => []BothEndsAreReached
<1>1. IndInv => BothEndsAreReached
  <2> SUFFICES ASSUME IndInv, message # <<>>
               PROVE  BothEndsAreReached
    BY DEF BothEndsAreReached
  <2>1. message \in Messages
    BY DEF IndInv
  <2>2. ASSUME NEW s \in EditsInPlace
        PROVE  ChangesEnds(Apply(s, message), message)
    <3>1. CASE s = "BitFlip"
      BY <2>1, <3>1, BitFlipWorks DEF Apply
    <3>2. CASE s = "ByteSubstitute"
      BY <2>1, <3>2, ByteSubstituteWorks DEF Apply
    <3>3. CASE s = "BlockFlip"
      BY <2>1, <3>3, BlockFlipWorks DEF Apply
    <3>4. CASE s = "BlockSubstitute"
      BY <2>1, <3>4, BlockSubstituteWorks DEF Apply
    <3>5. CASE s = "InterestingByte"
      BY <2>1, <3>5, InterestingByteWorks DEF Apply
    <3>6. CASE s = "InterestingU16"
      BY <2>1, <3>6, InterestingU16Works DEF Apply
    <3>7. CASE s = "InterestingU32"
      BY <2>1, <3>7, InterestingU32Works DEF Apply
    <3>8. CASE s = "Arithmetic"
      BY <2>1, <3>8, ArithmeticWorks DEF Apply
    <3> QED
      BY <3>1, <3>2, <3>3, <3>4, <3>5, <3>6, <3>7, <3>8 DEF EditsInPlace
  <2>3. ASSUME NEW s \in {"ByteDelete", "BlockDelete"}, Len(message) > 1
        PROVE  {Front(message), Tail(message)} \subseteq Apply(s, message)
    <3>1. CASE s = "ByteDelete"
      BY <2>1, <2>3, <3>1, ByteDeleteWorks DEF Apply
    <3>2. CASE s = "BlockDelete"
      BY <2>1, <2>3, <3>2, BlockDeleteWorks DEF Apply
    <3> QED
      BY <3>1, <3>2
  <2>4. ASSUME NEW s \in {"ByteInsert", "BlockInsert", "RepeatByte"}
        PROVE  ReachesBehind(Apply(s, message), message)
    <3>1. CASE s = "ByteInsert"
      BY <2>1, <3>1, ByteInsertWorks DEF Apply
    <3>2. CASE s = "BlockInsert"
      BY <2>1, <3>2, BlockInsertWorks DEF Apply
    <3>3. CASE s = "RepeatByte"
      BY <2>1, <3>3, RepeatByteWorks DEF Apply
    <3> QED
      BY <3>1, <3>2, <3>3
  <2> QED
    BY <2>2, <2>3, <2>4 DEF BothEndsAreReached, ChangesEnds, ReachesBehind
<1> QED
  BY <1>1, Invariant, PTL

(* recombine joins two messages at a longest block they share, which is in *)
(* the result once, and splices them only if they share no two bytes in a  *)
(* row (phaedra-mutator/src/strategies.rs, recombine).                     *)
THEOREM RecombinationIsLongest == Spec => []RecombinesAtLongestMatch
<1>1. IndInv => RecombinesAtLongestMatch
  <2> SUFFICES ASSUME IndInv, NEW other \in corpus
               PROVE  LET shared == {n \in 2 .. Shorter(Len(message), Len(other)) :
                                       SharedBlocks(message, other, n) # {}}
                          n      == Max(shared)
                          joined(p) == SubSeq(message, 1, p.a) \o SubSeq(other, p.b + 1, Len(other))
                      IN  IF shared = {}
                          THEN Recombine(message, other) = Splice(message, other)
                          ELSE \E p \in SharedBlocks(message, other, n) :
                                 Recombine(message, other) = {joined(p)}
    BY DEF RecombinesAtLongestMatch
  <2>1. message \in Messages /\ other \in Messages
    BY BoundBounds DEF IndInv
  <2> QED
    BY <2>1, RecombineJoinsAtLongest
<1> QED
  BY <1>1, Invariant, PTL
=============================================================================

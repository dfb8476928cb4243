----------------------------- MODULE Strategies -----------------------------
(***************************************************************************)
(* What the mutation strategies do to the bytes of an input                *)
(* (phaedra-mutator/src/strategies.rs): each is the set of the outcomes    *)
(* its random choices can have.  A choice from an empty range, which is a  *)
(* panic in the code, leaves no outcome.                                   *)
(*                                                                         *)
(* The state machine mutates a message again and again, as a campaign does *)
(* that keeps every mutated input as a seed; which strategy is drawn is    *)
(* the matter of module MutationEngine.                                    *)
(***************************************************************************)
EXTENDS Integers, SequencesExt

CONSTANTS
  Base,          \* number of values of a byte (256), a power of two
  BlockMax,      \* longest block flipped, substituted or deleted (8)
  InsertMax,     \* longest block inserted (16)
  FallbackLen,   \* length of random_fallback (4)
  DeltaMax,      \* largest delta of arithmetic (35)
  HavocEdits,    \* how many edits havoc makes (2..=8)
  Corpora,       \* the corpora passed to mutate: sets of messages
  Dictionaries,  \* the token dictionaries: sets of messages
  MaxLen         \* bound of the model: no longer message is mutated

Byte == 0 .. Base - 1

ASSUME StrategiesAssumption ==
  /\ Base \in {2, 4, 8, 256} /\ DeltaMax \in 1 .. Base - 1
  /\ {BlockMax, InsertMax, FallbackLen} \subseteq Nat \ {0}
  /\ IsFiniteSet(HavocEdits) /\ HavocEdits # {} /\ HavocEdits \subseteq Nat \ {0}
  /\ \A set \in Corpora \union Dictionaries :
       IsFiniteSet(set) /\ \A m \in set : m \in Seq(Byte)

Bits == {b \in 0 .. 7 : 2 ^ b < Base}

VARIABLES
  corpus, tokens,  \* what mutate has beside the message; they never change
  message,         \* the message, or what havoc has made of it so far
  calledWith,      \* length of the message at the call of the strategy
  editsLeft        \* edits havoc has yet to make

vars == <<corpus, tokens, message, calledWith, editsLeft>>

-----------------------------------------------------------------------------
(* m with `bytes' written over it at `at', with `bytes' inserted at `at',  *)
(* and without the n bytes at `at'; offsets count from 0                   *)
Overwrite(m, at, bytes) ==
  [k \in DOMAIN m |-> IF k - at \in DOMAIN bytes THEN bytes[k - at] ELSE m[k]]
Insert(m, at, bytes) == SubSeq(m, 1, at) \o bytes \o SubSeq(m, at + 1, Len(m))
Delete(m, at, n)     == SubSeq(m, 1, at) \o SubSeq(m, at + n + 1, Len(m))

Random(n)    == [1 .. n -> Byte]
Offsets(m)   == 0 .. Len(m) - 1
Shorter(a, b) == IF a < b THEN a ELSE b

(* Mutant: the range of the start is exclusive. *)
Blocks_ButLast(m) ==
  UNION {{[at |-> at, len |-> n] : at \in {k \in 0 .. Len(m) : k < Len(m) - n}} :
           n \in 1 .. Shorter(BlockMax, Len(m))}

(* the blocks of a message that is not empty *)
Blocks(m) ==
  UNION {{[at |-> at, len |-> n] : at \in 0 .. Len(m) - n} : n \in 1 .. Shorter(BlockMax, Len(m))}

RandomFallback == Random(FallbackLen)

(* one byte, somewhere, replaced by one of the values it may become *)
FlippedBit(v, bit) == IF (v \div 2 ^ bit) % 2 = 1 THEN v - 2 ^ bit ELSE v + 2 ^ bit
Flipped(v)    == {FlippedBit(v, bit) : bit \in Bits}
Shifted(v)    == UNION {{(v + d) % Base, (v + Base - d) % Base} : d \in 1 .. DeltaMax}

BitFlip(m) ==
  IF m = <<>> THEN RandomFallback
  ELSE UNION {{Overwrite(m, at, <<v>>) : v \in Flipped(m[at + 1])} : at \in Offsets(m)}

ByteSubstitute(m) ==
  IF m = <<>> THEN RandomFallback ELSE {Overwrite(m, at, <<v>>) : at \in Offsets(m), v \in Byte}

Arithmetic(m) ==
  IF m = <<>> THEN RandomFallback
  ELSE UNION {{Overwrite(m, at, <<v>>) : v \in Shifted(m[at + 1])} : at \in Offsets(m)}

ByteInsert(m) == {Insert(m, at, <<v>>) : at \in 0 .. Len(m), v \in Byte}

(* Mutant: only an empty message is left alone, or none is. *)
ByteDelete_Always(m) == {Delete(m, at, 1) : at \in Offsets(m)}

ByteDelete(m) == IF Len(m) <= 1 THEN {m} ELSE {Delete(m, at, 1) : at \in Offsets(m)}

BlockFlip(m) ==
  IF m = <<>> THEN RandomFallback
  ELSE {Overwrite(m, b.at, [k \in 1 .. b.len |-> Base - 1 - m[b.at + k]]) : b \in Blocks(m)}

BlockSubstitute(m) ==
  IF m = <<>> THEN RandomFallback
  ELSE UNION {{Overwrite(m, b.at, bytes) : bytes \in Random(b.len)} : b \in Blocks(m)}

BlockInsert(m) ==
  UNION {{Insert(m, at, bytes) : at \in 0 .. Len(m), bytes \in Random(n)} : n \in 1 .. InsertMax}

RepeatByte(m) ==
  {Insert(m, at, [k \in 1 .. n |-> v]) : at \in 0 .. Len(m), n \in 1 .. InsertMax, v \in Byte}

(* a block as long as the message is cut to one byte, wherever that is *)
BlockDelete(m) ==
  IF m = <<>> THEN RandomFallback
  ELSE UNION {LET n == IF b.len >= Len(m) THEN 1 ELSE b.len
              IN  {Delete(m, at, n) : at \in 0 .. Len(m) - n} : b \in Blocks(m)}

(* Interesting numbers of n bytes, written with the low byte first: 0, 1,  *)
(* the last and the first value of one byte more or less, and the ends of  *)
(* the signed and the unsigned range.                                      *)
LittleEndian(v, n) == [k \in 1 .. n |-> (v \div Base ^ (k - 1)) % Base]

Interesting(n) ==
  LET all == Base ^ n
      half == IF n = 1 THEN {} ELSE {Base ^ (n \div 2) - 1, Base ^ (n \div 2)}
      one  == IF n = 1 THEN {} ELSE {Base - 1, Base}
  IN  {LittleEndian(v, n) : v \in {0, 1, all \div 2 - 1, all \div 2, all - 1} \union half \union one}

PutInteresting(m, n) ==
  {Overwrite(m, at, bytes) : at \in 0 .. Len(m) - n, bytes \in Interesting(n)}

InterestingByte(m) == IF m = <<>> THEN Interesting(1) ELSE PutInteresting(m, 1)
InterestingU16(m)  == IF Len(m) < 2 THEN InterestingByte(m) ELSE PutInteresting(m, 2)
InterestingU32(m)  == IF Len(m) < 4 THEN InterestingU16(m) ELSE PutInteresting(m, 4)

(* any beginning of the message followed by any end of the other *)
Splice(m, other) ==
  IF other = <<>> THEN BlockSubstitute(m)
  ELSE {SubSeq(m, 1, a) \o SubSeq(other, b + 1, Len(other)) : a \in 0 .. Len(m), b \in 0 .. Len(other)}

TokenInsert(m) ==
  IF tokens = {} THEN BlockInsert(m)
  ELSE {Insert(m, at, token) : at \in 0 .. Len(m), token \in tokens}

(* a token is cut off at the end of the message *)
TokenReplace(m) ==
  IF tokens = {} \/ m = <<>> THEN BlockSubstitute(m) ELSE {Overwrite(m, at, token) : at \in Offsets(m), token \in tokens}

(* recombine: the pairs of offsets in the order of its loops, how long the *)
(* two messages agree from such a pair on, and the pair it ends up with    *)
Pairs(a, b) ==
  [k \in 1 .. Len(a) * Len(b) |-> [a |-> (k - 1) \div Len(b), b |-> (k - 1) % Len(b)]]

Agreement(a, b, p) ==
  LET rest == Shorter(Len(a) - p.a, Len(b) - p.b)
  IN  Max({n \in 0 .. rest : \A k \in 1 .. n : a[p.a + k] = b[p.b + k]})

BestMatch(a, b) ==
  FoldLeft(LAMBDA best, p :
             LET n == Agreement(a, b, p)
             IN  IF n >= 2 /\ n > best.len THEN [len |-> n, a |-> p.a, b |-> p.b] ELSE best,
           [len |-> 0, a |-> 0, b |-> 0], Pairs(a, b))

(* Mutant: the common block is taken from both messages. *)
Recombine_BlockTwice(a, b) ==
  LET best == BestMatch(a, b)
  IN  IF best.len < 2 THEN Splice(a, b)
      ELSE {SubSeq(a, 1, best.a + best.len) \o SubSeq(b, best.b + 1, Len(b))}

Recombine(a, b) ==
  LET best == BestMatch(a, b)
  IN  IF best.len < 2 THEN Splice(a, b)
      ELSE {SubSeq(a, 1, best.a + best.len) \o SubSeq(b, best.b + best.len + 1, Len(b))}

-----------------------------------------------------------------------------
(* the thirteen edits havoc chooses from *)
HavocStrategies ==
  {"BitFlip", "ByteSubstitute", "ByteInsert", "ByteDelete", "BlockFlip", "BlockSubstitute",
   "BlockInsert", "BlockDelete", "InterestingByte", "InterestingU16", "InterestingU32",
   "RepeatByte", "Arithmetic"}
PlainStrategies == HavocStrategies \union {"Splice", "TokenInsert", "TokenReplace", "Recombine"}

(* MutationEngine::apply, for every strategy but havoc *)
Apply(strategy, m) ==
  CASE strategy = "BitFlip"         -> BitFlip(m)
    [] strategy = "ByteSubstitute"  -> ByteSubstitute(m)
    [] strategy = "ByteInsert"      -> ByteInsert(m)
    [] strategy = "ByteDelete"      -> ByteDelete(m)
    [] strategy = "BlockFlip"       -> BlockFlip(m)
    [] strategy = "BlockSubstitute" -> BlockSubstitute(m)
    [] strategy = "BlockInsert"     -> BlockInsert(m)
    [] strategy = "BlockDelete"     -> BlockDelete(m)
    [] strategy = "InterestingByte" -> InterestingByte(m)
    [] strategy = "InterestingU16"  -> InterestingU16(m)
    [] strategy = "InterestingU32"  -> InterestingU32(m)
    [] strategy = "RepeatByte"      -> RepeatByte(m)
    [] strategy = "Arithmetic"      -> Arithmetic(m)
    [] strategy = "Splice"          -> IF corpus = {} THEN BlockSubstitute(m)
                                       ELSE UNION {Splice(m, other) : other \in corpus}
    [] strategy = "TokenInsert"     -> TokenInsert(m)
    [] strategy = "TokenReplace"    -> TokenReplace(m)
    [] strategy = "Recombine"       -> IF corpus = {} THEN BlockSubstitute(m)
                                       ELSE UNION {Recombine(m, other) : other \in corpus}

Init ==
  /\ corpus \in Corpora /\ tokens \in Dictionaries
  /\ message \in corpus \union {<<>>}
  /\ calledWith = Len(message) /\ editsLeft = 0

Mutate(strategy) ==
  /\ editsLeft = 0 /\ Len(message) <= MaxLen
  /\ calledWith' = Len(message)
  /\ message' \in Apply(strategy, message)
  /\ UNCHANGED <<corpus, tokens, editsLeft>>

(* Mutant: the upper end of the range is counted twice. *)
Havoc_OneMore ==
  /\ editsLeft = 0 /\ Len(message) <= MaxLen
  /\ calledWith' = Len(message)
  /\ editsLeft' \in {n + 1 : n \in HavocEdits}
  /\ UNCHANGED <<corpus, tokens, message>>

(* havoc is called, and makes one edit after the other *)
Havoc ==
  /\ editsLeft = 0 /\ Len(message) <= MaxLen
  /\ calledWith' = Len(message)
  /\ editsLeft' \in HavocEdits
  /\ UNCHANGED <<corpus, tokens, message>>

HavocEdit(strategy) ==
  /\ editsLeft > 0
  /\ editsLeft' = editsLeft - 1
  /\ message' \in Apply(strategy, message)
  /\ UNCHANGED <<corpus, tokens, calledWith>>

(* the message was not interesting: another seed is mutated next *)
PickSeed ==
  /\ editsLeft = 0
  /\ message' \in corpus \union {<<>>}
  /\ calledWith' = Len(message')
  /\ UNCHANGED <<corpus, tokens, editsLeft>>

Next ==
  \/ \E s \in PlainStrategies : Mutate(s)
  \/ Havoc
  \/ \E s \in HavocStrategies : HavocEdit(s)
  \/ PickSeed

Spec == Init /\ [][Next]_vars

-----------------------------------------------------------------------------
(* Properties.                                                             *)

(* No strategy panics, whatever made the message it is given: no range of  *)
(* choices is empty at the lengths where guards and fallbacks change over  *)
(* (0, 1, 2, 4, the longest block), and every outcome is a string of bytes *)
(* (phaedra-mutator/src/strategies.rs, each gen_range).                    *)
NoStrategyPanics ==
  \A s \in PlainStrategies :
    /\ Apply(s, message) # {}
    /\ \A out \in Apply(s, message) : \A k \in DOMAIN out : out[k] \in Byte

(* Nothing limits the length of an input: it is the seed of longer ones.   *)
(* One call makes a message longer by a bounded amount, however its edits  *)
(* combine: havoc by its edits' insertions, a fallback from an empty       *)
(* message included, the others by what they are given.                    *)
Longest(set) == Max({0} \union {Len(m) : m \in set})

GrowthIsBounded ==
  Len(message) - calledWith <=
    Max({Max(HavocEdits) * Max({InsertMax, FallbackLen}), Longest(corpus), Longest(tokens)})

(* The edits in place can change the first and the last byte of a message  *)
(* of any length, deletions can remove them, insertions can come before    *)
(* and behind them: the ranges of offsets are exact at both ends.          *)
EditsInPlace ==
  {"BitFlip", "ByteSubstitute", "BlockFlip", "BlockSubstitute", "InterestingByte",
   "InterestingU16", "InterestingU32", "Arithmetic"}

BothEndsAreReached ==
  message # <<>> =>
    /\ \A s \in EditsInPlace : \A end \in {1, Len(message)} :
         \E out \in Apply(s, message) : Len(out) = Len(message) /\ out[end] # message[end]
    /\ Len(message) > 1 => \A s \in {"ByteDelete", "BlockDelete"} :
         {Front(message), Tail(message)} \subseteq Apply(s, message)
    /\ \A s \in {"ByteInsert", "BlockInsert", "RepeatByte"} :
         \A v \in Byte : {<<v>> \o message, message \o <<v>>} \subseteq Apply(s, message)

(* Recombining joins two messages at a block they share, which is in the   *)
(* result once, and no two equal blocks are longer than it; it splices     *)
(* where they share no two bytes in a row.                                 *)
SharedBlocks(a, b, n) ==
  {p \in [a : 0 .. Len(a) - n, b : 0 .. Len(b) - n] :
     SubSeq(a, p.a + 1, p.a + n) = SubSeq(b, p.b + 1, p.b + n)}

RecombinesAtLongestMatch ==
  \A other \in corpus :
    LET shared == {n \in 2 .. Shorter(Len(message), Len(other)) : SharedBlocks(message, other, n) # {}}
        n      == Max(shared)
        joined(p) == SubSeq(message, 1, p.a) \o SubSeq(other, p.b + 1, Len(other))
    IN  IF shared = {}
        THEN Recombine(message, other) = Splice(message, other)
        ELSE \E p \in SharedBlocks(message, other, n) : Recombine(message, other) = {joined(p)}
=============================================================================

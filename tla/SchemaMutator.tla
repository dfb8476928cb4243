--------------------------- MODULE SchemaMutator ----------------------------
(***************************************************************************)
(* schema_mutate of phaedra-schema, applied again and again: to a seed, to *)
(* what that gave, and so on, as a campaign does whose mutants are kept.   *)
(* The random generator is free to make every choice it is asked for.      *)
(***************************************************************************)
EXTENDS SchemaInference

CONSTANTS
  Files,      \* fields of the schemas read from files
  Seeds,      \* seeds besides the message a schema generates
  SampleSets, \* corpora a schema is inferred from: sequences of seeds
  MaxRounds   \* bound of the model: mutations in a row

ASSUME MutatorAssumption ==
  /\ Files \subseteq Seq(Fields) /\ \A file \in Files : IsValid(file)
  /\ Seeds \subseteq Seq(Bytes)
  /\ SampleSets \subseteq Seq(Seq(Bytes))
  /\ MaxRounds \in Nat

VARIABLES
  samples,  \* the corpus the schema was inferred from; empty if it was read
  fields,   \* of the schema
  seed,
  message,  \* the seed, or what the last mutation gave
  rounds    \* how many mutations there were

vars == <<samples, fields, seed, message, rounds>>

-----------------------------------------------------------------------------
(* Where fields are.                                                       *)

(* Mutant: an immutable field is a place like any other. *)
LeafLocation_Any(field, offset) == {[offset |-> offset, field |-> field]}

LeafLocation(field, offset) ==
  IF field.mutable THEN {[offset |-> offset, field |-> field]} ELSE {}

(* Where the copies of a repeated field begin.  The next copy is looked    *)
(* for behind the sizes its fields would have if each began where this one *)
(* does.                                                                   *)
Copies(field, input, base) ==
  LET start[n \in 1 .. field.length] ==
        IF n = 1 THEN base
        ELSE LET last == start[n - 1] IN last + SizesAt(field.fields, input, last)
  IN  start

(* What is found in fields that lie one after the other from an offset on; *)
(* found and sizes give it and the size of each of them by its offset.     *)
InRow(found, sizes, offset) ==
  UNION {found[k][Ends(sizes, offset)[k - 1]] : k \in DOMAIN found}

(* collect_mutable: mutable fields with the offsets they are looked for at *)
Locations(input, fs, base) ==
  LET places[field \in Fields] == [offset \in Nat |->
        IF field.type # "repeated" THEN LeafLocation(field, offset)
        ELSE IF ~field.mutable THEN {}
        ELSE UNION {InRow(Each(places, field.fields), Each(Sizes(input), field.fields),
                          Copies(field, input, offset)[n]) : n \in 1 .. field.length}]
  IN  InRow(Each(places, fs), Each(Sizes(input), fs), base)

-----------------------------------------------------------------------------
(* What is done to a field.                                                *)

Put(buf, offset, values) == {[buf EXCEPT ![offset + 1] = v] : v \in values}

(* one byte of first .. last - 1 is given one of the values *)
PutOne(buf, first, last, values) ==
  UNION {Put(buf, k, values) : k \in first .. last - 1}

(* n bytes are given any values *)
PutAny(buf, offset, n) ==
  {[k \in DOMAIN buf |-> IF k \in offset + 1 .. offset + n THEN v[k - offset] ELSE buf[k]] :
     v \in [1 .. n -> Bytes]}

(* Mutant: the payload is taken one byte too long. *)
MutatePrefixed_OneBeyond(buf, offset, n) ==
  LET start == offset + n
      end   == Min({start + NumberAt(buf, offset, n) + 1, Len(buf)})
  IN  PutAny(buf, offset, n)
        \union (IF end > start THEN PutOne(buf, start, end, Bytes) ELSE {buf})

(* a length prefix of n bytes, or a byte of the payload it announces *)
MutatePrefixed(buf, offset, n) ==
  LET start == offset + n
      end   == Min({start + NumberAt(buf, offset, n), Len(buf)})
  IN  PutAny(buf, offset, n)
        \union (IF end > start THEN PutOne(buf, start, end, Bytes) ELSE {buf})

MutateBytes(buf, offset, end) ==
  PutOne(buf, offset, end, Bytes)
    \union {InsertAt(buf, k + 1, v) : k \in offset .. end - 1, v \in Bytes}
    \union {RemoveAt(buf, k + 1) : k \in {j \in offset .. end - 1 : end > offset + 1}}

(* a byte of the text, its terminator, or a terminator within it *)
MutateText(buf, offset) ==
  LET end == EndOfText(buf, offset)
  IN  PutOne(buf, offset, end, Bytes)
        \union (IF end < Len(buf) THEN Put(buf, end, Bytes \ {0}) ELSE {})
        \union (IF end = offset THEN Put(buf, offset, Bytes) ELSE {})

(* apply_mutation; a field the input is too short for is left alone *)
Mutated(buf, offset, field) ==
  LET end == Min({offset + field.length, Len(buf)})
      fits(n) == offset + n <= Len(buf)
  IN  CASE field.type \in DOMAIN Width /\ fits(Width[field.type])
             -> PutAny(buf, offset, Width[field.type])
        [] field.type \in DOMAIN Prefix /\ fits(Prefix[field.type])
             -> MutatePrefixed(buf, offset, Prefix[field.type])
        [] field.type = "bytes" /\ fits(1) -> MutateBytes(buf, offset, end)
        [] field.type = "cstring" /\ fits(1) -> MutateText(buf, offset)
        [] field.type = "magic" /\ fits(1)
             -> UNION {Put(buf, k, Bytes \ {ByteAt(buf, k)}) : k \in offset .. end - 1}
        [] field.type = "padding" /\ fits(1)
             -> {[k \in DOMAIN buf |-> IF k \in offset + 1 .. end THEN b ELSE buf[k]] :
                   b \in {0, Base - 1}}
        [] OTHER -> {buf}

(* Mutant: short inputs stay short. *)
Padded_Not(input, fs) == input

(* the input, filled with zeros up to the size no message is shorter than *)
Padded(input, fs) ==
  IF Len(input) >= MinSizeOf(fs) THEN input
  ELSE [k \in 1 .. MinSizeOf(fs) |-> IF k <= Len(input) THEN input[k] ELSE 0]

(* schema_mutate *)
SchemaMutate(input, fs) ==
  LET buf    == Padded(input, fs)
      places == Locations(buf, fs, 0)
  IN  IF places = {} THEN {buf}
      ELSE UNION {Mutated(buf, p.offset, p.field) : p \in places}

-----------------------------------------------------------------------------
Init ==
  /\ \/ /\ samples = <<>>
        /\ fields \in Files
        /\ seed \in {Generate(fields)} \union Seeds
     \/ /\ samples \in SampleSets
        /\ fields = InferSchema(samples)
        /\ seed \in {samples[k] : k \in DOMAIN samples} \union {Generate(fields)}
  /\ message = seed
  /\ rounds = 0

Mutate ==
  /\ rounds < MaxRounds
  /\ message' \in SchemaMutate(message, fields)
  /\ rounds' = rounds + 1
  /\ UNCHANGED <<samples, fields, seed>>

Next == Mutate

Spec == Init /\ [][Next]_vars

-----------------------------------------------------------------------------
(* Properties.                                                             *)

(* Types; a message is never empty once it was filled to a minimal size. *)
TypeOK ==
  /\ samples \in SampleSets \union {<<>>}
  /\ {seed, message} \subseteq Seq(Bytes)
  /\ rounds > 0 /\ MinSizeOf(fields) > 0 => message # <<>>
  /\ rounds \in 0 .. MaxRounds

(* A campaign can load the schema that was inferred: it is valid whatever  *)
(* the corpus was.                                                         *)
InferredSchemaIsValid == samples # <<>> => IsValid(fields)

(* An inferred schema describes the corpus: samples of one length fill its *)
(* fields exactly, and a length prefix does so in seven samples of ten.    *)
Fits(sample) == FieldsSize(fields, sample, 0) = Len(sample)
InferredSchemaFitsSamples ==
  samples # <<>> /\ rounds = 0 =>
    LET fitting == Cardinality({k \in DOMAIN samples : Fits(samples[k])})
        hasPrefix == \E k \in DOMAIN fields : fields[k].type \in DOMAIN Prefix
    IN  /\ SameLength(samples) /\ samples[1] # <<>> => fitting = Len(samples)
        /\ hasPrefix => fitting * 10 >= Len(samples) * 7

(* What infer_schema writes can be loaded, and describes its samples.      *)
InferenceIsSound == InferredSchemaIsValid /\ InferredSchemaFitsSamples

(* The fields with those of a repeated field written out, as often as it   *)
(* has them; an immutable one stays as it is.                              *)
WrittenOut(fs) ==
  LET leaves[field \in Fields] ==
        IF field.type = "repeated" /\ field.mutable
        THEN FlattenSeq(Each(leaves, Unrolled(field))) ELSE <<field>>
  IN  FlattenSeq(Each(leaves, fs))

(* The bytes immutable fields hold in a generated message, as flags. *)
Immutable(fs) ==
  FlattenSeq([k \in DOMAIN WrittenOut(fs) |->
                LET leaf == WrittenOut(fs)[k]
                IN  [j \in DOMAIN Generate(<<leaf>>) |-> ~leaf.mutable]])

(* "mutable = false": a mutation of a generated message that keeps its     *)
(* length changes no byte of an immutable field.                           *)
ImmutableFieldsAreSpared ==
  [][(rounds = 0 /\ seed = Generate(fields) /\ Len(message') = Len(message)) =>
       \A k \in DOMAIN message : Immutable(fields)[k] => message'[k] = message[k]]_vars

(* Length of the immutable fields of fixed size the schema begins with.    *)
PrefixLength ==
  LET fixed(field) == ~field.mutable /\ field.type \in DOMAIN Width \union {"bytes", "magic", "padding"}
      n == Max({0} \union {k \in DOMAIN fields : \A j \in 1 .. k : fixed(fields[j])})
  IN  FieldsSize(SubSeq(fields, 1, n), <<>>, 0)

(* collect_mutable finds no place within the immutable fields a schema     *)
(* begins with: the magic bytes of a seed survive any number of mutations, *)
(* though those of fields behind them corrupt lengths, remove terminators  *)
(* and insert and delete bytes.                                            *)
MagicSurvives ==
  \A k \in DOMAIN seed : k <= PrefixLength => k \in DOMAIN message /\ message[k] = seed[k]

(* collect_mutable takes a repeated field for its copies one after the     *)
(* other: whatever the mutations before did to lengths and terminators,    *)
(* the same places are mutated as if the copies were fields of their own.  *)
CopiesAreFields == Locations(message, fields, 0) = Locations(message, WrittenOut(fields), 0)

(* Mutations that corrupt lengths and terminators move no field that lies  *)
(* before them, and none of a repeated field out of its row.               *)
LayoutIsStable == MagicSurvives /\ CopiesAreFields
=============================================================================

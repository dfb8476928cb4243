-------------------------- MODULE SchemaInference ---------------------------
(***************************************************************************)
(* infer_schema of phaedra-schema: from samples of a corpus to the fields  *)
(* of a schema.                                                            *)
(***************************************************************************)
EXTENDS Schema

CONSTANTS
  Printable,     \* bytes taken for text (0x20 .. 0x7e)
  MagicLimit,    \* longest prefix taken for magic bytes (8)
  DefaultLength  \* length of the one field of a schema from nothing (16)

ASSUME InferenceAssumption ==
  /\ Printable \subseteq Bytes \ {0}
  /\ MagicLimit \in Nat
  /\ DefaultLength \in Nat \ {0}

Plain(type, length) == Field(type, length, <<>>, TRUE)
Magic(length)       == Field("magic", length, <<>>, FALSE)

(* detect_magic: length of the prefix all samples share, up to the limit *)
MagicEnd(samples) ==
  Max({n \in 0 .. MagicLimit :
         \A k \in DOMAIN samples : /\ n <= Len(samples[k])
                                   /\ SubSeq(samples[k], 1, n) = SubSeq(samples[1], 1, n)})

SameLength(samples) == \A k \in DOMAIN samples : Len(samples[k]) = Len(samples[1])

Remainder(taken, length) ==
  IF length > taken THEN <<Plain("bytes", length - taken)>> ELSE <<>>

(* fixed_layout *)
FixedLayout(length) ==
  CASE length = 0 -> <<>>
    [] length \in 1 .. 2 -> <<Plain("u8", None)>> \o Remainder(1, length)
    [] length \in 3 .. 6 -> <<Plain("u8", None), Plain("u16", None)>> \o Remainder(3, length)
    [] length >= 7 -> <<Plain("u8", None), Plain("u16", None), Plain("u32", None)>>
                        \o Remainder(7, length)

(* behind the magic bytes comes a prefix of n bytes and what it announces *)
IsPrefixed(sample, start, n) ==
  /\ start + n <= Len(sample)
  /\ Len(sample) = start + n + NumberAt(sample, start, n)

(* detect_lp: the narrowest prefix that fits seven samples of ten *)
PrefixTypes(samples, start) ==
  {type \in DOMAIN Prefix :
     Cardinality({k \in DOMAIN samples : IsPrefixed(samples[k], start, Prefix[type])}) * 10
       >= Len(samples) * 7}

Narrowest(types) == CHOOSE t \in types : \A u \in types : Prefix[t] <= Prefix[u]

(* behind the magic bytes come printable bytes and a zero *)
IsText(sample, start) ==
  LET end == EndOfText(sample, start)
  IN  /\ end < Len(sample)
      /\ \A k \in start .. end - 1 : ByteAt(sample, k) \in Printable

(* median_len, median_payload_len: the middle one of the lengths less start *)
MedianLength(samples, start) ==
  LET length(k) == IF Len(samples[k]) > start THEN Len(samples[k]) - start ELSE 0
      upTo(n)   == Cardinality({k \in DOMAIN samples : length(k) <= n})
  IN  Min({n \in {length(k) : k \in DOMAIN samples} : upTo(n) > Len(samples) \div 2})

(* detect_null_or_bytes *)
TextOrBytes(samples, start) ==
  IF Cardinality({k \in DOMAIN samples : IsText(samples[k], start)}) * 10 >= Len(samples) * 6
  THEN Plain("cstring", None)
  ELSE Plain("bytes", Max({MedianLength(samples, start), 1}))

(* the fields behind the magic bytes *)
Body(samples) ==
  LET start == MagicEnd(samples)
      types == PrefixTypes(samples, start)
  IN  CASE SameLength(samples) /\ start = 0 -> FixedLayout(Len(samples[1]))
        [] SameLength(samples) /\ start > 0 -> Remainder(start, Len(samples[1]))
        [] ~SameLength(samples) /\ types # {} -> <<Plain(Narrowest(types), None)>>
        [] ~SameLength(samples) /\ types = {} -> <<TextOrBytes(samples, start)>>

(* Mutant: the last resort is forgotten. *)
InferSchema_NoFallback(samples) ==
  IF samples = <<>> THEN <<Plain("bytes", DefaultLength)>>
  ELSE (IF MagicEnd(samples) > 0 THEN <<Magic(MagicEnd(samples))>> ELSE <<>>) \o Body(samples)

(* infer_schema *)
InferSchema(samples) ==
  IF samples = <<>> THEN <<Plain("bytes", DefaultLength)>>
  ELSE LET magic  == IF MagicEnd(samples) > 0 THEN <<Magic(MagicEnd(samples))>> ELSE <<>>
           median == MedianLength(samples, 0)
       IN  IF magic \o Body(samples) # <<>> THEN magic \o Body(samples)
           ELSE <<Plain("bytes", IF median = 0 THEN DefaultLength ELSE median)>>
=============================================================================

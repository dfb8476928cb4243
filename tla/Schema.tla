------------------------------- MODULE Schema -------------------------------
(***************************************************************************)
(* Schemas of phaedra-schema: fields, the sizes they have in an input,     *)
(* the rules a schema file must meet, and the message schema_generate      *)
(* builds.  A field is a record of its type, its length (None if absent),  *)
(* its sub-fields and its mutability.  Names are left out.  Offsets count  *)
(* from 0, as in the code.                                                 *)
(*                                                                         *)
(* A byte is a number below Base (256), so that a length prefix of two     *)
(* bytes is a number below Base * Base.  Byte order and integers of eight  *)
(* bytes are left out: they differ from the others by nothing but that.    *)
(***************************************************************************)
EXTENDS Naturals, Sequences, SequencesExt

CONSTANTS
  Base,        \* number of byte values
  DemoLength,  \* length of the contents schema_generate fills in (4)
  Depth        \* how deep the repeated fields of a schema nest, any number

ASSUME SchemaAssumption ==
  /\ Base \in Nat /\ Base >= 2
  /\ DemoLength \in 1 .. Base - 1
  /\ Depth \in Nat

Bytes == 0 .. Base - 1
None  == 0  \* length: None; a repeated field is taken to have its length, even 0

(* bytes of the integer types, and of the prefixes of the lp_bytes types *)
Width  == [u8 |-> 1, u16 |-> 2, u32 |-> 4]
Prefix == [lp8 |-> 1, lp16 |-> 2, lp32 |-> 4]

Types == DOMAIN Width \union DOMAIN Prefix
           \union {"bytes", "magic", "padding", "cstring", "repeated"}

Field(type, length, subfields, mutable) ==
  [type |-> type, length |-> length, fields |-> subfields, mutable |-> mutable]

(* the fields that nest up to a depth, and those of the schemas here *)
FieldsUpTo[depth \in 0 .. Depth] ==
  [type : Types, length : Nat, mutable : BOOLEAN,
   fields : IF depth = 0 THEN {<<>>} ELSE Seq(FieldsUpTo[depth - 1])]

Fields == FieldsUpTo[Depth]

(* a sequence of fields, and what f gives for each of them *)
Each(f, fields) == [k \in DOMAIN fields |-> f[fields[k]]]

ByteAt(input, offset) == input[offset + 1]

(* n bytes as a big-endian number *)
NumberAt(input, offset, n) ==
  LET number[k \in 0 .. n] ==
        IF k = 0 THEN 0 ELSE number[k - 1] * Base + ByteAt(input, offset + k - 1)
  IN  number[n]

(* offset of the first zero byte from offset on, or the end of the input *)
EndOfText(input, offset) ==
  LET zeros == {k \in offset .. Len(input) - 1 : ByteAt(input, k) = 0}
  IN  IF zeros = {} THEN Len(input) ELSE Min(zeros)

(* all sub-fields of a repeated field, as often as it has them *)
Unrolled(field) == FlattenSeq([n \in 1 .. field.length |-> field.fields])

(* Where fields end that lie one after the other from an offset on; sizes  *)
(* gives for each of them its size by its offset.                          *)
Ends(sizes, offset) ==
  LET end[k \in 0 .. Len(sizes)] ==
        IF k = 0 THEN offset
        ELSE LET start == end[k - 1] IN start + sizes[k][start]
  IN  end

(* the size of a field without sub-fields *)
LeafSize(field, input, offset) ==
  CASE field.type \in DOMAIN Width -> Width[field.type]
    [] field.type \in {"bytes", "magic", "padding"} -> field.length
    [] field.type = "cstring" ->
         IF offset >= Len(input) THEN 1
         ELSE IF EndOfText(input, offset) = Len(input) THEN Len(input) - offset
         ELSE EndOfText(input, offset) - offset + 1
    [] field.type \in DOMAIN Prefix ->
         LET n == Prefix[field.type]
         IN  IF offset + n <= Len(input) THEN n + NumberAt(input, offset, n) ELSE n

(* field_runtime_size: for each field its size by its offset *)
Sizes(input) ==
  LET size[field \in Fields] == [offset \in Nat |->
        IF field.type # "repeated" THEN LeafSize(field, input, offset)
        ELSE LET copies == Unrolled(field)
             IN  Ends(Each(size, copies), offset)[Len(copies)] - offset]
  IN  size

FieldSize(field, input, offset) == Sizes(input)[field][offset]

(* the size of fields that lie one after the other *)
FieldsSize(fields, input, offset) ==
  Ends(Each(Sizes(input), fields), offset)[Len(fields)] - offset

(* FieldType::min_size *)
MinSize(field) ==
  CASE field.type \in DOMAIN Width  -> Width[field.type]
    [] field.type \in DOMAIN Prefix -> Prefix[field.type]
    [] field.type = "cstring" -> 1
    [] OTHER -> 0

(* the sum of a sequence of numbers *)
Total(terms) ==
  LET sum[k \in 0 .. Len(terms)] == IF k = 0 THEN 0 ELSE sum[k - 1] + terms[k]
  IN  sum[Len(terms)]

(* the sizes fields would have if each of them began at offset *)
SizesAt(fields, input, offset) ==
  Total([k \in DOMAIN fields |-> FieldSize(fields[k], input, offset)])

(* schema_min_size *)
MinSizeOf(fields) == Total([k \in DOMAIN fields |-> MinSize(fields[k])])

(* validate_schema, the value of a magic field taken to be of its length *)
IsValid(fields) ==
  LET valid[field \in Fields] ==
        /\ field.type \in {"bytes", "padding", "magic"} => field.length # None
        /\ field.type \in DOMAIN Width => field.length = None
        /\ field.type = "repeated" =>
             field.fields # <<>> /\ \A k \in DOMAIN field.fields : valid[field.fields[k]]
  IN  fields # <<>> /\ \A k \in DOMAIN fields : valid[fields[k]]

(* generate_fields; a magic value is its byte 1 throughout *)
LeafMessage(field) ==
  LET fill(n, b) == [k \in 1 .. n |-> b]
  IN  CASE field.type \in DOMAIN Width -> Append(fill(Width[field.type] - 1, 0), 1)
        [] field.type \in DOMAIN Prefix ->
             Append(fill(Prefix[field.type] - 1, 0), DemoLength) \o fill(DemoLength, 1)
        [] field.type = "bytes"   -> fill(field.length, 1)
        [] field.type = "cstring" -> Append(fill(DemoLength, 1), 0)
        [] field.type = "magic"   -> fill(field.length, 1)
        [] field.type = "padding" -> fill(field.length, 0)

Generate(fields) ==
  LET message[field \in Fields] ==
        IF field.type # "repeated" THEN LeafMessage(field)
        ELSE FlattenSeq(Each(message, Unrolled(field)))
  IN  FlattenSeq(Each(message, fields))
=============================================================================

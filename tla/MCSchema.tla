------------------------------ MODULE MCSchema ------------------------------
(***************************************************************************)
(* Three byte values, of which 1 is text; schema files with every type of  *)
(* field; corpora of one sample, of two samples, and of one sample among   *)
(* two or three equal ones.  In the groups of MCFiles only the first field *)
(* of a copy has a variable size; MCGroups has the other kind, on which    *)
(* ImmutableFieldsAreSpared and CopiesAreFields fail.                      *)
(***************************************************************************)
EXTENDS SchemaMutator

MCPrintable == {1}

leaf(type)    == Field(type, None, <<>>, TRUE)
sized(type)   == Field(type, 2, <<>>, TRUE)
fixed(type, n) == Field(type, n, <<>>, FALSE)
group(n, fs)  == Field("repeated", n, fs, TRUE)

(* shaped like examples/binary_tlv.schema.toml and http_request.schema.toml *)
Tlv  == <<fixed("magic", 1), leaf("u8"), leaf("lp8"), leaf("u16")>>
Http == <<sized("bytes"), fixed("magic", 1), leaf("cstring"), fixed("magic", 1)>>

(* a group each copy of which ends with a field of variable size *)
Group == <<group(2, <<fixed("u8", None), leaf("lp8")>>)>>

MCFiles ==
  {Tlv, Http,
   <<fixed("magic", 1), sized("padding"), leaf("lp16"), sized("magic")>>,
   <<fixed("u8", None), leaf("u32"), leaf("lp32")>>,
   <<Field("repeated", 2, <<leaf("lp8")>>, FALSE), leaf("u8")>>,
   <<group(2, <<leaf("lp8")>>), fixed("magic", 1), group(2, <<fixed("u8", None), leaf("u8")>>)>>}

MCGroups == {Group}

MCSeeds == {<<>>, <<2, 0>>}

Strings(n) == [1 .. n -> Bytes]
Samples    == {<<>>, <<1, 0>>, <<1, 1>>, <<0, 2>>, <<2, 1>>, <<1, 1, 0>>, <<1, 1, 2>>,
               <<0, 1, 1>>, <<2, 1, 0>>}

(* schema files only *)
MCNoSamples == {}

MCSampleSets ==
  {<<s>> : s \in {<<>>} \union Strings(1) \union Strings(3) \union {[k \in 1 .. 8 |-> k % 3]}}
    \union {<<s, t>> : s, t \in Samples} \union {<<s, t, s, s>> : s, t \in Samples}
=============================================================================

------------------------------- MODULE Seeds --------------------------------
(***************************************************************************)
(* How the reply of a language model becomes seeds                         *)
(* (phaedra-llm/src/seeds.rs): the whole reply as a JSON array, else the   *)
(* text from the first '[' to the last ']', else every {...} found by      *)
(* counting braces.                                                        *)
(*                                                                         *)
(* A reply is a sequence of symbols: a character of JSON's structure, a    *)
(* member "hex" with its value, a member whose text holds one bracket or   *)
(* brace, a number, or a word of prose.  Commas within an object are       *)
(* implied; objects do not nest.  A hex value is a sequence of characters. *)
(***************************************************************************)
EXTENDS Integers, SequencesExt

Sign(c)   == [kind |-> c, hex |-> <<>>]
Quoted(c) == [kind |-> "quoted_" \o c, hex |-> <<>>]
Hex(h)    == [kind |-> "hex", hex |-> h]
Word      == Sign("word")
Number    == Sign("number")

Members == {"hex", "quoted_lbracket", "quoted_rbracket", "quoted_lbrace", "quoted_rbrace"}

(* the numbers of a finite set in ascending order, and the elements of a *)
(* sequence at some of its places                                        *)
Ascending(S) ==
  CHOOSE e \in [1 .. Cardinality(S) -> S] : \A i, j \in DOMAIN e : i < j => e[i] < e[j]

At(s, places) == [n \in 1 .. Cardinality(places) |-> s[Ascending(places)[n]]]

-----------------------------------------------------------------------------
(* UTF-8: how a character lies in the bytes of the string *)
Bytes(c) ==
  CASE c = "wide"     -> <<"lead", "rest">>           \* such as a times sign
    [] c = "ellipsis" -> <<"lead", "rest", "rest">>
    [] OTHER          -> <<c>>

Utf8(h) == FlattenSeq([k \in DOMAIN h |-> Bytes(h[k])])

(* u8::from_str_radix takes a plus sign before a single digit *)
Digits      == {"0", "4", "f"}
IsNumber(x, y) == x \in Digits \union {"+"} /\ y \in Digits

(* decode_hex slices the string at every second byte, and stops at the     *)
(* first slice that is not a number; a slice that does not lie between     *)
(* characters is a panic.  Its result is the hex text itself.              *)
Decode(h) ==
  LET u       == Utf8(h)
      Starts  == {k \in DOMAIN u : k % 2 = 1}
      Bad     == {k \in Starts : ~IsNumber(u[k], u[k + 1])}
      SplitAt(k) == u[k] = "rest" \/ (k + 2 \in DOMAIN u /\ u[k + 2] = "rest")
      FirstBad == CHOOSE k \in Bad : \A l \in Bad : k <= l
  IN CASE Len(u) % 2 = 1   -> "invalid"
       [] Len(u) % 2 = 0 /\ Bad = {}  -> "valid"
       [] Len(u) % 2 = 0 /\ Bad # {}  ->
            IF SplitAt(FirstBad) THEN "panic" ELSE "invalid"

-----------------------------------------------------------------------------
(* The JSON in a slice of a reply *)

(* what may come after a symbol in an array of objects and numbers *)
Follows(a, b) ==
  \/ a \in {"lbracket", "comma"} /\ b \in {"lbrace", "number"}
  \/ a = "lbracket" /\ b = "rbracket"
  \/ a \in {"lbrace"} \union Members /\ b \in Members \union {"rbrace"}
  \/ a \in {"rbrace", "number"} /\ b \in {"comma", "rbracket"}

IsArray(s) ==
  /\ s # <<>> /\ Head(s).kind = "lbracket" /\ Last(s).kind = "rbracket"
  /\ \A k \in 1 .. Len(s) - 1 : Follows(s[k].kind, s[k + 1].kind)

IsObject(s) ==
  /\ Len(s) >= 2 /\ Head(s).kind = "lbrace" /\ Last(s).kind = "rbrace"
  /\ \A k \in 2 .. Len(s) - 1 : s[k].kind \in Members

(* the objects of an array, in order; numbers among them are no objects *)
ObjectsOfArray(s) ==
  LET opens == {k \in DOMAIN s : s[k].kind = "lbrace"}
      close(k) == CHOOSE l \in DOMAIN s :
                    /\ l > k /\ s[l].kind = "rbrace"
                    /\ \A i \in k .. l - 1 : s[i].kind # "rbrace"
  IN At([k \in opens |-> SubSeq(s, k, close(k))], opens)

(* the last "hex" of an object, as serde_json reads it *)
HexMembers(obj) == {k \in DOMAIN obj : obj[k].kind = "hex"}
HexOf(obj)      == obj[CHOOSE k \in HexMembers(obj) :
                         \A l \in HexMembers(obj) : l <= k].hex

(* the objects of a sequence that have a "hex", and those it is valid in *)
Usable(objects) == {k \in DOMAIN objects : HexMembers(objects[k]) # {}}
Valid(objects)  == {k \in Usable(objects) : Decode(HexOf(objects[k])) = "valid"}

(* Mutant: hex that is not valid is taken for an empty seed. *)
SeedsOf_InvalidIsEmpty(objects) ==
  [panics |-> \E k \in Usable(objects) : Decode(HexOf(objects[k])) = "panic",
   seeds  |-> At([k \in Usable(objects) |->
                    IF k \in Valid(objects) THEN HexOf(objects[k]) ELSE <<>>], Usable(objects))]

(* seed_from_value of each object, those that are of no use left out *)
SeedsOf(objects) ==
  [panics |-> \E k \in Usable(objects) : Decode(HexOf(objects[k])) = "panic",
   seeds  |-> At([k \in Valid(objects) |-> HexOf(objects[k])], Valid(objects))]

-----------------------------------------------------------------------------
Opens(s)  == {k \in DOMAIN s : s[k].kind \in {"lbrace", "quoted_lbrace"}}
Closes(s) == {k \in DOMAIN s : s[k].kind \in {"rbrace", "quoted_rbrace"}}

(* extract_objects: from an opening brace to where as many are closed;     *)
(* braces inside strings are counted too.  A brace that is never closed    *)
(* ends the scan.                                                          *)
Ends(s, k) ==
  {l \in Closes(s) :
     l > k /\ Cardinality(Opens(s) \cap k .. l) = Cardinality(Closes(s) \cap k .. l)}

FirstEnd(s, k) == CHOOSE l \in Ends(s, k) : \A m \in Ends(s, k) : l <= m

ExtractObjects(s) ==
  LET from[k \in 1 .. Len(s) + 1] ==
        IF k > Len(s) THEN <<>>
        ELSE IF k \notin Opens(s) THEN from[k + 1]
        ELSE IF Ends(s, k) = {} THEN <<>>
        ELSE <<SubSeq(s, k, FirstEnd(s, k))>> \o from[FirstEnd(s, k) + 1]
  IN from[1]

(* the first '[' and the last ']' of the text, in strings or not *)
Lefts(s)     == {k \in DOMAIN s : s[k].kind \in {"lbracket", "quoted_lbracket"}}
Rights(s)    == {k \in DOMAIN s : s[k].kind \in {"rbracket", "quoted_rbracket"}}
Bracketed(s) ==
  IF Lefts(s) = {} \/ Rights(s) = {} THEN <<>>
  ELSE LET first == CHOOSE k \in Lefts(s) : \A l \in Lefts(s) : k <= l
           last  == CHOOSE k \in Rights(s) : \A l \in Rights(s) : l <= k
       IN SubSeq(s, first, last)

(* parse_llm_response: the first strategy that finds an array is the one   *)
(* used, even when the array holds no seed                                 *)
Parse(reply) ==
  IF IsArray(reply) THEN SeedsOf(ObjectsOfArray(reply))
  ELSE IF IsArray(Bracketed(reply)) THEN SeedsOf(ObjectsOfArray(Bracketed(reply)))
  ELSE LET found == ExtractObjects(reply)
       IN SeedsOf(At(found, {k \in DOMAIN found : IsObject(found[k])}))
=============================================================================

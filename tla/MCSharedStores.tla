--------------------------- MODULE MCSharedStores ---------------------------
(***************************************************************************)
(* Two campaigns.  The model answers with one of the texts below, cut off  *)
(* anywhere (max_tokens): an array as it was asked for, one within prose   *)
(* that has brackets of its own, objects without an array, and arrays      *)
(* whose strings hold brackets, braces and characters of several bytes;    *)
(* and objects before an array, and within another brace.                  *)
(***************************************************************************)
EXTENDS SharedStores

CONSTANTS p1, p2, s1, s2

MCCampaigns  == {p1, p2}
MCSignatures == {s1, s2}
MCSymmetry   == Permutations(MCCampaigns) \union Permutations(MCSignatures)
MCFallback   == <<"phaedra">>

A == Hex(<<"4", "f">>)
B == Hex(<<"0", "+", "4">>)
C == Hex(<<"+", "4">>)

Object(members) == <<Sign("lbrace")>> \o members \o <<Sign("rbrace")>>
Comma == <<Sign("comma")>>
Array(elements) == <<Sign("lbracket")>> \o elements \o <<Sign("rbracket")>>

Texts == {
  Array(Object(<<A>>) \o Comma \o Object(<<B>>) \o Comma \o Object(<<Hex(<<>>)>>)),
  <<Word>> \o Array(<<Number>>) \o Array(Object(<<A>>) \o Comma \o Object(<<C>>)),
  <<Word>> \o Object(<<Quoted("rbracket"), A>>) \o <<Word>> \o Object(<<C, Quoted("lbracket")>>),
  Array(Object(<<A, Quoted("lbrace")>>) \o Comma \o Object(<<Quoted("rbrace"), C>>)),
  Array(Object(<<Quoted("rbracket")>>) \o Comma \o Object(<<A, C>>) \o Comma \o Object(<<A>>)),
  Object(<<Word>>) \o Array(Object(<<A>>) \o <<Word>>),
  Array(Object(<<Hex(<<"4", "wide", "f">>)>>) \o Comma \o Object(<<Hex(<<"wide">>)>>)),
  Array(Object(<<Hex(<<"4", "0", "ellipsis", "f">>)>>)),
  Array(Object(<<A>>) \o Comma \o Object(<<Hex(<<"ellipsis", "x">>), A>>)),
  Object(<<A>>) \o Array(Object(<<C>>)),
  <<Sign("lbrace"), Word>> \o Object(<<A>>) \o <<Sign("rbrace")>> \o Object(<<C>>) }

MCReplies == UNION {{SubSeq(t, 1, n) : n \in DOMAIN t} : t \in Texts}
=============================================================================

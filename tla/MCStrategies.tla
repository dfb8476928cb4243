---------------------------- MODULE MCStrategies ----------------------------
(***************************************************************************)
(* Bytes of one bit.  The messages of the corpus share blocks of two and   *)
(* more bytes, with each other and with what becomes of them, and share    *)
(* blocks of one length in several places.                                 *)
(***************************************************************************)
EXTENDS Strategies

MCCorpora == {{}, {<<0, 1, 1, 0, 1>>, <<1, 1, 0>>, <<1>>, <<>>}}
MCDictionaries == {{}, {<<0, 1>>, <<1, 0, 0>>}}
=============================================================================

----------------------------- MODULE MCMinimize -----------------------------
(***************************************************************************)
(* Records of up to five bytes; targets that crash on two bytes in a row,  *)
(* on a first byte, on a length, and one that crashes now and then.        *)
(***************************************************************************)
EXTENDS Minimize

MCBytes == {0, 1, 2}
MCOriginals == {<<1, 2, 1, 2, 1>>, <<2, 1, 1, 0>>, <<0, 0, 2>>, <<1>>}

CrashesIf(Bad(_)) == [i \in Inputs |-> IF Bad(i) THEN {"crash"} ELSE {"other"}]

MCTargets ==
  {CrashesIf(LAMBDA i : \E k \in 1 .. Len(i) - 1 : i[k] = 1 /\ i[k + 1] # 0),
   CrashesIf(LAMBDA i : Len(i) > 0 /\ i[Len(i)] = 1),
   CrashesIf(LAMBDA i : Len(i) >= 2),
   [i \in Inputs |-> IF Len(i) % 2 = 0 THEN Endings ELSE {"crash"}]}
=============================================================================

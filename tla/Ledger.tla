------------------------------- MODULE Ledger -------------------------------
(***************************************************************************)
(* What a crash directory promises to the campaigns that share it: every   *)
(* crash a campaign meets is counted once, under its signature, unless the *)
(* campaign ends first; exactly one campaign, the one whose crash was the  *)
(* first of its signature, owes the directory a file for it.  Counting is  *)
(* one step here; see module SharedStores for the code.                    *)
(***************************************************************************)
EXTENDS Naturals

CONSTANTS
  Campaigns,   \* the processes
  Signatures,  \* signatures of crashes
  None         \* no signature, none of Signatures

VARIABLES
  count,   \* count[s]: crashes counted under s
  held,    \* held[p]: the crash p has met and not yet counted
  owed,    \* owed[p]: the signature p has yet to write a file for
  filed    \* the signatures a file was written for

ledger == <<count, held, owed, filed>>

Init ==
  /\ count = [s \in Signatures |-> 0]
  /\ held = [p \in Campaigns |-> None] /\ owed = [p \in Campaigns |-> None]
  /\ filed = {}

Meet(p) ==
  /\ held[p] = None /\ owed[p] = None
  /\ \E s \in Signatures : held' = [held EXCEPT ![p] = s]
  /\ UNCHANGED <<count, owed, filed>>

Count(p) ==
  /\ held[p] # None
  /\ count' = [count EXCEPT ![held[p]] = @ + 1]
  /\ owed' = [owed EXCEPT ![p] = IF count[held[p]] = 0 THEN held[p] ELSE None]
  /\ held' = [held EXCEPT ![p] = None]
  /\ UNCHANGED filed

File(p) ==
  /\ owed[p] # None /\ owed[p] \notin filed
  /\ filed' = filed \union {owed[p]}
  /\ owed' = [owed EXCEPT ![p] = None]
  /\ UNCHANGED <<count, held>>

(* the campaign ends: what it had not counted or filed is lost *)
Lose(p) ==
  /\ held' = [held EXCEPT ![p] = None] /\ owed' = [owed EXCEPT ![p] = None]
  /\ UNCHANGED <<count, filed>>

Next == \E p \in Campaigns : Meet(p) \/ Count(p) \/ File(p) \/ Lose(p)

Spec == Init /\ [][Next]_ledger
=============================================================================

------------------------------ MODULE Minimize ------------------------------
(***************************************************************************)
(* phaedra minimize: minimize_input of phaedra-cli/src/main.rs, run on the *)
(* input of a crash record.  Five passes take turns at removing or zeroing *)
(* bytes; a candidate that crashes the target replaces the current input.  *)
(* The harness is seen through what a run can end with.                    *)
(***************************************************************************)
EXTENDS Naturals, Sequences, SequencesExt

CONSTANTS
  Bytes, Zero,  \* byte values, and the one the fourth pass writes
  Originals,    \* inputs of crash records
  Targets,      \* Target[i]: what a run on input i can end with
  MaxIters,     \* --max-iters
  StallLimit    \* candidates in a row that may fail (50)

Endings == {"crash", "other"}  \* other: an exit, a timeout, a harness error

(* byte strings no longer than the longest record *)
Longest == CHOOSE i \in Originals : \A j \in Originals : Len(j) <= Len(i)
Inputs  == UNION {[1 .. n -> Bytes] : n \in 0 .. Len(Longest)}

ASSUME MinimizeAssumption ==
  /\ Zero \in Bytes
  /\ Originals \subseteq Seq(Bytes)
  /\ \E i \in Originals : \A j \in Originals : Len(j) <= Len(i)
  /\ Targets \subseteq [Inputs -> SUBSET Endings \ {{}}]
  /\ MaxIters \in Nat
  /\ StallLimit \in Nat /\ StallLimit >= 5

VARIABLES
  target,      \* the program, a member of Targets
  original,    \* the input of the record
  current,
  candidate,   \* reduced
  iter,
  noProgress,
  pc           \* "loop", "run" or "done"

vars == <<target, original, current, candidate, iter, noProgress, pc>>

-----------------------------------------------------------------------------
Init ==
  /\ target \in Targets
  /\ original \in Originals
  /\ current = original
  /\ candidate = original
  /\ iter = 0 /\ noProgress = 0
  /\ pc = "loop"

Half(s) == SubSeq(s, 1, Len(s) \div 2)

(* what pass iter % 5 can make of the current input *)
Reductions(pass, s) ==
  CASE pass = 0 -> {Front(s)}
    [] pass = 1 -> {Tail(s)}
    [] pass = 2 -> {RemoveAt(s, k) : k \in DOMAIN s}
    [] pass = 3 -> {[s EXCEPT ![k] = Zero] : k \in DOMAIN s}
    [] pass = 4 -> {Half(s)}

Stalled == noProgress >= StallLimit

(* Mutant: an input of one byte is cut as well. *)
Finished_NotByLength == Stalled \/ iter = MaxIters

(* the two reasons to break, and the end of the range *)
Finished == Len(current) <= 1 \/ Stalled \/ iter = MaxIters

Reduce ==
  /\ pc = "loop" /\ ~Finished
  /\ candidate' \in Reductions(iter % 5, current)
  /\ pc' = "run"
  /\ UNCHANGED <<target, original, current, iter, noProgress>>

(* Mutant: an accepted candidate is tried on by the same pass. *)
Accept_SamePass ==
  /\ pc = "run"
  /\ candidate # <<>> /\ "crash" \in target[candidate]
  /\ current' = candidate
  /\ noProgress' = 0
  /\ pc' = "loop"
  /\ UNCHANGED <<target, original, candidate, iter>>

(* Mutant: the failures before a success count on. *)
Accept_CountsOn ==
  /\ pc = "run"
  /\ candidate # <<>> /\ "crash" \in target[candidate]
  /\ current' = candidate
  /\ iter' = iter + 1
  /\ pc' = "loop"
  /\ UNCHANGED <<target, original, candidate, noProgress>>

(* Mutant: any run that returns is a success. *)
Accept_AnyEnding ==
  /\ pc = "run"
  /\ candidate # <<>>
  /\ current' = candidate
  /\ noProgress' = 0
  /\ iter' = iter + 1
  /\ pc' = "loop"
  /\ UNCHANGED <<target, original, candidate>>

(* the candidate crashes *)
Accept ==
  /\ pc = "run"
  /\ candidate # <<>> /\ "crash" \in target[candidate]
  /\ current' = candidate
  /\ noProgress' = 0
  /\ iter' = iter + 1
  /\ pc' = "loop"
  /\ UNCHANGED <<target, original, candidate>>

(* it is empty, or ends otherwise *)
Reject ==
  /\ pc = "run"
  /\ candidate = <<>> \/ "other" \in target[candidate]
  /\ noProgress' = noProgress + 1
  /\ iter' = iter + 1
  /\ pc' = "loop"
  /\ UNCHANGED <<target, original, current, candidate>>

(* the result is printed and written to minimized_<id>.bin *)
Finish ==
  /\ pc = "loop" /\ Finished
  /\ pc' = "done"
  /\ UNCHANGED <<target, original, current, candidate, iter, noProgress>>

Done == pc = "done" /\ UNCHANGED vars

Next == Reduce \/ Accept \/ Reject \/ Finish \/ Done

(* The command is one sequential task.  That each run of the target ends   *)
(* is an assumption on the harness: true of FileHarness by its timeout, of *)
(* StdinHarness, which is the default, for inputs its pipe holds.          *)
Spec == Init /\ [][Next]_vars /\ WF_vars(Reduce \/ Accept \/ Reject \/ Finish)

-----------------------------------------------------------------------------
(* Properties.                                                             *)

(* Types; no candidate is ever empty, so every pass costs a run. *)
TypeOK ==
  /\ target \in Targets
  /\ original \in Originals
  /\ {current, candidate} \subseteq Inputs
  /\ Len(original) > 0 => current # <<>> /\ candidate # <<>>
  /\ iter \in 0 .. MaxIters
  /\ noProgress \in 0 .. StallLimit
  /\ pc \in {"loop", "run", "done"}

(* s is t with bytes removed and bytes zeroed: each byte of s comes from a *)
(* place of t, and the places keep their order.                            *)
IsThinned(s, t) ==
  \E from \in [DOMAIN s -> DOMAIN t] :
    /\ \A j, k \in DOMAIN s : j < k => from[j] < from[k]
    /\ \A k \in DOMAIN s : s[k] \in {t[from[k]], Zero}

(* "Delta-minimize": whatever passes succeeded in whatever order, the      *)
(* result is the recorded input with bytes removed or zeroed, nothing is   *)
(* moved, repeated or made up.                                             *)
ResultIsFromTheRecord == IsThinned(current, original)

(* A result that differs from the recorded input has crashed the target.   *)
ResultCrashes == current = original \/ "crash" \in target[current]

(* Whatever passes were taken, the result is a cut of the record that the  *)
(* target crashed on.                                                      *)
ResultIsReal == ResultIsFromTheRecord /\ ResultCrashes

(* A target is predictable if each of its inputs always ends the same way. *)
Predictable == \A i \in Inputs : target[i] # Endings

(* On a predictable target, giving up after StallLimit failures in a row   *)
(* means that no cut at an end helps any more: the failures cover all      *)
(* passes since the last success, whichever pass that was.                 *)
StalledMeansNoCutHelps ==
  (pc = "done" /\ Stalled /\ Len(current) > 1 /\ Predictable) =>
     \A cut \in {Front(current), Tail(current), Half(current)} :
        "crash" \notin target[cut]

(* Minimizing ends if its runs do: by its limit of iterations when nothing *)
(* else stops it, as zeroing a byte that is zero already counts as         *)
(* progress and can repeat without end.                                    *)
MinimizingEnds == <>(pc = "done")
=============================================================================

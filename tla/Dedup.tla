------------------------------- MODULE Dedup --------------------------------
(***************************************************************************)
(* Execution statuses, and the two functions of a status the crash triage  *)
(* is built on: the signature two crashes must share to count as the same  *)
(* bug (phaedra-core/src/dedup.rs) and the severity a crash is filed under *)
(* (phaedra-core/src/triage.rs).                                           *)
(*                                                                         *)
(* A key in the code is a string with a distinct prefix per case           *)
(* ("signal_", "crash_", "error_"); here it is a record with a distinct    *)
(* field per case.  The FNV-64 hash inside two of the keys is taken to be  *)
(* collision free, so the hashed bytes stand for the hash.                 *)
(***************************************************************************)
EXTENDS Naturals

CONSTANTS
  Inputs,      \* byte strings handed to the target
  HeadOf,      \* HeadOf[i]: the first 32 bytes of input i
  Signals,     \* numbers of the signals that can end the target
  Messages     \* texts of harness errors

NoSignal == 0  \* signal: None

ASSUME DedupAssumption == Signals \subseteq Nat \ {NoSignal}

Ok         == [kind |-> "ok"]
Timeout    == [kind |-> "timeout"]
Crash(sig) == [kind |-> "crash", signal |-> sig]
Error(msg) == [kind |-> "error", message |-> msg]

(* what a target that exits by itself ends with, and what counts as a crash *)
ExitStatuses  == {Ok} \union {Crash(sig) : sig \in Signals \union {NoSignal}}
CrashStatuses == {Crash(sig) : sig \in Signals \union {NoSignal}}
                   \union {Error(m) : m \in Messages}

(* Mutant: all signals share one key. *)
Signature_WithoutNumber(status, input) ==
  IF status.kind = "crash" THEN [signal |-> NoSignal] ELSE [fixed |-> status.kind]

(* CrashSignature::from_status *)
Signature(status, input) ==
  CASE status.kind = "crash" /\ status.signal # NoSignal
         -> [signal |-> status.signal]
    [] status.kind = "crash" /\ status.signal = NoSignal
         -> [head |-> HeadOf[input]]
    [] status.kind = "error"   -> [message |-> status.message]
    [] status.kind = "timeout" -> [fixed |-> "timeout"]
    [] status.kind = "ok"      -> [fixed |-> "ok"]

Severities == {"CRITICAL", "HIGH", "MEDIUM", "LOW", "TIMEOUT"}

(* Severity::from_status *)
Severity(status) ==
  CASE status.kind = "crash" /\ status.signal \in {6, 11} -> "CRITICAL"
    [] status.kind = "crash" /\ status.signal \in {4, 8}  -> "HIGH"
    [] status.kind = "crash" /\ status.signal \notin {4, 6, 8, 11, NoSignal}
         -> "MEDIUM"
    [] status.kind = "crash" /\ status.signal = NoSignal -> "LOW"
    [] status.kind = "timeout" -> "TIMEOUT"
    [] status.kind \in {"error", "ok"} -> "LOW"
=============================================================================

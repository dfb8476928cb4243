---------------------------- MODULE SharedStores ----------------------------
(***************************************************************************)
(* Several campaigns, each a process of its own, on one corpus database    *)
(* and one crash directory (run_campaign, phaedra-core/src/lib.rs): how    *)
(* they fill an empty corpus from a language model, and how they record    *)
(* the crashes they meet.  Each SQL statement is a step: nothing in the    *)
(* code makes two of them one transaction.  A process may end between any  *)
(* two steps and be started again.                                         *)
(*                                                                         *)
(* What one campaign does with its inputs is the matter of module          *)
(* Campaign; here fuzzing only meets crashes.                              *)
(***************************************************************************)
EXTENDS Seeds

CONSTANTS
  Campaigns, Signatures, None,  \* see module Ledger
  Replies,      \* what a language model may answer with
  Fallback,     \* the seed b"phaedra"
  MaxLaunches,  \* bound of the model: process starts
  MaxCrashes    \* bound of the model: crashes met

ASSUME SharedStoresAssumption ==
  /\ None \notin Signatures
  /\ MaxLaunches \in Nat /\ MaxCrashes \in Nat
  /\ \A r \in Replies : r \in Seq(Range(r))

VARIABLES
  corpus,    \* data of the stored seeds; the column hash is UNIQUE
  hits,      \* hits[s]: hit_count of the row of s, 0 when there is none
  files,     \* files[s]: crash files saved for s
  bills,     \* rows of llm_calls
  pc,        \* pc[p]: where p is in run_campaign
  todo,      \* todo[p]: seeds p has yet to store
  reply,     \* reply[p]: the answer p has parsed and not yet paid for
  crash,     \* crash[p]: signature of the crash p is recording
  launches, crashes,  \* history: starts of a process, crashes met
  promised   \* history: promised[p]: the seeds p set out to store

stores  == <<corpus, hits, files, bills>>
locals  == <<pc, todo, reply, crash>>
history == <<launches, crashes, promised>>
vars    == <<stores, locals, history>>

Init ==
  /\ corpus = {} /\ bills = 0
  /\ hits = [s \in Signatures |-> 0] /\ files = [s \in Signatures |-> 0]
  /\ pc = [p \in Campaigns |-> "off"]
  /\ todo = [p \in Campaigns |-> <<>>] /\ reply = [p \in Campaigns |-> <<>>]
  /\ crash = [p \in Campaigns |-> None]
  /\ launches = 0 /\ crashes = 0 /\ promised = [p \in Campaigns |-> {}]

Goto(p, label) == pc' = [pc EXCEPT ![p] = label]

(* process exit: memory is gone, the stores stay *)
End(p) ==
  /\ pc' = [pc EXCEPT ![p] = "off"]
  /\ todo' = [todo EXCEPT ![p] = <<>>] /\ reply' = [reply EXCEPT ![p] = <<>>]
  /\ crash' = [crash EXCEPT ![p] = None]
  /\ promised' = [promised EXCEPT ![p] = {}]
  /\ UNCHANGED <<launches, crashes>>

-----------------------------------------------------------------------------
(* Filling the corpus                                                      *)

Launch(p) ==
  /\ pc[p] = "off" /\ launches < MaxLaunches
  /\ launches' = launches + 1
  /\ Goto(p, "check")
  /\ UNCHANGED <<stores, todo, reply, crash, crashes, promised>>

(* is_empty: what it says may be out of date by the time it is acted upon *)
SeesSeeds(p) ==
  /\ pc[p] = "check" /\ corpus # {}
  /\ Goto(p, "fuzz")
  /\ UNCHANGED <<stores, todo, reply, crash, history>>

SeesNone(p) ==
  /\ pc[p] = "check" /\ corpus = {}
  /\ Goto(p, "ask")
  /\ UNCHANGED <<stores, todo, reply, crash, history>>

SetOutToStore(p, seeds) ==
  /\ todo' = [todo EXCEPT ![p] = seeds]
  /\ promised' = [promised EXCEPT ![p] = Range(seeds)]

(* no description was given, the client is not available, or chat fails *)
GetsNothing(p) ==
  /\ pc[p] = "ask"
  /\ SetOutToStore(p, <<Fallback>>)
  /\ Goto(p, "seed")
  /\ UNCHANGED <<stores, reply, crash, launches, crashes>>

(* the reply is parsed inside generate_seeds_with_client *)
GetsReply(p) ==
  /\ pc[p] = "ask"
  /\ \E r \in Replies :
       /\ ~Parse(r).panics
       /\ SetOutToStore(p, IF Parse(r).seeds = <<>> THEN <<Fallback>> ELSE Parse(r).seeds)
       /\ reply' = [reply EXCEPT ![p] = r]
  /\ Goto(p, "bill")
  /\ UNCHANGED <<stores, crash, launches, crashes>>

(* a panic of decode_hex ends the campaign; the call is never recorded *)
ReplyPanics(p) ==
  /\ pc[p] = "ask"
  /\ \E r \in Replies : Parse(r).panics
  /\ End(p)
  /\ UNCHANGED stores

(* CostTracker::record, when the tracker could be opened; that it fails is *)
(* a warning                                                               *)
RecordCall(p) ==
  /\ pc[p] = "bill"
  /\ bills' \in {bills, bills + 1}
  /\ reply' = [reply EXCEPT ![p] = <<>>]
  /\ Goto(p, "seed")
  /\ UNCHANGED <<corpus, hits, files, todo, crash, history>>

(* Mutant: the first duplicate ends the loop. *)
AddSeed_StopsAtDuplicate(p) ==
  /\ pc[p] = "seed"
  /\ corpus' = corpus \union {Head(todo[p])}
  /\ todo' = [todo EXCEPT ![p] = IF Head(@) \in corpus THEN <<>> ELSE Tail(@)]
  /\ Goto(p, IF todo'[p] = <<>> THEN "fuzz" ELSE "seed")
  /\ UNCHANGED <<hits, files, bills, reply, crash, history>>

(* one add_seed: a UNIQUE error only means the seed is there already *)
AddSeed(p) ==
  /\ pc[p] = "seed"
  /\ corpus' = corpus \union {Head(todo[p])}
  /\ todo' = [todo EXCEPT ![p] = Tail(@)]
  /\ Goto(p, IF todo'[p] = <<>> THEN "fuzz" ELSE "seed")
  /\ UNCHANGED <<hits, files, bills, reply, crash, history>>

-----------------------------------------------------------------------------
(* Recording a crash                                                       *)

MeetCrash(p) ==
  /\ pc[p] = "fuzz" /\ crashes < MaxCrashes
  /\ crashes' = crashes + 1
  /\ \E s \in Signatures : crash' = [crash EXCEPT ![p] = s]
  /\ Goto(p, "select")
  /\ UNCHANGED <<stores, todo, reply, launches, promised>>

(* SELECT id ... WHERE signature_key = ?1 *)
Select(p) ==
  /\ pc[p] = "select"
  /\ Goto(p, IF hits[crash[p]] > 0 THEN "update" ELSE "insert")
  /\ UNCHANGED <<stores, todo, reply, crash, history>>

(* UPDATE ... SET hit_count = hit_count + 1: no read to become stale *)
Update(p) ==
  /\ pc[p] = "update"
  /\ hits' = [hits EXCEPT ![crash[p]] = @ + 1]
  /\ crash' = [crash EXCEPT ![p] = None]
  /\ Goto(p, "fuzz")
  /\ UNCHANGED <<corpus, files, bills, todo, reply, history>>

(* Mutant: INSERT OR REPLACE, which starts the count again. *)
Insert_OrReplace(p) ==
  /\ pc[p] = "insert"
  /\ hits' = [hits EXCEPT ![crash[p]] = 1]
  /\ Goto(p, "save")
  /\ UNCHANGED <<corpus, files, bills, todo, reply, crash, history>>

(* INSERT of a signature that is still new *)
Insert(p) ==
  /\ pc[p] = "insert" /\ hits[crash[p]] = 0
  /\ hits' = [hits EXCEPT ![crash[p]] = 1]
  /\ Goto(p, "save")
  /\ UNCHANGED <<corpus, files, bills, todo, reply, crash, history>>

(* another campaign was faster: the UNIQUE error goes up through           *)
(* run_campaign, and the campaign ends                                     *)
InsertFails(p) ==
  /\ pc[p] = "insert" /\ hits[crash[p]] > 0
  /\ End(p)
  /\ UNCHANGED stores

(* save_crash: the file name holds the time, so no file is overwritten *)
SaveCrash(p) ==
  /\ pc[p] = "save"
  /\ files' = [files EXCEPT ![crash[p]] = @ + 1]
  /\ crash' = [crash EXCEPT ![p] = None]
  /\ Goto(p, "fuzz")
  /\ UNCHANGED <<corpus, hits, bills, todo, reply, history>>

-----------------------------------------------------------------------------
(* the process is killed or an operation of it fails; the limit or Ctrl-C  *)
(* end it in the same way at "fuzz"                                        *)
Die(p) ==
  /\ pc[p] # "off"
  /\ End(p)
  /\ UNCHANGED stores

Next == \E p \in Campaigns :
  \/ Launch(p) \/ SeesSeeds(p) \/ SeesNone(p) \/ GetsNothing(p) \/ GetsReply(p)
  \/ ReplyPanics(p) \/ RecordCall(p) \/ AddSeed(p)
  \/ MeetCrash(p) \/ Select(p) \/ Update(p) \/ Insert(p) \/ InsertFails(p)
  \/ SaveCrash(p) \/ Die(p)

Spec == Init /\ [][Next]_vars

-----------------------------------------------------------------------------
Recording == {"select", "update", "insert"}

(* A crash file is saved once for its signature; the locals of a campaign  *)
(* are those of where it is.                                               *)
TypeOK ==
  /\ hits \in [Signatures -> Nat] /\ files \in [Signatures -> {0, 1}]
  /\ bills \in Nat
  /\ launches \in 0 .. MaxLaunches /\ crashes \in 0 .. MaxCrashes
  /\ pc \in [Campaigns -> {"off", "check", "ask", "bill", "seed", "fuzz",
                           "select", "update", "insert", "save"}]
  /\ crash \in [Campaigns -> Signatures \union {None}]
  /\ \A p \in Campaigns :
       /\ crash[p] # None <=> pc[p] \in Recording \union {"save"}
       /\ todo[p] # <<>> <=> pc[p] \in {"bill", "seed"}
       /\ reply[p] # <<>> => pc[p] = "bill"

(* What the next step of a campaign finds in the directory, whatever the   *)
(* others did since it last looked: the row to update is there, the file   *)
(* to save has not been saved and no other campaign is about to.           *)
SavesAreDue ==
  /\ \A s \in Signatures : files[s] = 1 => hits[s] > 0
  /\ \A p \in Campaigns : pc[p] = "update" => hits[crash[p]] > 0
  /\ \A p \in Campaigns : pc[p] = "save" => hits[crash[p]] > 0 /\ files[crash[p]] = 0
  /\ \A p, q \in Campaigns :
       pc[p] = "save" /\ pc[q] = "save" /\ crash[p] = crash[q] => p = q

(* Refinement: sharing the directory keeps the promise of module Ledger,   *)
(* though SELECT and INSERT are two statements and the loser of a race     *)
(* ends (CrashTriageDb::record, save_crash).                               *)
L == INSTANCE Ledger WITH
       count <- hits,
       held  <- [p \in Campaigns |-> IF pc[p] \in Recording THEN crash[p] ELSE None],
       owed  <- [p \in Campaigns |-> IF pc[p] = "save" THEN crash[p] ELSE None],
       filed <- {s \in Signatures : files[s] > 0}

LedgerSpec == L!Spec

(* Every object of a reply that is complete and has valid hex becomes a    *)
(* seed, and nothing else does, though the model may wrap the array in     *)
(* prose, break the format or be cut off.  Objects are missed only when a  *)
(* string holds a brace or one brace is opened after another, or when they *)
(* lie outside the brackets that enclose an array.                         *)
Spans(r)     == {p \in (DOMAIN r) \X (DOMAIN r) : IsObject(SubSeq(r, p[1], p[2]))}
ObjectsIn(r) == {SubSeq(r, p[1], p[2]) : p \in Spans(r)}
SeedsIn(r)   == {HexOf(s) : s \in {obj \in ObjectsIn(r) : HexMembers(obj) # {}}}
ValidIn(r)   == {h \in SeedsIn(r) : Decode(h) = "valid"}

BracesMislead(r) ==
  \/ \E k \in DOMAIN r : r[k].kind \in {"quoted_lbrace", "quoted_rbrace"}
  \/ \E k, l \in Opens(r) : k < l /\ \A m \in Closes(r) : ~(k < m /\ m < l)

BracketsMislead(r) == IsArray(Bracketed(r)) /\ ObjectsIn(Bracketed(r)) # ObjectsIn(r)

ReplyIsUsed == \A p \in Campaigns : reply[p] # <<>> =>
  /\ Range(todo[p]) \subseteq ValidIn(reply[p]) \/ todo[p] = <<Fallback>>
  /\ \/ ValidIn(reply[p]) \subseteq Range(todo[p])
     \/ BracesMislead(reply[p]) \/ BracketsMislead(reply[p])

(* A campaign fuzzes with a corpus that is not empty and has all it set    *)
(* out to store, whatever other campaigns stored meanwhile; and the calls  *)
(* recorded are at most one for each start (the bootstrap of run_campaign).*)
BootstrapIsWhole ==
  /\ \A p \in Campaigns : pc[p] \in {"fuzz", "save"} \union Recording =>
       corpus # {} /\ promised[p] \subseteq corpus
  /\ bills <= launches
=============================================================================

--------------------------- MODULE CampaignProofs ---------------------------
(***************************************************************************)
(* Proofs about module Campaign, for every target, every limit and any     *)
(* number of restarts: first about the loop, its budget and its dashboard, *)
(* then about what it leaves on disk; at the end about module FuzzLoop,    *)
(* in which the campaign drives FileHarness.                               *)
(***************************************************************************)
EXTENDS FuzzLoop, FiniteSetTheorems, SequenceTheorems, TLAPS

-----------------------------------------------------------------------------
(* Lemmas on the operators of the model.                                   *)

(* Replacing one element of a sequence keeps its type, length and domain. *)
LEMMA ReplaceInSeq ==
  ASSUME NEW S, NEW s \in Seq(S), NEW k \in DOMAIN s, NEW x \in S
  PROVE  /\ [s EXCEPT ![k] = x] \in Seq(S)
         /\ DOMAIN [s EXCEPT ![k] = x] = DOMAIN s
         /\ Len([s EXCEPT ![k] = x]) = Len(s)
         /\ [s EXCEPT ![k] = x][k] = x
         /\ \A j \in DOMAIN s \ {k} : [s EXCEPT ![k] = x][j] = s[j]
OBVIOUS

(* A list of the dashboard stays a list of its type. *)
LEMMA PushRecentType ==
  ASSUME NEW S, NEW list \in Seq(S), NEW x \in S
  PROVE  PushRecent(list, x) \in Seq(S)
<1>1. CASE Len(list) < RecentCap
  BY <1>1 DEF PushRecent
<1>2. CASE ~(Len(list) < RecentCap)
  <2>1. list # <<>>
    BY <1>2, CampaignAssumption
  <2>2. Tail(list) \in Seq(S)
    BY <2>1
  <2> QED
    BY <1>2, <2>2 DEF PushRecent
<1> QED
  BY <1>1, <1>2

(* What a harness may return is well formed. *)
LEMMA ResultsType ==
  ASSUME NEW i \in Inputs, NEW r \in Results(i)
  PROVE  /\ r.cov \subseteq Covers[i] /\ r.cov \subseteq Edges
         /\ r.status.kind \in {"ok", "timeout", "crash", "error"}
         /\ r.status.kind \in {"crash", "error"} => r.status \in CrashStatuses
<1>1. Covers[i] \subseteq Edges
  BY CampaignAssumption
<1>2. CASE \E s \in Exits[i], c \in {Covers[i], {}} : r = [status |-> s, cov |-> c]
  <2>1. PICK s \in Exits[i], c \in {Covers[i], {}} : r = [status |-> s, cov |-> c]
    BY <1>2
  <2>2. s \in ExitStatuses
    BY CampaignAssumption
  <2>3. CASE s = Ok
    BY <1>1, <2>1, <2>3 DEF Ok
  <2>4. CASE \E sig \in Signals \union {NoSignal} : s = Crash(sig)
    <3>1. s.kind = "crash" /\ s \in CrashStatuses
      BY <2>4 DEF Crash, CrashStatuses
    <3> QED
      BY <1>1, <2>1, <3>1
  <2> QED
    BY <2>2, <2>3, <2>4 DEF ExitStatuses
<1>3. CASE r = [status |-> Timeout, cov |-> {}]
  BY <1>3 DEF Timeout
<1>4. CASE \E m \in Messages : r = [status |-> Error(m), cov |-> {}]
  BY <1>4 DEF Error, CrashStatuses
<1> QED
  BY <1>2, <1>3, <1>4 DEF Results

(* The signature and the severity a crash is filed under are well formed. *)
LEMMA FilingType ==
  ASSUME NEW s \in CrashStatuses, NEW i \in Inputs
  PROVE  Signature(s, i) \in Keys /\ Severity(s) \in Severities
<1>1. Signature(s, i) \in Keys
  BY DEF Keys
<1>2. CASE \E sig \in Signals \union {NoSignal} : s = Crash(sig)
  <2>1. PICK sig \in Signals \union {NoSignal} : s = Crash(sig)
    BY <1>2
  <2>2. s.kind = "crash" /\ s.signal = sig /\ sig \in Nat
    BY <2>1, DedupAssumption DEF Crash, NoSignal
  <2>3. \/ s.signal \in {6, 11} \/ s.signal \in {4, 8} \/ s.signal = NoSignal
        \/ s.signal \notin {4, 6, 8, 11, NoSignal}
    OBVIOUS
  <2> QED
    BY <1>1, <2>2, <2>3 DEF Severity, Severities, NoSignal
<1>3. CASE \E m \in Messages : s = Error(m)
  BY <1>1, <1>3 DEF Error, Severity, Severities
<1> QED
  BY <1>1, <1>2, <1>3 DEF CrashStatuses

(* More inputs run through no fewer edges. *)
LEMMA EdgesOfMonotone ==
  ASSUME NEW S, NEW T, S \subseteq T
  PROVE  EdgesOf(S) \subseteq EdgesOf(T)
BY DEF EdgesOf

-----------------------------------------------------------------------------
(* Type correctness.                                                       *)

(* The memory of a new process is well typed. *)
LEMMA WipedMemoryType ==
  ASSUME CountersTypeOK, WipeMemory
  PROVE  /\ tracker' \in [seen : SUBSET Edges, total : Nat]
         /\ stats' \in Stats /\ live' \in Live /\ rewards' \in Nat
         /\ recentFinds' \in Seq(Nat) /\ recentCrashes' \in Seq(Severities)
         /\ shutdown' \in BOOLEAN /\ spent' \in [execs : Nat, crashes : Nat]
         /\ input' \in Inputs
<1>1. spent' \in [execs : Nat, crashes : Nat]
  <2>1. /\ spent.execs \in Nat /\ spent.crashes \in Nat
        /\ stats.execs \in Nat /\ stats.crashes \in Nat
    BY DEF CountersTypeOK, Stats
  <2> QED BY <2>1 DEF WipeMemory
<1>2. tracker' \in [seen : SUBSET Edges, total : Nat] /\ stats' \in Stats
  BY DEF WipeMemory, NewTracker, NewStats, Stats
<1>3. live' \in Live /\ rewards' \in Nat
  BY DEF WipeMemory, NewLive, Live
<1>4. recentFinds' \in Seq(Nat) /\ recentCrashes' \in Seq(Severities)
  BY DEF WipeMemory
<1>5. input' \in Inputs
  BY CampaignAssumption DEF WipeMemory
<1>6. shutdown' \in BOOLEAN
  BY Zenon DEF WipeMemory
<1> QED
  BY <1>1, <1>2, <1>3, <1>4, <1>5, <1>6

(* Counting an execution, and one figure more, keeps the statistics typed. *)
LEMMA StatsType ==
  ASSUME NEW s \in Stats, NEW n \in Nat
  PROVE  /\ [s EXCEPT !.execs = @ + 1] \in Stats
         /\ [s EXCEPT !.execs = @ + 1, !.timeouts = @ + 1] \in Stats
         /\ [s EXCEPT !.execs = @ + 1, !.crashes = @ + 1] \in Stats
         /\ [s EXCEPT !.execs = @ + 1, !.interesting = @ + 1, !.edges = n] \in Stats
         /\ [s EXCEPT !.corpus = n] \in Stats
<1>1. /\ s.execs + 1 \in Nat /\ s.timeouts + 1 \in Nat
      /\ s.crashes + 1 \in Nat /\ s.interesting + 1 \in Nat
  BY DEF Stats
<1> QED
  BY <1>1, Zenon DEF Stats

(* A step that only moves the tracker and the statistics. *)
LEMMA OtherCountersKept ==
  ASSUME CountersTypeOK, UNCHANGED <<rewards, live, recentFinds, recentCrashes,
                                     shutdown, ghosts>>,
         tracker' \in [seen : SUBSET Edges, total : Nat], stats' \in Stats
  PROVE  CountersTypeOK'
<1>1. UNCHANGED <<launches, deaths, mark, spent>>
  BY DEF ghosts
<1> QED
  BY <1>1 DEF CountersTypeOK

(* A fresh seed is a row. *)
LEMMA NewRowType ==
  ASSUME NEW data \in Inputs, NEW edges \in Nat
  PROVE  NewRow(data, edges) \in Row
BY DEF NewRow, Row

(* Counting a pick or a hit keeps a row a row, with its input and edges. *)
LEMMA RowCountType ==
  ASSUME NEW r \in Row
  PROVE  /\ [r EXCEPT !.picks = @ + 1] \in Row
         /\ [r EXCEPT !.hits = @ + 1] \in Row
         /\ [r EXCEPT !.picks = @ + 1].data = r.data
         /\ [r EXCEPT !.hits = @ + 1].data = r.data
         /\ [r EXCEPT !.picks = @ + 1].edges = r.edges
         /\ [r EXCEPT !.hits = @ + 1].edges = r.edges
<1>1. r.picks + 1 \in Nat /\ r.hits + 1 \in Nat
  BY DEF Row
<1> QED
  BY <1>1, Zenon DEF Row

(* Before the first launch everything is well typed.                       *)
LEMMA InitTyped ==
  ASSUME Init
  PROVE  TypeOK
<1>1. DiskTypeOK
  BY DEF Init, DiskTypeOK
<1>2. tracker \in [seen : SUBSET Edges, total : Nat] /\ stats \in Stats /\ live \in Live
  BY DEF Init, NewTracker, NewStats, NewLive, Stats, Live
<1>3. shutdown \in BOOLEAN
  BY Zenon DEF Init
<1>5. /\ recentFinds \in Seq(Nat) /\ recentCrashes \in Seq(Severities)
      /\ launches \in Nat /\ deaths \in Nat /\ rewards \in Nat
      /\ mark \in [rows : Nat, crashes : Nat] /\ spent \in [execs : Nat, crashes : Nat]
  BY DEF Init
<1>6. CountersTypeOK
  BY <1>2, <1>3, <1>5 DEF CountersTypeOK
<1>4. StageOK
  BY CampaignAssumption DEF Init, StageOK, InLoop
<1> QED
  BY <1>1, <1>4, <1>6 DEF TypeOK, Init, InLoop

(* Returning from the harness, whatever it returned. *)
LEMMA ExecuteTyped ==
  ASSUME TypeOK, Execute
  PROVE  TypeOK'
<1> USE DEF TypeOK
<1>1. PICK r \in Results(input) : Executed(r)
  BY DEF Execute
<1>2. pc = "execute" /\ result' = r /\ Returned(r)
  BY <1>1 DEF Executed, RunTimedOut, RunCrashed, RunWasBoring, RunWasInteresting, Returned
<1>3. DiskTypeOK'
  BY <1>2 DEF Returned, disk, DiskTypeOK
<1>4. /\ r.cov \subseteq Edges
      /\ r.status.kind \in {"ok", "timeout", "crash", "error"}
  BY <1>1, ResultsType DEF StageOK
<1>5. rows # <<>> /\ rows' = rows /\ base' = base /\ base \in DOMAIN rows
      /\ input' = input /\ input \in Inputs /\ pending' = pending /\ pending = <<>>
  BY <1>2 DEF Returned, disk, InLoop, StageOK
<1>6. CASE RunTimedOut(r)
  <2>1. CountersTypeOK'
    <3>1. stats' \in Stats /\ tracker' \in [seen : SUBSET Edges, total : Nat]
      BY <1>6, StatsType DEF CountersTypeOK, RunTimedOut
    <3> QED BY <1>2, <3>1, OtherCountersKept DEF Returned
  <2>2. StageOK'
    BY <1>1, <1>2, <1>5, <1>6 DEF StageOK, RunTimedOut, InLoop
  <2> QED BY <1>3, <1>5, <2>1, <2>2
<1>7. CASE RunCrashed(r)
  <2>1. CountersTypeOK'
    <3>1. stats' \in Stats /\ tracker' \in [seen : SUBSET Edges, total : Nat]
      BY <1>7, StatsType DEF CountersTypeOK, RunCrashed
    <3> QED BY <1>2, <3>1, OtherCountersKept DEF Returned
  <2>2. StageOK'
    BY <1>1, <1>2, <1>5, <1>7 DEF StageOK, RunCrashed, InLoop
  <2> QED BY <1>3, <1>5, <2>1, <2>2
<1>8. CASE RunWasBoring(r)
  <2>1. CountersTypeOK'
    <3>1. stats' \in Stats /\ tracker' \in [seen : SUBSET Edges, total : Nat]
      BY <1>8, StatsType DEF CountersTypeOK, RunWasBoring
    <3> QED BY <1>2, <3>1, OtherCountersKept DEF Returned
  <2>2. StageOK'
    BY <1>1, <1>2, <1>5, <1>8 DEF StageOK, RunWasBoring, InLoop
  <2> QED BY <1>3, <1>5, <2>1, <2>2
<1>9. CASE RunWasInteresting(r)
  <2>1. Cardinality(Fresh(r)) \in Nat
    <3>1. Fresh(r) \subseteq Edges
      BY <1>4 DEF Fresh
    <3>2. IsFiniteSet(Fresh(r))
      BY <3>1, FS_Subset, CampaignAssumption
    <3> QED BY <3>2, FS_CardinalityType
  <2>2. tracker' \in [seen : SUBSET Edges, total : Nat]
    BY <1>4, <1>9, <2>1 DEF RunWasInteresting, CountersTypeOK
  <2>3. CountersTypeOK'
    <3>1. stats' \in Stats
      BY <1>9, <2>2, StatsType DEF CountersTypeOK, RunWasInteresting
    <3> QED BY <1>2, <2>2, <3>1, OtherCountersKept DEF Returned
  <2>4. StageOK'
    BY <1>1, <1>2, <1>5, <1>9 DEF StageOK, RunWasInteresting, InLoop
  <2> QED BY <1>3, <1>5, <2>3, <2>4
<1> QED
  BY <1>1, <1>6, <1>7, <1>8, <1>9 DEF Executed

(* A launch starts with a typed memory, and leaves an empty corpus to      *)
(* seeding.                                                                *)
LEMMA LaunchTyped ==
  ASSUME TypeOK, Launch
  PROVE  TypeOK'
<1> USE DEF TypeOK
<1>1. rows' = rows /\ DiskTypeOK'
  BY DEF Launch, disk, DiskTypeOK
<1>2. CountersTypeOK'
  <2>1. mark' \in [rows : Nat, crashes : Nat]
    BY DEF Launch, DiskTypeOK
  <2>2. launches' \in Nat /\ deaths' \in Nat
    BY DEF Launch, CountersTypeOK
  <2> QED
    BY <2>1, <2>2, WipedMemoryType DEF Launch, CountersTypeOK
<1>3. input' \in Inputs
  BY WipedMemoryType DEF Launch
<1>4. CASE rows = <<>>
  <2>1. PICK reply \in SeedReplies :
          /\ pending' = IF reply = <<>> THEN <<Bootstrap>> ELSE reply
          /\ pc' = "seed"
    BY <1>4 DEF Launch
  <2>2. reply \in Seq(Inputs) /\ Bootstrap \in Inputs
    BY CampaignAssumption
  <2>3. pending' \in Seq(Inputs) /\ pending' # <<>>
    <3>1. CASE reply = <<>>
      BY <2>1, <2>2, <3>1
    <3>2. CASE reply # <<>>
      BY <2>1, <2>2, <3>2
    <3> QED BY <3>1, <3>2
  <2> QED
    BY <1>1, <1>2, <1>3, <2>1, <2>3 DEF StageOK, InLoop
<1>5. CASE rows # <<>>
  <2>1. pending' = <<>> /\ pc' = "loop"
    BY <1>5 DEF Launch
  <2> QED
    BY <1>1, <1>2, <1>3, <1>5, <2>1 DEF StageOK, InLoop
<1> QED
  BY <1>4, <1>5

(* Seeding inserts typed rows, and ends with a corpus that is not empty.   *)
LEMMA SeedCorpusTyped ==
  ASSUME TypeOK, SeedCorpus
  PROVE  TypeOK'
<1> USE DEF TypeOK
<1>1. pc = "seed" /\ pending \in Seq(Inputs) /\ pending # <<>>
  BY DEF SeedCorpus, StageOK
<1>2. Head(pending) \in Inputs /\ Tail(pending) \in Seq(Inputs)
  BY <1>1
<1>3. rows' \in Seq(Row) /\ rows' # <<>>
  <2>1. NewRow(Head(pending), 0) \in Row
    BY <1>2, NewRowType
  <2>2. CASE InCorpus(Head(pending))
    BY <2>2 DEF SeedCorpus, DiskTypeOK, InCorpus
  <2>3. CASE ~InCorpus(Head(pending))
    BY <2>1, <2>3 DEF SeedCorpus, DiskTypeOK
  <2> QED BY <2>2, <2>3
<1>4. DiskTypeOK'
  BY <1>3 DEF SeedCorpus, DiskTypeOK
<1>5. CountersTypeOK'
  BY DEF SeedCorpus, CountersTypeOK, ghosts
<1>6. StageOK'
  BY <1>1, <1>2 DEF SeedCorpus, StageOK, InLoop
<1> QED
  BY <1>3, <1>4, <1>5, <1>6

(* A pick charges an existing row and makes it the parent of the input.    *)
LEMMA PickTyped ==
  ASSUME TypeOK, Pick
  PROVE  TypeOK'
<1> USE DEF TypeOK
<1>1. rows # <<>> /\ pc = "loop"
  BY DEF Pick, InLoop
<1>2. PICK k \in Candidates, i \in Inputs :
        /\ rows' = [rows EXCEPT ![k].picks = @ + 1]
        /\ base' = k /\ input' = i /\ pc' = "execute"
  BY <1>1 DEF Pick
<1>3. k \in DOMAIN rows
  BY DEF Candidates
<1>4. rows' \in Seq(Row) /\ DOMAIN rows' = DOMAIN rows /\ rows' # <<>>
  <2>1. [rows[k] EXCEPT !.picks = @ + 1] \in Row
    <3>1. rows[k] \in Row
      BY <1>3 DEF DiskTypeOK
    <3> QED BY <3>1, RowCountType
  <2>2. rows' = [rows EXCEPT ![k] = [rows[k] EXCEPT !.picks = @ + 1]]
    BY <1>2
  <2> QED
    BY <1>1, <1>3, <2>1, <2>2, ReplaceInSeq DEF DiskTypeOK
<1>5. DiskTypeOK'
  BY <1>4 DEF Pick, DiskTypeOK
<1>6. CountersTypeOK'
  BY DEF Pick, CountersTypeOK, ghosts
<1>7. StageOK'
  BY <1>1, <1>2, <1>3, <1>4 DEF Pick, StageOK, InLoop
<1> QED
  BY <1>4, <1>5, <1>6, <1>7

(* Triage of a crash writes a typed row or counts a hit of one.            *)
LEMMA RecordTyped ==
  ASSUME TypeOK, CountDuplicate \/ RecordNewCrash
  PROVE  TypeOK'
<1> USE DEF TypeOK
<1>1. /\ pc = "record" /\ result \in Results(input) /\ input \in Inputs
      /\ result.status.kind \in {"crash", "error"}
  BY DEF CountDuplicate, RecordNewCrash, StageOK, InLoop
<1>2. crashes' \in Seq(CrashRow)
  <2>1. CASE CountDuplicate
    <3>1. PICK k \in DOMAIN crashes : crashes' = [crashes EXCEPT ![k].hits = @ + 1]
      BY <2>1 DEF CountDuplicate
    <3>2. crashes[k] \in CrashRow
      BY DEF DiskTypeOK
    <3>3. crashes[k].hits + 1 \in Nat
      BY <3>2 DEF CrashRow
    <3>4. [crashes[k] EXCEPT !.hits = @ + 1] \in CrashRow
      BY <3>2, <3>3, Zenon DEF CrashRow
    <3>5. crashes' = [crashes EXCEPT ![k] = [crashes[k] EXCEPT !.hits = @ + 1]]
      BY <3>1
    <3> QED BY <3>4, <3>5, ReplaceInSeq DEF DiskTypeOK
  <2>2. CASE RecordNewCrash
    <3>1. result.status \in CrashStatuses
      BY <1>1, ResultsType
    <3>2. CurrentSignature \in Keys /\ Severity(result.status) \in Severities
      BY <1>1, <3>1, FilingType DEF CurrentSignature
    <3>3. [sig |-> CurrentSignature, severity |-> Severity(result.status),
           input |-> input, hits |-> 1] \in CrashRow
      BY <1>1, <3>2 DEF CrashRow
    <3> QED BY <2>2, <3>3 DEF RecordNewCrash, DiskTypeOK
  <2> QED BY <2>1, <2>2
<1>3. UNCHANGED <<rows, files, memory, ghosts>>
  BY DEF CountDuplicate, RecordNewCrash
<1>4. DiskTypeOK' /\ CountersTypeOK'
  BY <1>2, <1>3 DEF DiskTypeOK, CountersTypeOK, memory, ghosts
<1>5. pc' \in {"publish", "save"}
  BY DEF CountDuplicate, RecordNewCrash
<1>6. rows' = rows /\ rows # <<>> /\ StageOK'
  BY <1>1, <1>3, <1>5 DEF StageOK, InLoop, memory
<1> QED
  BY <1>4, <1>6

(* Saving a crash writes a typed file entry.                               *)
LEMMA SaveTyped ==
  ASSUME TypeOK, SaveCrash
  PROVE  TypeOK'
<1> USE DEF TypeOK
<1>1. /\ pc = "save" /\ result \in Results(input) /\ input \in Inputs
      /\ result.status.kind \in {"crash", "error"}
  BY DEF SaveCrash, StageOK, InLoop
<1>2. CurrentSignature \in Keys /\ Severity(result.status) \in Severities
  <2>1. result.status \in CrashStatuses
    BY <1>1, ResultsType
  <2> QED BY <1>1, <2>1, FilingType DEF CurrentSignature
<1>3. DiskTypeOK'
  BY <1>1, <1>2 DEF SaveCrash, DiskTypeOK
<1>4. recentCrashes' \in Seq(Severities)
  BY <1>2, PushRecentType DEF SaveCrash, CountersTypeOK
<1>5. CountersTypeOK'
  BY <1>4 DEF SaveCrash, CountersTypeOK, ghosts
<1>6. rows' = rows /\ rows # <<>> /\ StageOK'
  BY <1>1 DEF SaveCrash, StageOK, InLoop
<1> QED
  BY <1>3, <1>5, <1>6

(* Storing a find keeps its parent in the corpus.                          *)
LEMMA AddSeedTyped ==
  ASSUME TypeOK, AddSeed
  PROVE  TypeOK'
<1> USE DEF TypeOK
<1>1. pc = "insert" /\ input \in Inputs /\ base \in DOMAIN rows /\ rows # <<>>
  BY DEF AddSeed, StageOK, InLoop
<1>2. tracker.total \in Nat
  BY DEF CountersTypeOK
<1>3. /\ rows' \in Seq(Row) /\ rows' # <<>> /\ base \in DOMAIN rows'
      /\ pc' \in {"publish", "credit"}
  <2>1. CASE InCorpus(input)
    BY <1>1, <2>1 DEF AddSeed, DiskTypeOK
  <2>2. CASE ~InCorpus(input)
    <3>1. NewRow(input, tracker.total) \in Row
      BY <1>1, <1>2, NewRowType
    <3> QED BY <1>1, <2>2, <3>1 DEF AddSeed, DiskTypeOK
  <2> QED BY <2>1, <2>2
<1>4. DiskTypeOK'
  BY <1>3 DEF AddSeed, DiskTypeOK
<1>5. CountersTypeOK'
  BY DEF AddSeed, CountersTypeOK, memory, ghosts
<1>6. StageOK'
  BY <1>1, <1>3 DEF AddSeed, StageOK, InLoop, memory
<1> QED
  BY <1>3, <1>4, <1>5, <1>6

(* The credit of a find goes to an existing row.                           *)
LEMMA CreditParentTyped ==
  ASSUME TypeOK, CreditParent
  PROVE  TypeOK'
<1> USE DEF TypeOK
<1>1. pc = "credit" /\ base \in DOMAIN rows /\ rows # <<>>
  BY DEF CreditParent, StageOK, InLoop
<1>2. rows' \in Seq(Row) /\ rows' # <<>> /\ DOMAIN rows' = DOMAIN rows
  <2>1. rows[base] \in Row
    BY <1>1 DEF DiskTypeOK
  <2>2. [rows[base] EXCEPT !.hits = @ + 1] \in Row
    BY <2>1, RowCountType
  <2>3. rows' = [rows EXCEPT ![base] = [rows[base] EXCEPT !.hits = @ + 1]]
    BY DEF CreditParent
  <2> QED BY <1>1, <2>2, <2>3, ReplaceInSeq DEF DiskTypeOK
<1>3. DiskTypeOK'
  BY <1>2 DEF CreditParent, DiskTypeOK
<1>4. stats' \in Stats
  <2>1. Len(rows) \in Nat
    BY DEF DiskTypeOK
  <2> QED BY <2>1, StatsType DEF CreditParent, CountersTypeOK
<1>5. recentFinds' \in Seq(Nat)
  BY PushRecentType DEF CreditParent, CountersTypeOK
<1>6. CountersTypeOK'
  BY <1>4, <1>5 DEF CreditParent, CountersTypeOK, ghosts
<1>7. StageOK'
  BY <1>1, <1>2 DEF CreditParent, StageOK, InLoop
<1> QED
  BY <1>2, <1>3, <1>6, <1>7

(* The figures copied to the dashboard are well typed.                     *)
LEMMA PublishTyped ==
  ASSUME TypeOK, Publish
  PROVE  TypeOK'
<1> USE DEF TypeOK
<1>1. pc = "publish" /\ rows # <<>> /\ rows' = rows
  BY DEF Publish, InLoop, disk
<1>2. live' \in Live
  <2>1. Len(crashes) \in Nat
    BY DEF DiskTypeOK
  <2>2. CASE stats.execs % LiveEvery = 0
    BY <2>1, <2>2 DEF Publish, CountersTypeOK, Stats, Live
  <2>3. CASE ~(stats.execs % LiveEvery = 0)
    BY <2>3 DEF Publish, CountersTypeOK
  <2> QED BY <2>2, <2>3
<1>3. DiskTypeOK'
  BY DEF Publish, DiskTypeOK, disk
<1>4. CountersTypeOK'
  BY <1>2 DEF Publish, CountersTypeOK, ghosts
<1>5. StageOK'
  BY <1>1, CampaignAssumption DEF Publish, StageOK, InLoop
<1> QED
  BY <1>1, <1>3, <1>4, <1>5

(* The steps that write nothing: leaving the loop, ctrl-c, the end of the  *)
(* process, and standing still.                                            *)
LEMMA QuietStepTyped ==
  ASSUME TypeOK, Leave \/ CtrlC \/ Die \/ UNCHANGED vars
  PROVE  TypeOK'
<1> USE DEF TypeOK
<1>1. CASE Leave
  BY <1>1 DEF Leave, disk, memory, ghosts, DiskTypeOK, CountersTypeOK, StageOK, InLoop
<1>2. CASE CtrlC
  <2>1. DiskTypeOK' /\ rows' = rows
    BY <1>2 DEF CtrlC, disk, DiskTypeOK
  <2>2. shutdown' \in BOOLEAN
    BY <1>2, Zenon DEF CtrlC
  <2>3. CountersTypeOK'
    BY <1>2, <2>2 DEF CtrlC, ghosts, CountersTypeOK
  <2>4. StageOK'
    <3>1. UNCHANGED <<rows, pc, pending, base, input, result>>
      BY <1>2 DEF CtrlC, disk
    <3> QED BY <3>1 DEF StageOK, InLoop, Results
  <2>5. rows # <<>>
    BY <1>2 DEF CtrlC
  <2> QED BY <2>1, <2>3, <2>4, <2>5
<1>3. CASE Die
  <2>1. DiskTypeOK' /\ rows' = rows /\ pc' = "down"
    BY <1>3 DEF Die, disk, DiskTypeOK
  <2>2. CountersTypeOK'
    <3>1. deaths' \in Nat /\ launches' \in Nat /\ mark' \in [rows : Nat, crashes : Nat]
      BY <1>3 DEF Die, CountersTypeOK
    <3> QED BY <1>3, <3>1, WipedMemoryType DEF Die, CountersTypeOK
  <2>3. StageOK'
    BY <1>3, <2>1, WipedMemoryType DEF Die, StageOK, InLoop
  <2> QED BY <2>1, <2>2, <2>3 DEF InLoop
<1>4. CASE UNCHANGED vars
  BY <1>4 DEF vars, disk, memory, ghosts, DiskTypeOK, CountersTypeOK, StageOK, InLoop
<1> QED
  BY <1>1, <1>2, <1>3, <1>4

(* Every variable has its type in every reachable state; in particular the *)
(* loop never finds the corpus empty and never credits a seed that is not  *)
(* there.                                                                  *)
THEOREM TypeCorrect == SafetySpec => []TypeOK
<1>1. Init => TypeOK
  BY InitTyped
<1>2. TypeOK /\ [Next]_vars => TypeOK'
  BY ExecuteTyped, LaunchTyped, SeedCorpusTyped, PickTyped, RecordTyped, SaveTyped,
     AddSeedTyped, CreditParentTyped, PublishTyped, QuietStepTyped
     DEF Next, OwnStep, Environment, Ended
<1> QED
  BY <1>1, <1>2, PTL DEF SafetySpec

-----------------------------------------------------------------------------
(* The corpus covers what the tracker has seen.                            *)

(* A step that keeps the inputs of the rows, or adds to them, and neither  *)
(* moves the tracker nor takes an input off its way to the corpus.         *)
LEMMA SeenKept ==
  ASSUME SeenEdgesAreInCorpus, tracker'.seen = tracker.seen,
         InputsOf(rows) \union (IF pc = "insert" THEN {input} ELSE {})
           \subseteq InputsOf(rows') \union (IF pc' = "insert" THEN {input'} ELSE {})
  PROVE  SeenEdgesAreInCorpus'
BY EdgesOfMonotone DEF SeenEdgesAreInCorpus

(* Counting a pick or a hit of a row changes no input. *)
LEMMA CountingKeepsInputs ==
  ASSUME DiskTypeOK, NEW k \in DOMAIN rows,
         \/ rows' = [rows EXCEPT ![k].picks = @ + 1]
         \/ rows' = [rows EXCEPT ![k].hits = @ + 1]
  PROVE  InputsOf(rows') = InputsOf(rows)
<1>1. rows[k] \in Row
  BY DEF DiskTypeOK
<1>2. PICK r \in Row : rows' = [rows EXCEPT ![k] = r] /\ r.data = rows[k].data
  BY <1>1, RowCountType
<1>3. DOMAIN rows' = DOMAIN rows /\ \A j \in DOMAIN rows : rows'[j].data = rows[j].data
  BY <1>2 DEF DiskTypeOK
<1> QED
  BY <1>3 DEF InputsOf

(* Appending a row adds its input. *)
LEMMA AppendingAddsInput ==
  ASSUME DiskTypeOK, NEW r, rows' = Append(rows, r)
  PROVE  InputsOf(rows') = InputsOf(rows) \union {r.data}
<1>1. rows \in Seq(Row) /\ Len(rows) \in Nat
  BY DEF DiskTypeOK
<1>2. /\ DOMAIN rows' = DOMAIN rows \union {Len(rows) + 1}
      /\ \A j \in DOMAIN rows : rows'[j] = rows[j]
      /\ rows'[Len(rows) + 1] = r
  BY <1>1
<1> QED
  BY <1>2 DEF InputsOf

(* Every step keeps the edges seen within the inputs of the corpus.        *)
LEMMA SeenStep ==
  ASSUME TypeOK, SeenEdgesAreInCorpus, [Next]_vars
  PROVE  SeenEdgesAreInCorpus'
<1> USE DEF TypeOK
<1>1. CASE Launch \/ Die
  BY <1>1 DEF Launch, Die, WipeMemory, NewTracker, SeenEdgesAreInCorpus
<1>2. CASE SeedCorpus
  <2>1. CASE InCorpus(Head(pending))
    BY <1>2, <2>1, SeenKept DEF SeedCorpus
  <2>2. CASE ~InCorpus(Head(pending))
    BY <1>2, <2>2, AppendingAddsInput, SeenKept DEF SeedCorpus
  <2> QED BY <2>1, <2>2
<1>3. CASE Pick
  <2>1. PICK k \in Candidates, i \in Inputs :
          rows' = [rows EXCEPT ![k].picks = @ + 1] /\ pc' = "execute"
    BY <1>3 DEF Pick, InLoop
  <2>2. k \in DOMAIN rows
    BY DEF Candidates
  <2>3. InputsOf(rows') = InputsOf(rows)
    BY <2>1, <2>2, CountingKeepsInputs
  <2> QED BY <1>3, <2>3, SeenKept DEF Pick
<1>4. CASE Execute
  <2>1. PICK r \in Results(input) : Executed(r)
    BY <1>4 DEF Execute
  <2>2. pc = "execute" /\ rows' = rows /\ input' = input /\ input \in Inputs
    BY <2>1 DEF Executed, RunTimedOut, RunCrashed, RunWasBoring, RunWasInteresting,
                Returned, disk, StageOK, InLoop
  <2>3. CASE RunWasInteresting(r)
    <3>1. r.cov \subseteq Covers[input]
      BY <2>2, ResultsType
    <3>2. tracker'.seen = tracker.seen \union r.cov /\ pc' = "insert"
      BY <2>3 DEF RunWasInteresting
    <3>3. tracker.seen \subseteq EdgesOf(InputsOf(rows))
      BY <2>2 DEF SeenEdgesAreInCorpus
    <3>4. tracker'.seen \subseteq EdgesOf(InputsOf(rows) \union {input})
      BY <3>1, <3>2, <3>3 DEF EdgesOf
    <3> QED BY <2>2, <3>2, <3>4 DEF SeenEdgesAreInCorpus
  <2>4. CASE RunTimedOut(r) \/ RunCrashed(r) \/ RunWasBoring(r)
    <3>1. UNCHANGED tracker
      BY <2>4 DEF RunTimedOut, RunCrashed, RunWasBoring
    <3> QED BY <2>2, <3>1, SeenKept
  <2> QED BY <2>1, <2>3, <2>4 DEF Executed
<1>5. CASE AddSeed
  <2>1. pc = "insert" /\ tracker' = tracker
    BY <1>5 DEF AddSeed, memory
  <2>2. CASE InCorpus(input)
    <3>1. input \in InputsOf(rows)
      BY <2>2 DEF InCorpus, InputsOf
    <3> QED BY <1>5, <2>1, <2>2, <3>1, SeenKept DEF AddSeed
  <2>3. CASE ~InCorpus(input)
    <3>1. InputsOf(rows') = InputsOf(rows) \union {input}
      BY <1>5, <2>3, AppendingAddsInput DEF AddSeed, NewRow
    <3> QED BY <1>5, <2>1, <3>1, SeenKept DEF AddSeed
  <2> QED BY <2>2, <2>3
<1>6. CASE CreditParent
  <2>1. base \in DOMAIN rows /\ pc = "credit"
    BY <1>6 DEF CreditParent, StageOK, InLoop
  <2>2. InputsOf(rows') = InputsOf(rows)
    BY <1>6, <2>1, CountingKeepsInputs DEF CreditParent
  <2> QED BY <1>6, <2>1, <2>2, SeenKept DEF CreditParent
<1>7. CASE CountDuplicate \/ RecordNewCrash \/ SaveCrash \/ Publish \/ Leave
  <2>1. UNCHANGED <<rows, tracker>> /\ pc # "insert"
    BY <1>7 DEF CountDuplicate, RecordNewCrash, SaveCrash, Publish, Leave, disk, memory
  <2> QED BY <2>1, SeenKept
<1>8. CASE CtrlC \/ UNCHANGED vars
  <2>1. UNCHANGED <<rows, tracker, pc, input>>
    BY <1>8 DEF CtrlC, vars, disk, memory
  <2> QED BY <2>1, SeenKept
<1> QED
  BY <1>1, <1>2, <1>3, <1>4, <1>5, <1>6, <1>7, <1>8
     DEF Next, OwnStep, Environment, Ended

(* Every edge the tracker will never again find new is one some stored     *)
(* input runs through, however the campaign is interrupted: no new edge is *)
(* ever forgotten.                                                         *)
THEOREM CorpusCoversSeenEdges == SafetySpec => []SeenEdgesAreInCorpus
<1>1. Init => SeenEdgesAreInCorpus
  BY DEF Init, NewTracker, SeenEdgesAreInCorpus
<1>2. TypeOK /\ SeenEdgesAreInCorpus /\ [Next]_vars => SeenEdgesAreInCorpus'
  BY SeenStep
<1> QED
  BY <1>1, <1>2, TypeCorrect, PTL DEF SafetySpec

-----------------------------------------------------------------------------
(* The budget of executions.                                               *)

(* No step runs the target once more than the limit allows, or leaves the  *)
(* loop early without being asked to.                                      *)
LEMMA BudgetStep ==
  ASSUME TypeOK, BudgetIsExact, [Next]_vars
  PROVE  BudgetIsExact'
<1> SUFFICES ASSUME MaxExecs > 0
             PROVE  /\ stats'.execs + OneWhile("execute")' <= MaxExecs
                    /\ pc' = "done" /\ ~shutdown' => stats'.execs = MaxExecs
  BY DEF BudgetIsExact
<1>1. /\ MaxExecs \in Nat /\ stats \in Stats /\ stats.execs \in Nat
      /\ stats.execs + OneWhile("execute") <= MaxExecs
      /\ pc = "done" /\ ~shutdown => stats.execs = MaxExecs
  BY CampaignAssumption DEF TypeOK, CountersTypeOK, Stats, BudgetIsExact
<1> USE DEF OneWhile
<1>2. CASE Launch \/ Die
  <2>1. stats'.execs = 0 /\ pc' \in {"seed", "loop", "down"}
    BY <1>2 DEF Launch, Die, WipeMemory, NewStats
  <2> QED BY <1>1, <2>1
<1>3. CASE Pick
  BY <1>1, <1>3 DEF Pick, LimitReached, TypeOK, InLoop
<1>4. CASE Execute
  <2>1. PICK r \in Results(input) : Executed(r)
    BY <1>4 DEF Execute
  <2>2. stats'.execs = stats.execs + 1 /\ pc = "execute"
    BY <1>1, <2>1 DEF Executed, RunTimedOut, RunCrashed, RunWasBoring,
                      RunWasInteresting, Returned, Stats
  <2>3. pc' \in {"publish", "record", "insert"}
    BY <2>1 DEF Executed, RunTimedOut, RunCrashed, RunWasBoring, RunWasInteresting
  <2> QED BY <1>1, <2>2, <2>3
<1>5. CASE Leave
  BY <1>1, <1>5 DEF Leave, LimitReached, memory
<1>6. CASE SeedCorpus \/ CountDuplicate \/ RecordNewCrash \/ SaveCrash \/ AddSeed \/ Publish
  <2>1. stats' = stats /\ pc' \in {"seed", "loop", "publish", "save", "credit"}
    BY <1>6 DEF SeedCorpus, CountDuplicate, RecordNewCrash, SaveCrash, AddSeed, Publish, memory
  <2> QED BY <1>1, <2>1
<1>7. CASE CreditParent
  <2>1. stats'.execs = stats.execs /\ pc' = "publish"
    BY <1>1, <1>7 DEF CreditParent, Stats
  <2> QED BY <1>1, <2>1
<1>8. CASE CtrlC
  BY <1>1, <1>8 DEF CtrlC, InLoop
<1>9. CASE UNCHANGED vars
  BY <1>1, <1>9 DEF vars, memory
<1> QED
  BY <1>2, <1>3, <1>4, <1>5, <1>6, <1>7, <1>8, <1>9 DEF Next, OwnStep, Environment, Ended

(* --max-execs: a campaign that ends by itself has run the target exactly  *)
(* that often, whatever the executions ended with, and none runs it more.  *)
THEOREM BudgetIsMet == SafetySpec => []BudgetIsExact
<1>1. Init => BudgetIsExact
  BY CampaignAssumption DEF Init, NewStats, BudgetIsExact, OneWhile
<1>2. TypeOK /\ BudgetIsExact /\ [Next]_vars => BudgetIsExact'
  BY BudgetStep
<1> QED
  BY <1>1, <1>2, TypeCorrect, PTL DEF SafetySpec

-----------------------------------------------------------------------------
(* The figures of the dashboard.                                           *)

(* The figures are copied at multiples of LiveEvery only. *)
CopyIsAligned == live.execs % LiveEvery = 0

(* The figures of the process hang together. *)
CountsTogether ==
  /\ stats.edges = tracker.total /\ stats.interesting <= stats.edges
  /\ stats.interesting + stats.crashes + stats.timeouts <= stats.execs

(* How far the dashboard may lag behind at each stage of an iteration. *)
LagIsBounded ==
  /\ live.execs <= stats.execs /\ stats.execs <= live.execs + LiveEvery
  /\ pc \in {"down", "seed", "loop", "execute"} => stats.execs < live.execs + LiveEvery

(* No figure on the dashboard is ahead of the campaign's. *)
CopyIsBehind ==
  /\ live.interesting <= stats.interesting /\ live.crashes <= stats.crashes
  /\ live.timeouts <= stats.timeouts /\ live.edges <= stats.edges
  /\ live.unique <= Len(crashes)

(* What it is behind by was executed since, and each row the triage        *)
(* database gained since was counted before.                               *)
LagIsAccounted ==
  /\ stats.interesting + stats.crashes + stats.timeouts + live.execs
       <= live.interesting + live.crashes + live.timeouts + stats.execs
  /\ live.execs > 0 => Len(crashes) + live.crashes <= live.unique + stats.crashes
  /\ live.execs > 0 /\ pc = "record" =>
       Len(crashes) + live.crashes < live.unique + stats.crashes

(* When the last update was at this very execution, nothing is behind. *)
CopyIsCurrent ==
  pc \in {"seed", "loop"} /\ stats.execs > 0 /\ live.execs = stats.execs =>
    /\ live.interesting = stats.interesting /\ live.crashes = stats.crashes
    /\ live.timeouts = stats.timeouts /\ live.edges = stats.edges
    /\ live.unique = Len(crashes)

FiguresInv ==
  /\ CopyIsAligned /\ CountsTogether /\ LagIsBounded
  /\ CopyIsBehind /\ LagIsAccounted /\ CopyIsCurrent

(* The only multiple of n from 0 up to n is 0. *)
LEMMA OnlyMultiple ==
  ASSUME NEW n \in Nat \ {0}, NEW d \in Int, 0 <= n * d, n * d < n
  PROVE  d = 0
<1>1. CASE d >= 1
  <2>1. n * d = n + n * (d - 1)
    OBVIOUS
  <2>2. n * (d - 1) >= 0
    BY <1>1
  <2> QED BY <2>1, <2>2
<1>2. CASE d <= -1
  <2>1. n * d < 0
    BY <1>2
  <2> QED BY <2>1
<1> QED BY <1>1, <1>2

LEMMA DivisionWithRest ==
  ASSUME NEW n \in Nat \ {0}, NEW a \in Nat
  PROVE  /\ a = n * (a \div n) + (a % n) /\ a \div n \in Int
         /\ a % n \in Int /\ 0 <= a % n /\ a % n < n
OBVIOUS

(* Less than n beyond a multiple of n, what is beyond is the rest. *)
LEMMA LastMultiple ==
  ASSUME NEW n \in Nat \ {0}, NEW a \in Nat, NEW b \in Nat,
         b % n = 0, b <= a, a < b + n
  PROVE  b = a - (a % n)
<1> DEFINE q == a \div n
           p == b \div n
           r == a % n
<1>1. q \in Int /\ r \in Int /\ a = n * q + r /\ 0 <= r /\ r < n
  BY DivisionWithRest
<1>2. p \in Int /\ b = n * p
  <2>1. p \in Int /\ b = n * p + (b % n)
    BY DivisionWithRest
  <2> QED BY <2>1
<1> HIDE DEF p, q, r
<1>3. q - p \in Int /\ n * (q - p) = a - b - r
  BY <1>1, <1>2
<1>4. q - p = 0
  <2>1. CASE a - b - r >= 0
    <3>1. 0 <= n * (q - p) /\ n * (q - p) < n
      BY <1>1, <1>3, <2>1
    <3> QED BY <1>3, <3>1, OnlyMultiple
  <2>2. CASE a - b - r < 0
    <3>1. p - q \in Int /\ n * (p - q) = r - (a - b)
      BY <1>1, <1>2
    <3>2. 0 <= n * (p - q) /\ n * (p - q) < n
      BY <1>1, <2>2, <3>1
    <3>3. p - q = 0
      BY <3>1, <3>2, OnlyMultiple
    <3> QED BY <1>1, <1>2, <3>3
  <2> QED BY <1>1, <2>1, <2>2
<1>5. n * (q - p) = 0
  BY <1>4
<1>6. b = a - r
  BY <1>1, <1>3, <1>5
<1> QED BY <1>6 DEF r

(* A multiple of n is followed by one n further on. *)
LEMMA NextMultiple ==
  ASSUME NEW n \in Nat \ {0}, NEW a \in Nat, a % n = 0
  PROVE  (a + n) % n = 0
<1> DEFINE q == a \div n
           p == (a + n) \div n
           r == (a + n) % n
<1>1. q \in Int /\ a = n * q + (a % n)
  BY DivisionWithRest
<1>2. p \in Int /\ r \in Int /\ a + n = n * p + r /\ 0 <= r /\ r < n
  <2>1. a + n \in Nat
    OBVIOUS
  <2> QED BY <2>1, DivisionWithRest
<1> HIDE DEF p, q, r
<1>3. n * (q + 1 - p) = r /\ q + 1 - p \in Int
  BY <1>1, <1>2
<1>4. q + 1 - p = 0
  BY <1>2, <1>3, OnlyMultiple
<1>5. n * (q + 1 - p) = 0
  BY <1>4
<1>6. r = 0
  BY <1>3, <1>5
<1> QED BY <1>6 DEF r

(* What is fresh can be counted, and is more than nothing when there is    *)
(* anything.                                                               *)
LEMMA FreshCounts ==
  ASSUME NEW i \in Inputs, NEW r \in Results(i), Fresh(r) # {}
  PROVE  Cardinality(Fresh(r)) \in Nat \ {0}
<1>1. r.cov \subseteq Edges
  BY ResultsType
<1>2. IsFiniteSet(Fresh(r))
  BY <1>1, FS_Subset, CampaignAssumption DEF Fresh
<1> QED
  BY <1>2, FS_CardinalityType, FS_EmptySet

(* What an execution does to the figures. *)
LEMMA ExecuteCounts ==
  ASSUME TypeOK, Execute
  PROVE  /\ pc = "execute" /\ pc' \in {"publish", "record", "insert"}
         /\ UNCHANGED <<disk, live, mark>>
         /\ stats'.execs = stats.execs + 1
         /\ stats'.interesting \in Nat /\ stats'.crashes \in Nat /\ stats'.timeouts \in Nat
         /\ stats'.interesting + stats'.crashes + stats'.timeouts
              <= stats.interesting + stats.crashes + stats.timeouts + 1
         /\ stats'.crashes = stats.crashes + (IF pc' = "record" THEN 1 ELSE 0)
         /\ stats.timeouts <= stats'.timeouts
         /\ \/ /\ stats'.edges = stats.edges /\ stats'.interesting = stats.interesting
               /\ tracker' = tracker
            \/ /\ stats'.edges = tracker'.total /\ stats'.interesting = stats.interesting + 1
               /\ tracker'.total \in Nat /\ tracker'.total >= tracker.total + 1
         /\ pc' = "insert" => tracker'.total > 0
<1>1. PICK r \in Results(input) : Executed(r)
  BY DEF Execute
<1>2. pc = "execute" /\ UNCHANGED <<disk, live, mark>>
  BY <1>1 DEF Executed, RunTimedOut, RunCrashed, RunWasBoring, RunWasInteresting,
              Returned, ghosts
<1>3. stats \in Stats /\ input \in Inputs /\ tracker.total \in Nat
  BY DEF TypeOK, CountersTypeOK, StageOK
<1>4. CASE RunTimedOut(r)
  BY <1>2, <1>3, <1>4 DEF RunTimedOut, Stats
<1>5. CASE RunCrashed(r)
  BY <1>2, <1>3, <1>5 DEF RunCrashed, Stats
<1>6. CASE RunWasBoring(r)
  BY <1>2, <1>3, <1>6 DEF RunWasBoring, Stats
<1>7. CASE RunWasInteresting(r)
  <2>1. Cardinality(Fresh(r)) \in Nat \ {0}
    BY <1>1, <1>3, <1>7, FreshCounts DEF RunWasInteresting
  <2>2. tracker'.total = tracker.total + Cardinality(Fresh(r)) /\ pc' = "insert"
    BY <1>7 DEF RunWasInteresting
  <2>3. /\ stats'.execs = stats.execs + 1 /\ stats'.interesting = stats.interesting + 1
        /\ stats'.crashes = stats.crashes /\ stats'.timeouts = stats.timeouts
        /\ stats'.edges = tracker'.total
    BY <1>3, <1>7 DEF RunWasInteresting, Stats
  <2> QED BY <1>2, <1>3, <2>1, <2>2, <2>3 DEF Stats
<1> QED
  BY <1>1, <1>4, <1>5, <1>6, <1>7 DEF Executed

(* Every step keeps the copies aligned. *)
LEMMA AlignedStep ==
  ASSUME TypeOK, CopyIsAligned, [Next]_vars
  PROVE  CopyIsAligned'
<1>1. CASE Launch \/ Die
  <2>1. live'.execs = 0
    BY <1>1 DEF Launch, Die, WipeMemory, NewLive
  <2> QED BY <2>1, CampaignAssumption DEF CopyIsAligned
<1>2. CASE Publish
  BY <1>2 DEF Publish, CopyIsAligned
<1>3. CASE Execute
  BY <1>3, ExecuteCounts DEF CopyIsAligned
<1>4. CASE \/ SeedCorpus \/ Leave \/ Pick \/ CountDuplicate \/ RecordNewCrash \/ SaveCrash
           \/ AddSeed \/ CreditParent \/ CtrlC \/ UNCHANGED vars
  <2>1. live' = live
    BY <1>4 DEF SeedCorpus, Leave, Pick, CountDuplicate, RecordNewCrash, SaveCrash,
                AddSeed, CreditParent, CtrlC, vars, memory
  <2> QED BY <2>1 DEF CopyIsAligned
<1> QED
  BY <1>1, <1>2, <1>3, <1>4 DEF Next, OwnStep, Environment, Ended

(* The figures are natural numbers. *)
LEMMA FiguresType ==
  ASSUME TypeOK
  PROVE  /\ LiveEvery \in Nat \ {0} /\ tracker.total \in Nat
         /\ stats.execs \in Nat /\ stats.interesting \in Nat /\ stats.crashes \in Nat
         /\ stats.timeouts \in Nat /\ stats.edges \in Nat
         /\ live.execs \in Nat /\ live.interesting \in Nat /\ live.crashes \in Nat
         /\ live.timeouts \in Nat /\ live.unique \in Nat /\ live.edges \in Nat
         /\ mark.crashes \in Nat /\ Len(crashes) \in Nat
BY CampaignAssumption DEF TypeOK, CountersTypeOK, DiskTypeOK, Stats, Live

(* An execution moves the figures of the process only. *)
LEMMA FiguresExecute ==
  ASSUME TypeOK, FiguresInv, Execute
  PROVE  FiguresInv'
<1>1. /\ crashes' = crashes /\ live' = live /\ mark' = mark
      /\ pc = "execute" /\ pc' \in {"publish", "record", "insert"}
      /\ stats'.execs = stats.execs + 1
      /\ stats'.interesting \in Nat /\ stats'.crashes \in Nat /\ stats'.timeouts \in Nat
      /\ stats'.interesting + stats'.crashes + stats'.timeouts
           <= stats.interesting + stats.crashes + stats.timeouts + 1
  BY ExecuteCounts DEF disk
<1>0. /\ LiveEvery \in Nat /\ tracker.total \in Nat
      /\ stats.execs \in Nat /\ stats.interesting \in Nat /\ stats.crashes \in Nat
      /\ stats.timeouts \in Nat /\ stats.edges \in Nat /\ live.execs \in Nat
      /\ mark.crashes \in Nat /\ Len(crashes) \in Nat
  BY FiguresType
<1>2. /\ pc' = "record" => stats'.crashes = stats.crashes + 1
      /\ pc' # "record" => stats'.crashes = stats.crashes
  BY <1>0, ExecuteCounts
<1>3. CopyIsAligned'
  BY <1>1 DEF FiguresInv, CopyIsAligned
<1>4. CountsTogether'
  <2> DEFINE before == stats.interesting + stats.crashes + stats.timeouts
             after  == stats'.interesting + stats'.crashes + stats'.timeouts
  <2>1. after <= stats'.execs
    <3>1. before <= stats.execs
      BY DEF FiguresInv, CountsTogether
    <3>2. before \in Nat
      BY <1>0
    <3>3. after \in Nat
      BY <1>1
    <3>4. after <= before + 1
      BY <1>1
    <3> HIDE DEF before, after
    <3> QED BY <1>0, <1>1, <3>1, <3>2, <3>3, <3>4
  <2>2. stats'.edges = tracker'.total /\ stats'.interesting <= stats'.edges
    BY <1>0, ExecuteCounts DEF FiguresInv, CountsTogether
  <2> QED BY <2>1, <2>2 DEF CountsTogether
<1>6. LagIsBounded'
  <2>1. /\ live.execs <= stats.execs /\ stats.execs < live.execs + LiveEvery
    BY <1>1 DEF FiguresInv, LagIsBounded
  <2>2. live.execs <= stats'.execs
    BY <1>0, <1>1, <2>1
  <2>3. stats'.execs <= live.execs + LiveEvery
    BY <1>0, <1>1, <2>1
  <2> QED BY <1>1, <2>2, <2>3 DEF LagIsBounded
<1>7. CopyIsBehind'
  <2>1. /\ live.interesting <= stats.interesting /\ live.crashes <= stats.crashes
        /\ live.timeouts <= stats.timeouts /\ live.edges <= stats.edges
        /\ live.unique <= Len(crashes)
    BY DEF FiguresInv, CopyIsBehind
  <2>2. /\ live.interesting \in Nat /\ live.crashes \in Nat /\ live.timeouts \in Nat
        /\ live.edges \in Nat
    BY FiguresType
  <2>3. stats.edges = tracker.total
    BY DEF FiguresInv, CountsTogether
  <2>4. \/ stats'.edges = stats.edges /\ stats'.interesting = stats.interesting
        \/ /\ stats'.edges = tracker'.total /\ stats'.interesting = stats.interesting + 1
           /\ tracker'.total \in Nat /\ tracker'.total >= tracker.total + 1
    BY ExecuteCounts
  <2>5. live.interesting <= stats'.interesting
    BY <1>0, <2>1, <2>2, <2>4
  <2>6. live.edges <= stats'.edges
    BY <1>0, <2>1, <2>2, <2>3, <2>4
  <2>7. live.crashes <= stats'.crashes
    BY <1>0, <1>2, <2>1, <2>2
  <2>8. live.timeouts <= stats'.timeouts
    <3>1. stats.timeouts <= stats'.timeouts /\ stats'.timeouts \in Nat
      BY ExecuteCounts
    <3> QED BY <1>0, <2>1, <2>2, <3>1
  <2> QED BY <1>1, <2>1, <2>5, <2>6, <2>7, <2>8 DEF CopyIsBehind
<1>8. LagIsAccounted'
  <2> DEFINE before == stats.interesting + stats.crashes + stats.timeouts
             after  == stats'.interesting + stats'.crashes + stats'.timeouts
             shown  == live.interesting + live.crashes + live.timeouts
  <2>1. /\ before + live.execs <= shown + stats.execs
        /\ live.execs > 0 => Len(crashes) + live.crashes <= live.unique + stats.crashes
    BY DEF FiguresInv, LagIsAccounted
  <2>2. live.crashes \in Nat /\ live.unique \in Nat /\ shown \in Nat
    <3>1. /\ live.interesting \in Nat /\ live.crashes \in Nat /\ live.timeouts \in Nat
          /\ live.unique \in Nat
      BY FiguresType
    <3> QED BY <3>1
  <2>3. before \in Nat /\ after \in Nat /\ after <= before + 1
    <3>1. before \in Nat
      BY <1>0
    <3>2. after \in Nat
      BY <1>1
    <3>3. after <= before + 1
      BY <1>1
    <3> QED BY <3>1, <3>2, <3>3
  <2> HIDE DEF before, after, shown
  <2>4. after + live.execs <= shown + stats'.execs
    <3>1. before + live.execs <= shown + stats.execs
      BY <2>1
    <3>2. stats'.execs = stats.execs + 1
      BY <1>1
    <3>3. stats.execs \in Nat /\ live.execs \in Nat
      BY <1>0
    <3> QED BY <2>2, <2>3, <3>1, <3>2, <3>3
  <2>5. live.execs > 0 =>
          /\ Len(crashes) + live.crashes <= live.unique + stats'.crashes
          /\ pc' = "record" => Len(crashes) + live.crashes < live.unique + stats'.crashes
    <3>1. CASE pc' = "record"
      <4>1. stats'.crashes = stats.crashes + 1
        BY <1>2, <3>1
      <4>2. stats.crashes \in Nat /\ Len(crashes) \in Nat
        BY <1>0
      <4> QED BY <2>1, <2>2, <4>1, <4>2
    <3>2. CASE pc' # "record"
      <4>1. stats'.crashes = stats.crashes
        BY <1>2, <3>2
      <4> QED BY <2>1, <3>2, <4>1
    <3> QED BY <3>1, <3>2
  <2> QED BY <1>1, <2>4, <2>5 DEF LagIsAccounted, after, shown
<1>9. CopyIsCurrent'
  BY <1>1 DEF CopyIsCurrent
<1> QED BY <1>3, <1>4, <1>6, <1>7, <1>8, <1>9 DEF FiguresInv

(* An update of the dashboard, or its omission. *)
LEMMA FiguresPublish ==
  ASSUME TypeOK, FiguresInv, Publish
  PROVE  FiguresInv'
<1>1. /\ crashes' = crashes /\ tracker' = tracker /\ stats' = stats /\ mark' = mark
      /\ pc = "publish" /\ pc' = "loop"
  BY DEF Publish, ghosts, disk
<1>2. CountsTogether'
  BY <1>1 DEF FiguresInv, CountsTogether
<1>3. CASE stats.execs % LiveEvery = 0
  <2>1. /\ live'.execs = stats.execs /\ live'.interesting = stats.interesting
        /\ live'.crashes = stats.crashes /\ live'.timeouts = stats.timeouts
        /\ live'.unique = Len(crashes) /\ live'.edges = stats.edges
    BY <1>3 DEF Publish
  <2>2. CopyIsAligned'
    BY <1>3, <2>1 DEF CopyIsAligned
  <2>0. /\ LiveEvery \in Nat \ {0} /\ stats.execs \in Nat /\ stats.interesting \in Nat
        /\ stats.crashes \in Nat /\ stats.timeouts \in Nat /\ stats.edges \in Nat
        /\ Len(crashes) \in Nat
    BY FiguresType
  <2>3. LagIsBounded'
    <3>1. live'.execs = stats'.execs /\ stats'.execs \in Nat
      BY <1>1, <2>0, <2>1
    <3> QED BY <2>0, <3>1 DEF LagIsBounded
  <2>4. CopyIsBehind' /\ CopyIsCurrent'
    BY <1>1, <2>0, <2>1 DEF CopyIsBehind, CopyIsCurrent
  <2>5. LagIsAccounted'
    BY <1>1, <2>0, <2>1 DEF LagIsAccounted
  <2> QED BY <1>2, <2>2, <2>3, <2>4, <2>5 DEF FiguresInv
<1>4. CASE stats.execs % LiveEvery # 0
  <2>1. live' = live
    BY <1>4 DEF Publish
  <2>0. /\ LiveEvery \in Nat \ {0} /\ stats.execs \in Nat /\ live.execs \in Nat
        /\ live.execs % LiveEvery = 0
        /\ live.execs <= stats.execs /\ stats.execs <= live.execs + LiveEvery
    BY FiguresType DEF FiguresInv, CopyIsAligned, LagIsBounded
  <2>2. stats.execs # live.execs + LiveEvery
    <3>1. (live.execs + LiveEvery) % LiveEvery = 0
      BY <2>0, NextMultiple
    <3> QED BY <1>4, <3>1
  <2>3. LagIsBounded'
    <3>1. live.execs <= stats.execs /\ stats.execs < live.execs + LiveEvery
      BY <2>0, <2>2
    <3> QED BY <1>1, <2>0, <2>1, <3>1 DEF LagIsBounded
  <2>4. CopyIsCurrent'
    <3>1. live'.execs # stats'.execs
      BY <1>1, <1>4, <2>0, <2>1
    <3> QED BY <3>1 DEF CopyIsCurrent
  <2>5. CopyIsAligned' /\ CopyIsBehind' /\ LagIsAccounted'
    BY <1>1, <2>1 DEF FiguresInv, CopyIsAligned, CopyIsBehind, LagIsAccounted
  <2> QED BY <1>2, <2>3, <2>4, <2>5 DEF FiguresInv
<1> QED BY <1>3, <1>4

(* Triage adds at most the row of the crash just counted. *)
LEMMA FiguresTriage ==
  ASSUME TypeOK, FiguresInv, CountDuplicate \/ RecordNewCrash
  PROVE  FiguresInv'
<1>1. /\ tracker' = tracker /\ stats' = stats /\ live' = live /\ mark' = mark
      /\ pc = "record" /\ pc' \in {"publish", "save"}
  BY DEF CountDuplicate, RecordNewCrash, memory, ghosts
<1>2. /\ Len(crashes') \in Nat /\ Len(crashes) <= Len(crashes')
      /\ Len(crashes') <= Len(crashes) + 1
  <2>1. crashes \in Seq(CrashRow)
    BY DEF TypeOK, DiskTypeOK
  <2>2. CASE CountDuplicate
    <3>1. PICK k \in DOMAIN crashes : crashes' = [crashes EXCEPT ![k].hits = @ + 1]
      BY <2>2 DEF CountDuplicate
    <3> QED BY <2>1, <3>1
  <2>3. CASE RecordNewCrash
    BY <2>1, <2>3 DEF RecordNewCrash
  <2> QED BY <2>2, <2>3
<1>3. CopyIsBehind'
  <2>1. live.unique \in Nat /\ Len(crashes) \in Nat
    BY FiguresType
  <2> QED BY <1>1, <1>2, <2>1 DEF FiguresInv, CopyIsBehind
<1>4. LagIsAccounted'
  <2>1. /\ live.unique \in Nat /\ live.crashes \in Nat /\ stats.crashes \in Nat
        /\ Len(crashes) \in Nat
    BY FiguresType
  <2>2. live.execs > 0 => Len(crashes) + live.crashes < live.unique + stats.crashes
    BY <1>1 DEF FiguresInv, LagIsAccounted
  <2>3. live.execs > 0 => Len(crashes') + live.crashes <= live.unique + stats.crashes
    BY <1>2, <2>1, <2>2
  <2> QED BY <1>1, <2>3 DEF FiguresInv, LagIsAccounted
<1> QED
  BY <1>1, <1>3, <1>4
     DEF FiguresInv, CopyIsAligned, CountsTogether, LagIsBounded, CopyIsCurrent

(* Every step keeps the figures together and the dashboard behind them.    *)
LEMMA FiguresStep ==
  ASSUME TypeOK, FiguresInv, [Next]_vars
  PROVE  FiguresInv'
<1>1. CASE Launch \/ Die
  <2>1. /\ stats' = NewStats /\ live' = NewLive /\ tracker' = NewTracker
        /\ crashes' = crashes /\ pc' \in {"seed", "loop", "down"}
    BY <1>1 DEF Launch, Die, WipeMemory, disk
  <2>2. LiveEvery \in Nat \ {0} /\ Len(crashes) \in Nat
    BY FiguresType
  <2>3. CountsTogether' /\ LagIsBounded'
    BY <2>1, <2>2 DEF NewStats, NewTracker, NewLive, CountsTogether, LagIsBounded
  <2>4. CopyIsBehind' /\ LagIsAccounted' /\ CopyIsCurrent'
    BY <2>1, <2>2 DEF NewStats, NewLive, CopyIsBehind, LagIsAccounted, CopyIsCurrent
  <2>5. CopyIsAligned'
    BY AlignedStep DEF FiguresInv
  <2> QED BY <2>3, <2>4, <2>5 DEF FiguresInv
<1>2. CASE Execute \/ Publish \/ CountDuplicate \/ RecordNewCrash
  BY <1>2, FiguresExecute, FiguresPublish, FiguresTriage
<1>3. CASE CreditParent
  <2>1. /\ crashes' = crashes /\ tracker' = tracker /\ live' = live /\ mark' = mark
        /\ stats'.execs = stats.execs /\ stats'.interesting = stats.interesting
        /\ stats'.crashes = stats.crashes /\ stats'.timeouts = stats.timeouts
        /\ stats'.edges = stats.edges /\ pc = "credit" /\ pc' = "publish"
    BY <1>3 DEF CreditParent, TypeOK, CountersTypeOK, Stats, ghosts
  <2> QED
    BY <2>1 DEF FiguresInv, CopyIsAligned, CountsTogether, LagIsBounded,
                CopyIsBehind, LagIsAccounted, CopyIsCurrent
<1>4. CASE SeedCorpus \/ Pick \/ SaveCrash \/ AddSeed \/ Leave
  <2>1. /\ crashes' = crashes /\ tracker' = tracker /\ stats' = stats
        /\ live' = live /\ mark' = mark
        /\ pc' \notin {"record", "down"}
        /\ pc' \in {"seed", "loop", "execute"} => pc \in {"seed", "loop"}
        /\ pc # "down"
    BY <1>4 DEF SeedCorpus, Pick, SaveCrash, AddSeed, Leave, memory, ghosts, disk
  <2> QED
    BY <2>1 DEF FiguresInv, CopyIsAligned, CountsTogether, LagIsBounded,
                CopyIsBehind, LagIsAccounted, CopyIsCurrent
<1>5. CASE CtrlC \/ UNCHANGED vars
  <2>1. /\ pc' = pc /\ crashes' = crashes /\ tracker' = tracker /\ stats' = stats
        /\ live' = live /\ mark' = mark
    BY <1>5 DEF CtrlC, vars, disk, memory, ghosts
  <2> QED
    BY <2>1 DEF FiguresInv, CopyIsAligned, CountsTogether, LagIsBounded,
                CopyIsBehind, LagIsAccounted, CopyIsCurrent
<1> QED
  BY <1>1, <1>2, <1>3, <1>4, <1>5 DEF Next, OwnStep, Environment, Ended

(* What is on the dashboard follows the campaign in every reachable state. *)
LEMMA FiguresInvariant == SafetySpec => []FiguresInv
<1>1. Init => FiguresInv
  BY CampaignAssumption
     DEF Init, NewStats, NewLive, NewTracker, FiguresInv, CopyIsAligned, CountsTogether,
         LagIsBounded, CopyIsBehind, LagIsAccounted, CopyIsCurrent
<1>2. TypeOK /\ FiguresInv /\ [Next]_vars => FiguresInv'
  BY FiguresStep
<1> QED
  BY <1>1, <1>2, TypeCorrect, PTL DEF SafetySpec

-----------------------------------------------------------------------------
(* The lists of the dashboard.                                             *)

(* The crashes saved and the finds credited so far are the rows up to here. *)
SavedUpTo    == IF pc = "save" THEN Len(crashes) - 1 ELSE Len(crashes)
CreditedUpTo == IF pc = "credit" THEN Len(rows) - 1 ELSE Len(rows)

SeverityColumn == [k \in DOMAIN crashes |-> crashes[k].severity]
EdgesColumn    == [k \in DOMAIN rows |-> rows[k].edges]

(* list holds the last of the n entries of column that end at index last,  *)
(* RecentCap of them when there are that many.                             *)
IsNewest(list, column, last, n) ==
  /\ Len(list) = IF n > RecentCap THEN RecentCap ELSE n
  /\ \A k \in 1..Len(list) : list[k] = column[last - Len(list) + k]

(* What the row on its way to a list holds. *)
OnTheWay ==
  /\ pc = "insert" => tracker.total > 0
  /\ pc = "credit" => rows[Len(rows)].edges = tracker.total
  /\ pc = "save" => crashes[Len(crashes)].severity = Severity(result.status)

(* The finds of the process are the last rows of the corpus. *)
FindsAreLast ==
  pc \in InLoop \union {"seed"} =>
    /\ mark.rows + rewards <= CreditedUpTo
    /\ pc = "seed" => rewards = 0
    /\ Found = (CreditedUpTo - rewards + 1)..Len(rows)

(* The lists hold the newest crashes saved and the newest finds credited. *)
CrashListIsNewest ==
  pc \in InLoop \union {"seed"} =>
    /\ mark.crashes <= SavedUpTo
    /\ IsNewest(recentCrashes, SeverityColumn, SavedUpTo, SavedUpTo - mark.crashes)

FindListIsNewest ==
  pc \in InLoop \union {"seed"} =>
    IsNewest(recentFinds, EdgesColumn, CreditedUpTo, rewards)

ListsInv == OnTheWay /\ FindsAreLast /\ CrashListIsNewest /\ FindListIsNewest

(* A full list drops its oldest entry, any other grows: either way it holds *)
(* the newest entries once more.                                           *)
LEMMA PushKeepsNewest ==
  ASSUME NEW S, NEW list \in Seq(S), NEW x \in S, NEW n \in Nat, NEW last \in Nat,
         n <= last, NEW column, IsNewest(list, column, last, n), column[last + 1] = x
  PROVE  IsNewest(PushRecent(list, x), column, last + 1, n + 1)
<1>1. RecentCap \in Nat \ {0}
  BY CampaignAssumption
<1>2. CASE Len(list) < RecentCap
  <2>1. Len(list) = n /\ n < RecentCap
    BY <1>1, <1>2 DEF IsNewest
  <2>2. PushRecent(list, x) = Append(list, x)
    BY <1>2 DEF PushRecent
  <2>3. /\ Len(Append(list, x)) = n + 1 /\ Append(list, x)[n + 1] = x
        /\ \A k \in 1..n : Append(list, x)[k] = list[k]
    BY <2>1, AppendProperties
  <2>4. \A k \in 1..n : list[k] = column[last - n + k]
    BY <2>1 DEF IsNewest
  <2>5. \A k \in 1..n + 1 : Append(list, x)[k] = column[last + 1 - (n + 1) + k]
    <3> TAKE k \in 1..n + 1
    <3>1. last + 1 - (n + 1) + k = last - n + k
      OBVIOUS
    <3>2. CASE k \in 1..n
      BY <2>3, <2>4, <3>1, <3>2
    <3>3. CASE k = n + 1
      BY <2>3, <3>1, <3>3
    <3>4. k \in 1..n \/ k = n + 1
      OBVIOUS
    <3> QED BY <3>2, <3>3, <3>4
  <2>6. Len(Append(list, x)) = IF n + 1 > RecentCap THEN RecentCap ELSE n + 1
    BY <1>1, <2>1, <2>3
  <2> QED BY <2>2, <2>3, <2>5, <2>6 DEF IsNewest
<1>3. CASE ~(Len(list) < RecentCap)
  <2> DEFINE t == Tail(list)
  <2>1. Len(list) = RecentCap /\ n >= RecentCap /\ list # <<>>
    BY <1>1, <1>3 DEF IsNewest
  <2>2. PushRecent(list, x) = Append(t, x)
    BY <1>3 DEF PushRecent
  <2>3. /\ t \in Seq(S) /\ Len(t) = RecentCap - 1
        /\ \A k \in 1..RecentCap - 1 : t[k] = list[k + 1]
    BY <2>1, HeadTailProperties
  <2> HIDE DEF t
  <2>4. /\ Len(Append(t, x)) = RecentCap /\ Append(t, x)[RecentCap] = x
        /\ \A k \in 1..RecentCap - 1 : Append(t, x)[k] = t[k]
    BY <1>1, <2>3, AppendProperties
  <2>5. \A k \in 1..RecentCap : list[k] = column[last - RecentCap + k]
    BY <2>1 DEF IsNewest
  <2>6. \A k \in 1..RecentCap : Append(t, x)[k] = column[last + 1 - RecentCap + k]
    <3> TAKE k \in 1..RecentCap
    <3>1. CASE k \in 1..RecentCap - 1
      <4>1. Append(t, x)[k] = list[k + 1]
        BY <2>3, <2>4, <3>1
      <4>2. k + 1 \in 1..RecentCap /\ last - RecentCap + (k + 1) = last + 1 - RecentCap + k
        BY <1>1, <3>1
      <4> QED BY <2>5, <4>1, <4>2
    <3>2. CASE k = RecentCap
      <4>1. last + 1 - RecentCap + k = last + 1
        BY <1>1, <3>2
      <4> QED BY <2>4, <3>2, <4>1
    <3>3. k \in 1..RecentCap - 1 \/ k = RecentCap
      BY <1>1
    <3> QED BY <3>1, <3>2, <3>3
  <2>7. n + 1 > RecentCap
    BY <1>1, <2>1
  <2> DEFINE p == Append(t, x)
  <2>8. Len(p) = RecentCap /\ \A k \in 1..RecentCap : p[k] = column[last + 1 - RecentCap + k]
    BY <2>4, <2>6
  <2> HIDE DEF p
  <2>9. IsNewest(p, column, last + 1, n + 1)
    BY <2>7, <2>8 DEF IsNewest
  <2> QED BY <2>2, <2>9 DEF p
<1> QED BY <1>2, <1>3

(* The newest entries are those whatever comes after, or changes elsewhere. *)
LEMMA NewestOfEqualColumns ==
  ASSUME NEW S, NEW list \in Seq(S), NEW n \in Nat, NEW last \in Nat, n <= last,
         NEW column, NEW other, IsNewest(list, column, last, n),
         \A k \in 1..last : other[k] = column[k]
  PROVE  IsNewest(list, other, last, n)
<1>1. Len(list) <= n
  BY CampaignAssumption DEF IsNewest
<1>2. ASSUME NEW k \in 1..Len(list)
      PROVE  list[k] = other[last - Len(list) + k]
  <2>1. last - Len(list) + k \in 1..last
    BY <1>1
  <2>2. list[k] = column[last - Len(list) + k]
    BY DEF IsNewest
  <2> QED BY <2>1, <2>2
<1>3. Len(list) = IF n > RecentCap THEN RecentCap ELSE n
  BY DEF IsNewest
<1> QED BY <1>2, <1>3 DEF IsNewest

(* The entries of c are the n of the column that end at `last'. *)
IsPartOf(c, column, last, n) ==
  Len(c) = n /\ \A k \in 1..n : c[k] = column[last - n + k]

(* Seen as sequences: the list is the end of the entries. *)
LEMMA NewestIsLastOf ==
  ASSUME NEW S, NEW list \in Seq(S), NEW n \in Nat, NEW last \in Nat, n <= last,
         NEW column, IsNewest(list, column, last, n),
         NEW c \in Seq(S), IsPartOf(c, column, last, n)
  PROVE  list = LastOf(c, RecentCap)
<1> DEFINE from == IF n > RecentCap THEN n - RecentCap + 1 ELSE 1
<1>0. Len(c) = n /\ \A k \in 1..n : c[k] = column[last - n + k]
  BY DEF IsPartOf
<1>1. RecentCap \in Nat \ {0}
  BY CampaignAssumption
<1>2. LastOf(c, RecentCap) = SubSeq(c, from, n)
  BY <1>0 DEF LastOf
<1>3. from \in Nat /\ 1 <= from /\ Len(list) = n - from + 1
  BY <1>1 DEF IsNewest
<1> HIDE DEF from
<1>4. Len(c) = n /\ \A i \in from..n : c[i] \in S
  BY <1>0, <1>3
<1>5. /\ SubSeq(c, from, n) \in Seq(S)
      /\ Len(SubSeq(c, from, n)) = IF from <= n THEN n - from + 1 ELSE 0
      /\ \A i \in 1..n - from + 1 : SubSeq(c, from, n)[i] = c[from + i - 1]
  BY <1>3, <1>4, SubSeqProperties
<1>6. Len(SubSeq(c, from, n)) = Len(list)
  BY <1>3, <1>5
<1>7. ASSUME NEW i \in 1..Len(list)
      PROVE  list[i] = SubSeq(c, from, n)[i]
  <2>1. /\ SubSeq(c, from, n)[i] = c[from + i - 1] /\ from + i - 1 \in 1..n
        /\ last - n + (from + i - 1) = last - Len(list) + i
    BY <1>3, <1>5
  <2>2. c[from + i - 1] = column[last - n + (from + i - 1)]
    BY <1>0, <2>1
  <2>3. list[i] = column[last - Len(list) + i]
    BY DEF IsNewest
  <2> QED BY <2>1, <2>2, <2>3
<1>8. list = SubSeq(c, from, n)
  BY <1>5, <1>6, <1>7, SeqEqual
<1> QED BY <1>2, <1>8

(* Counting a pick or a hit of a row leaves every edge count. *)
LEMMA CountingKeepsEdges ==
  ASSUME TypeOK, NEW k \in DOMAIN rows,
         \/ rows' = [rows EXCEPT ![k].picks = @ + 1]
         \/ rows' = [rows EXCEPT ![k].hits = @ + 1]
  PROVE  Len(rows') = Len(rows) /\ DOMAIN rows' = DOMAIN rows /\ EdgesColumn' = EdgesColumn
<1>1. rows \in Seq(Row)
  BY DEF TypeOK, DiskTypeOK
<1>2. DOMAIN rows' = DOMAIN rows /\ Len(rows') = Len(rows)
  BY <1>1
<1>3. ASSUME NEW j \in DOMAIN rows
      PROVE  rows'[j].edges = rows[j].edges
  <2>1. rows[j] \in Row
    BY <1>1
  <2>2. CASE rows' = [rows EXCEPT ![k].picks = @ + 1]
    BY <1>1, <2>1, <2>2, RowCountType
  <2>3. CASE rows' = [rows EXCEPT ![k].hits = @ + 1]
    BY <1>1, <2>1, <2>3, RowCountType
  <2> QED BY <2>2, <2>3
<1> QED BY <1>2, <1>3 DEF EdgesColumn

(* Which rows are finds depends on their edge counts only. *)
LEMMA FoundByColumn ==
  /\ Found = {k \in DOMAIN rows : k > mark.rows /\ EdgesColumn[k] > 0}
  /\ Found' = {k \in DOMAIN rows' : k > mark'.rows /\ EdgesColumn'[k] > 0}
BY DEF Found, EdgesColumn

(* A row appended to the corpus comes after all others in the column. *)
LEMMA AppendedEdges ==
  ASSUME TypeOK, NEW data \in Inputs, NEW n \in Nat, rows' = Append(rows, NewRow(data, n))
  PROVE  /\ Len(rows') = Len(rows) + 1 /\ EdgesColumn'[Len(rows) + 1] = n
         /\ rows'[Len(rows')].edges = n
         /\ DOMAIN rows' = 1..Len(rows) + 1 /\ DOMAIN rows = 1..Len(rows)
         /\ \A k \in 1..Len(rows) : EdgesColumn'[k] = EdgesColumn[k]
<1>1. rows \in Seq(Row) /\ NewRow(data, n) \in Row /\ NewRow(data, n).edges = n
  BY NewRowType DEF TypeOK, DiskTypeOK, NewRow
<1>2. /\ Len(rows') = Len(rows) + 1 /\ rows'[Len(rows) + 1] = NewRow(data, n)
      /\ rows' \in Seq(Row) /\ \A k \in 1..Len(rows) : rows'[k] = rows[k]
  BY <1>1, AppendProperties
<1>3. DOMAIN rows' = 1..Len(rows) + 1 /\ DOMAIN rows = 1..Len(rows) /\ Len(rows) \in Nat
  BY <1>1, <1>2
<1> QED BY <1>1, <1>2, <1>3 DEF EdgesColumn

(* The same for the triage database. *)
LEMMA AppendedSeverity ==
  ASSUME TypeOK, NEW c, crashes' = Append(crashes, c)
  PROVE  /\ Len(crashes') = Len(crashes) + 1
         /\ crashes'[Len(crashes')] = c
         /\ \A k \in 1..Len(crashes) : SeverityColumn'[k] = SeverityColumn[k]
<1>1. crashes \in Seq(CrashRow)
  BY DEF TypeOK, DiskTypeOK
<1> QED BY <1>1 DEF SeverityColumn

(* Every step keeps what the row on its way to a list holds. *)
LEMMA OnTheWayStep ==
  ASSUME TypeOK, OnTheWay, [Next]_vars
  PROVE  OnTheWay'
<1>1. CASE Execute
  <2>1. pc' \in {"publish", "record", "insert"} /\ (pc' = "insert" => tracker'.total > 0)
    BY <1>1, ExecuteCounts
  <2> QED BY <2>1 DEF OnTheWay
<1>2. CASE AddSeed
  <2>1. CASE InCorpus(input)
    BY <1>2, <2>1 DEF AddSeed, OnTheWay
  <2>2. CASE ~InCorpus(input)
    <3>1. /\ pc' = "credit" /\ rows' = Append(rows, NewRow(input, tracker.total))
          /\ tracker' = tracker /\ input \in Inputs /\ tracker.total \in Nat
      BY <1>2, <2>2 DEF AddSeed, memory, TypeOK, StageOK, CountersTypeOK
    <3>2. rows'[Len(rows')].edges = tracker.total
      BY <3>1, AppendedEdges
    <3> QED BY <3>1, <3>2 DEF OnTheWay
  <2> QED BY <2>1, <2>2
<1>3. CASE RecordNewCrash
  <2>1. /\ pc' = "save" /\ result' = result
        /\ crashes' = Append(crashes, [sig |-> CurrentSignature,
                                 severity |-> Severity(result.status),
                                 input |-> input, hits |-> 1])
    BY <1>3 DEF RecordNewCrash, memory
  <2>2. crashes'[Len(crashes')].severity = Severity(result.status)
    BY <2>1, AppendedSeverity
  <2>3. Severity(result.status)' = Severity(result.status)
    BY <2>1 DEF Severity
  <2> QED BY <2>1, <2>2, <2>3 DEF OnTheWay
<1>4. CASE \/ Launch \/ SeedCorpus \/ Leave \/ Pick \/ CountDuplicate \/ SaveCrash
           \/ CreditParent \/ Publish \/ Die
  <2>1. pc' \notin {"insert", "credit", "save"}
    BY <1>4 DEF Launch, SeedCorpus, Leave, Pick, CountDuplicate, SaveCrash, CreditParent,
                Publish, Die, InLoop
  <2> QED BY <2>1 DEF OnTheWay
<1>5. CASE CtrlC \/ UNCHANGED vars
  <2>1. UNCHANGED <<pc, rows, crashes, tracker, result>>
    BY <1>5 DEF CtrlC, vars, disk, memory
  <2> QED BY <2>1 DEF OnTheWay, Severity
<1> QED
  BY <1>1, <1>2, <1>3, <1>4, <1>5 DEF Next, OwnStep, Environment, Ended

(* A step between stages that leaves the finds alone. *)
LEMMA FindsKept ==
  ASSUME FindsAreLast, DOMAIN rows' = DOMAIN rows, Len(rows') = Len(rows),
         EdgesColumn' = EdgesColumn, mark' = mark, rewards' = rewards,
         pc \in InLoop \union {"seed"}, pc' = "credit" <=> pc = "credit",
         pc' = "seed" => pc = "seed"
  PROVE  FindsAreLast'
<1>1. Found' = Found /\ CreditedUpTo' = CreditedUpTo
  BY FoundByColumn DEF CreditedUpTo
<1> QED BY <1>1 DEF FindsAreLast

(* Every step keeps the finds at the end of the corpus: each enters once,  *)
(* and is credited before the next.                                        *)
LEMMA FindsStep ==
  ASSUME TypeOK, OnTheWay, FindsAreLast, [Next]_vars
  PROVE  FindsAreLast'
<1>1. /\ rows \in Seq(Row) /\ Len(rows) \in Nat /\ DOMAIN rows = 1..Len(rows)
      /\ rewards \in Nat /\ mark.rows \in Nat /\ tracker.total \in Nat /\ input \in Inputs
  BY DEF TypeOK, DiskTypeOK, CountersTypeOK, StageOK
<1>2. CASE Launch
  <2>1. /\ pc' \in {"seed", "loop"} /\ rewards' = 0 /\ rows' = rows
        /\ mark'.rows = Len(rows)
    BY <1>2 DEF Launch, WipeMemory, disk
  <2>2. CreditedUpTo' = Len(rows)
    BY <2>1 DEF CreditedUpTo
  <2>3. Found' = {}
    BY <1>1, <2>1 DEF Found
  <2>4. (Len(rows) - 0 + 1)..Len(rows) = {}
    BY <1>1
  <2> QED BY <1>1, <2>1, <2>2, <2>3, <2>4 DEF FindsAreLast
<1>3. CASE Die \/ Leave
  <2>1. pc' \in {"down", "done"}
    BY <1>3 DEF Die, Leave
  <2> QED BY <2>1 DEF FindsAreLast, InLoop
<1>4. CASE SeedCorpus
  <2>1. /\ pc = "seed" /\ pc' \in {"seed", "loop"} /\ rewards' = rewards /\ mark' = mark
    BY <1>4 DEF SeedCorpus, ghosts
  <2>2. CASE InCorpus(Head(pending))
    BY <1>4, <2>1, <2>2, FindsKept DEF SeedCorpus, EdgesColumn
  <2>3. CASE ~InCorpus(Head(pending))
    <3>1. /\ rows' = Append(rows, NewRow(Head(pending), 0)) /\ Head(pending) \in Inputs
      BY <1>4, <2>1, <2>3 DEF SeedCorpus, TypeOK, StageOK
    <3>2. /\ Len(rows') = Len(rows) + 1 /\ EdgesColumn'[Len(rows) + 1] = 0
          /\ DOMAIN rows' = 1..Len(rows) + 1
          /\ \A k \in 1..Len(rows) : EdgesColumn'[k] = EdgesColumn[k]
      BY <3>1, AppendedEdges
    <3>3. Found' = Found
      BY <1>1, <2>1, <3>2, FoundByColumn
    <3>4. /\ rewards = 0 /\ CreditedUpTo = Len(rows) /\ CreditedUpTo' = Len(rows) + 1
          /\ Found = (Len(rows) - 0 + 1)..Len(rows) /\ mark.rows <= Len(rows)
      BY <1>1, <2>1, <3>2 DEF FindsAreLast, CreditedUpTo
    <3>5. (Len(rows) - 0 + 1)..Len(rows) = (Len(rows) + 1 - 0 + 1)..(Len(rows) + 1)
      BY <1>1
    <3> QED BY <1>1, <2>1, <3>2, <3>3, <3>4, <3>5 DEF FindsAreLast
  <2> QED BY <2>2, <2>3
<1>5. CASE Pick
  <2>1. pc = "loop" /\ pc' = "execute" /\ rewards' = rewards /\ mark' = mark
    BY <1>5 DEF Pick, ghosts, TypeOK, InLoop
  <2>2. PICK k \in Candidates : rows' = [rows EXCEPT ![k].picks = @ + 1]
    BY <1>5 DEF Pick, TypeOK, InLoop
  <2>3. k \in DOMAIN rows
    BY DEF Candidates
  <2> QED BY <2>1, <2>2, <2>3, CountingKeepsEdges, FindsKept DEF InLoop
<1>6. CASE AddSeed
  <2>1. pc = "insert" /\ rewards' = rewards /\ mark' = mark
    BY <1>6 DEF AddSeed, memory, ghosts
  <2>2. CASE InCorpus(input)
    BY <1>6, <2>1, <2>2, FindsKept DEF AddSeed, EdgesColumn, InLoop
  <2>3. CASE ~InCorpus(input)
    <3>1. pc' = "credit" /\ rows' = Append(rows, NewRow(input, tracker.total))
      BY <1>6, <2>3 DEF AddSeed
    <3>2. /\ Len(rows') = Len(rows) + 1 /\ EdgesColumn'[Len(rows) + 1] = tracker.total
          /\ DOMAIN rows' = 1..Len(rows) + 1
          /\ \A k \in 1..Len(rows) : EdgesColumn'[k] = EdgesColumn[k]
      BY <1>1, <3>1, AppendedEdges
    <3>3. CreditedUpTo = Len(rows) /\ CreditedUpTo' = Len(rows)
      BY <1>1, <2>1, <3>1, <3>2 DEF CreditedUpTo
    <3>4. /\ mark.rows + rewards <= Len(rows)
          /\ Found = (Len(rows) - rewards + 1)..Len(rows) /\ tracker.total > 0
      BY <2>1, <3>3 DEF FindsAreLast, InLoop, OnTheWay
    <3>5. Found' = Found \union {Len(rows) + 1}
      BY <1>1, <2>1, <3>2, <3>4, FoundByColumn
    <3>6. Found' = (Len(rows) - rewards + 1)..(Len(rows) + 1)
      BY <1>1, <3>4, <3>5
    <3> QED BY <2>1, <3>1, <3>2, <3>3, <3>4, <3>6 DEF FindsAreLast
  <2> QED BY <2>2, <2>3
<1>7. CASE CreditParent
  <2>1. /\ pc = "credit" /\ pc' = "publish" /\ rewards' = rewards + 1 /\ mark' = mark
        /\ rows' = [rows EXCEPT ![base].hits = @ + 1] /\ base \in DOMAIN rows
    BY <1>7 DEF CreditParent, ghosts, TypeOK, StageOK, InLoop
  <2>2. Len(rows') = Len(rows) /\ DOMAIN rows' = DOMAIN rows /\ EdgesColumn' = EdgesColumn
    BY <2>1, CountingKeepsEdges
  <2>3. Found' = Found /\ CreditedUpTo = Len(rows) - 1 /\ CreditedUpTo' = Len(rows)
    BY <2>1, <2>2, FoundByColumn DEF CreditedUpTo
  <2>4. /\ mark.rows + rewards <= Len(rows) - 1
        /\ Found = (Len(rows) - 1 - rewards + 1)..Len(rows)
    BY <2>1, <2>3 DEF FindsAreLast, InLoop
  <2>5. /\ mark.rows + (rewards + 1) <= Len(rows)
        /\ Len(rows) - 1 - rewards + 1 = Len(rows) - (rewards + 1) + 1
    BY <1>1, <2>4
  <2> QED BY <2>1, <2>2, <2>3, <2>4, <2>5 DEF FindsAreLast
<1>8. CASE Execute \/ CountDuplicate \/ RecordNewCrash \/ SaveCrash \/ Publish
  <2>1. /\ rows' = rows /\ rewards' = rewards /\ mark' = mark
        /\ pc \in {"execute", "record", "save", "publish"}
        /\ pc' \in {"publish", "record", "insert", "save", "loop"}
    <3>1. CASE Execute
      <4>1. PICK r \in Results(input) : Executed(r)
        BY <3>1 DEF Execute
      <4>2. Returned(r)
        BY <4>1 DEF Executed, RunTimedOut, RunCrashed, RunWasBoring, RunWasInteresting
      <4> QED BY <3>1, <4>2, ExecuteCounts DEF Returned, disk
    <3>2. CASE CountDuplicate \/ RecordNewCrash \/ SaveCrash \/ Publish
      BY <3>2 DEF CountDuplicate, RecordNewCrash, SaveCrash, Publish, memory, ghosts, disk
    <3> QED BY <1>8, <3>1, <3>2
  <2>2. EdgesColumn' = EdgesColumn
    BY <2>1 DEF EdgesColumn
  <2> QED BY <2>1, <2>2, FindsKept DEF InLoop
<1>9. CASE CtrlC \/ UNCHANGED vars
  <2>1. UNCHANGED <<pc, rows, mark, rewards>>
    BY <1>9 DEF CtrlC, vars, disk, memory, ghosts
  <2> QED BY <2>1 DEF FindsAreLast, Found, CreditedUpTo
<1> QED
  BY <1>2, <1>3, <1>4, <1>5, <1>6, <1>7, <1>8, <1>9 DEF Next, OwnStep, Environment, Ended

(* An empty list holds the newest of nothing. *)
LEMMA NewestOfNothing ==
  ASSUME NEW list, NEW column, NEW last
  PROVE  /\ IsNewest(<<>>, column, last, 0)
         /\ IsNewest(list, column, last, 0) /\ list \in Seq(Nat) => list = <<>>
BY CampaignAssumption DEF IsNewest

(* Every step keeps the dashboard's list of crashes the newest ones. *)
LEMMA CrashListStep ==
  ASSUME TypeOK, OnTheWay, CrashListIsNewest, [Next]_vars
  PROVE  CrashListIsNewest'
<1>1. /\ crashes \in Seq(CrashRow) /\ Len(crashes) \in Nat /\ mark.crashes \in Nat
      /\ recentCrashes \in Seq(Severities) /\ DOMAIN crashes = 1..Len(crashes)
  BY DEF TypeOK, DiskTypeOK, CountersTypeOK
<1>2. CASE Launch
  <2>1. /\ recentCrashes' = <<>> /\ crashes' = crashes /\ mark'.crashes = Len(crashes)
        /\ pc' \in {"seed", "loop"}
    BY <1>2 DEF Launch, WipeMemory, disk
  <2>2. SavedUpTo' = Len(crashes)
    BY <2>1 DEF SavedUpTo
  <2>3. Len(crashes) - Len(crashes) = 0 /\ Len(crashes) <= Len(crashes)
    BY <1>1
  <2> QED BY <2>1, <2>2, <2>3, NewestOfNothing DEF CrashListIsNewest
<1>3. CASE Die \/ Leave
  <2>1. pc' \in {"down", "done"}
    BY <1>3 DEF Die, Leave
  <2> QED BY <2>1 DEF CrashListIsNewest, InLoop
<1>4. CASE CountDuplicate
  <2>1. PICK k \in DOMAIN crashes : crashes' = [crashes EXCEPT ![k].hits = @ + 1]
    BY <1>4 DEF CountDuplicate
  <2>2. pc = "record" /\ pc' = "publish" /\ mark' = mark /\ recentCrashes' = recentCrashes
    BY <1>4 DEF CountDuplicate, memory, ghosts
  <2>3. Len(crashes') = Len(crashes) /\ DOMAIN crashes' = DOMAIN crashes
    BY <1>1, <2>1
  <2>4. \A j \in DOMAIN crashes : crashes'[j].severity = crashes[j].severity
    BY <1>1, <2>1 DEF CrashRow
  <2>5. SeverityColumn' = SeverityColumn /\ SavedUpTo' = SavedUpTo
    BY <2>2, <2>3, <2>4 DEF SeverityColumn, SavedUpTo
  <2> QED BY <2>2, <2>5 DEF CrashListIsNewest, InLoop
<1>5. CASE RecordNewCrash
  <2>1. /\ pc = "record" /\ pc' = "save" /\ mark' = mark /\ recentCrashes' = recentCrashes
        /\ crashes' = Append(crashes, [sig |-> CurrentSignature,
                                 severity |-> Severity(result.status),
                                 input |-> input, hits |-> 1])
    BY <1>5 DEF RecordNewCrash, memory, ghosts
  <2>2. /\ Len(crashes') = Len(crashes) + 1
        /\ \A k \in 1..Len(crashes) : SeverityColumn'[k] = SeverityColumn[k]
    BY <2>1, AppendedSeverity
  <2>3. SavedUpTo = Len(crashes) /\ SavedUpTo' = Len(crashes)
    BY <1>1, <2>1, <2>2 DEF SavedUpTo
  <2>4. /\ mark.crashes <= Len(crashes) /\ Len(crashes) - mark.crashes \in Nat
        /\ Len(crashes) - mark.crashes <= Len(crashes)
        /\ IsNewest(recentCrashes, SeverityColumn, Len(crashes), Len(crashes) - mark.crashes)
    BY <1>1, <2>1, <2>3 DEF CrashListIsNewest, InLoop
  <2>5. IsNewest(recentCrashes, SeverityColumn', Len(crashes), Len(crashes) - mark.crashes)
    BY <1>1, <2>2, <2>4, NewestOfEqualColumns
  <2> QED BY <2>1, <2>3, <2>4, <2>5 DEF CrashListIsNewest
<1>6. CASE SaveCrash
  <2> DEFINE x == Severity(result.status)
             last == Len(crashes) - 1
  <2>1. /\ pc = "save" /\ pc' = "publish" /\ mark' = mark /\ crashes' = crashes
        /\ recentCrashes' = PushRecent(recentCrashes, x)
        /\ crashes[Len(crashes)].severity = x
    BY <1>6 DEF SaveCrash, ghosts, OnTheWay
  <2> HIDE DEF x
  <2>2. /\ SavedUpTo = last /\ SavedUpTo' = last + 1 /\ SeverityColumn' = SeverityColumn
    BY <1>1, <2>1 DEF SavedUpTo, SeverityColumn
  <2>3. mark.crashes <= last /\ IsNewest(recentCrashes, SeverityColumn, last, last - mark.crashes)
    BY <2>1, <2>2 DEF CrashListIsNewest, InLoop
  <2>4. last \in Nat /\ last - mark.crashes \in Nat /\ last - mark.crashes <= last
    BY <1>1, <2>3
  <2>5. last + 1 \in DOMAIN crashes /\ SeverityColumn[last + 1] = x
    BY <1>1, <2>1, <2>4 DEF SeverityColumn
  <2>6. x \in Severities
    <3>1. crashes[Len(crashes)] \in CrashRow
      BY <1>1, <2>4, <2>5
    <3> QED BY <2>1, <3>1 DEF CrashRow
  <2> HIDE DEF last
  <2>7. IsNewest(PushRecent(recentCrashes, x), SeverityColumn, last + 1, last - mark.crashes + 1)
    BY <1>1, <2>3, <2>4, <2>5, <2>6, PushKeepsNewest
  <2>8. /\ last - mark.crashes + 1 = (last + 1) - mark.crashes
        /\ mark.crashes <= last + 1
    BY <1>1, <2>3, <2>4
  <2> QED BY <2>1, <2>2, <2>7, <2>8 DEF CrashListIsNewest
<1>7. CASE SeedCorpus \/ Pick \/ Execute \/ AddSeed \/ CreditParent \/ Publish
  <2>1. /\ crashes' = crashes /\ mark' = mark /\ recentCrashes' = recentCrashes
        /\ pc \in InLoop \union {"seed"} /\ pc # "save" /\ pc' # "save"
    <3>1. CASE Execute
      <4>1. PICK r \in Results(input) : Executed(r)
        BY <3>1 DEF Execute
      <4>2. Returned(r)
        BY <4>1 DEF Executed, RunTimedOut, RunCrashed, RunWasBoring, RunWasInteresting
      <4> QED BY <3>1, <4>2, ExecuteCounts DEF Returned, disk, InLoop
    <3>2. CASE SeedCorpus \/ Pick \/ AddSeed \/ CreditParent \/ Publish
      BY <3>2 DEF SeedCorpus, Pick, AddSeed, CreditParent, Publish, memory, ghosts, disk, InLoop
    <3> QED BY <1>7, <3>1, <3>2
  <2> QED BY <2>1 DEF CrashListIsNewest, SavedUpTo, SeverityColumn
<1>8. CASE CtrlC \/ UNCHANGED vars
  <2>1. UNCHANGED <<pc, crashes, mark, recentCrashes>>
    BY <1>8 DEF CtrlC, vars, disk, memory, ghosts
  <2> QED BY <2>1 DEF CrashListIsNewest, SavedUpTo, SeverityColumn
<1> QED
  BY <1>2, <1>3, <1>4, <1>5, <1>6, <1>7, <1>8 DEF Next, OwnStep, Environment, Ended

(* Every step keeps the dashboard's list of finds the newest ones. *)
LEMMA FindListStep ==
  ASSUME TypeOK, OnTheWay, FindsAreLast, FindListIsNewest, [Next]_vars
  PROVE  FindListIsNewest'
<1>1. /\ rows \in Seq(Row) /\ Len(rows) \in Nat /\ DOMAIN rows = 1..Len(rows)
      /\ rewards \in Nat /\ mark.rows \in Nat /\ tracker.total \in Nat /\ input \in Inputs
      /\ recentFinds \in Seq(Nat)
  BY DEF TypeOK, DiskTypeOK, CountersTypeOK, StageOK
<1>2. CASE Launch
  <2>1. recentFinds' = <<>> /\ rewards' = 0
    BY <1>2 DEF Launch, WipeMemory
  <2> QED BY <2>1, NewestOfNothing DEF FindListIsNewest
<1>3. CASE Die \/ Leave
  <2>1. pc' \in {"down", "done"}
    BY <1>3 DEF Die, Leave
  <2> QED BY <2>1 DEF FindListIsNewest, InLoop
<1>4. CASE SeedCorpus
  <2>1. pc = "seed" /\ recentFinds' = recentFinds /\ rewards' = rewards
    BY <1>4 DEF SeedCorpus
  <2>2. rewards = 0 /\ recentFinds = <<>>
    BY <1>1, <2>1, NewestOfNothing DEF FindsAreLast, FindListIsNewest
  <2> QED BY <2>1, <2>2, NewestOfNothing DEF FindListIsNewest
<1>5. CASE Pick
  <2>1. /\ pc = "loop" /\ pc' = "execute" /\ rewards' = rewards /\ recentFinds' = recentFinds
    BY <1>5 DEF Pick, TypeOK, InLoop
  <2>2. PICK k \in Candidates : rows' = [rows EXCEPT ![k].picks = @ + 1]
    BY <1>5 DEF Pick, TypeOK, InLoop
  <2>3. k \in DOMAIN rows
    BY DEF Candidates
  <2>4. EdgesColumn' = EdgesColumn /\ Len(rows') = Len(rows)
    BY <2>2, <2>3, CountingKeepsEdges
  <2> QED BY <2>1, <2>4 DEF FindListIsNewest, CreditedUpTo, InLoop
<1>6. CASE AddSeed
  <2>1. pc = "insert" /\ rewards' = rewards /\ recentFinds' = recentFinds
    BY <1>6 DEF AddSeed, memory
  <2>2. CASE InCorpus(input)
    BY <1>6, <2>1, <2>2 DEF AddSeed, FindListIsNewest, CreditedUpTo, EdgesColumn, InLoop
  <2>3. CASE ~InCorpus(input)
    <3>1. pc' = "credit" /\ rows' = Append(rows, NewRow(input, tracker.total))
      BY <1>6, <2>3 DEF AddSeed
    <3>2. /\ Len(rows') = Len(rows) + 1
          /\ \A k \in 1..Len(rows) : EdgesColumn'[k] = EdgesColumn[k]
      BY <1>1, <3>1, AppendedEdges
    <3>3. CreditedUpTo = Len(rows) /\ CreditedUpTo' = Len(rows)
      BY <1>1, <2>1, <3>1, <3>2 DEF CreditedUpTo
    <3>4. rewards <= Len(rows) /\ IsNewest(recentFinds, EdgesColumn, Len(rows), rewards)
      BY <1>1, <2>1, <3>3 DEF FindsAreLast, FindListIsNewest, InLoop
    <3>5. IsNewest(recentFinds, EdgesColumn', Len(rows), rewards)
      BY <1>1, <3>2, <3>4, NewestOfEqualColumns
    <3> QED BY <2>1, <3>1, <3>3, <3>5 DEF FindListIsNewest
  <2> QED BY <2>2, <2>3
<1>7. CASE CreditParent
  <2> DEFINE last == Len(rows) - 1
             x == tracker.total
  <2>1. /\ pc = "credit" /\ pc' = "publish" /\ rewards' = rewards + 1
        /\ recentFinds' = PushRecent(recentFinds, x)
        /\ rows' = [rows EXCEPT ![base].hits = @ + 1] /\ base \in DOMAIN rows
        /\ rows[Len(rows)].edges = x
    BY <1>7 DEF CreditParent, TypeOK, StageOK, InLoop, OnTheWay
  <2>2. Len(rows') = Len(rows) /\ EdgesColumn' = EdgesColumn
    BY <2>1, CountingKeepsEdges
  <2>3. CreditedUpTo = last /\ CreditedUpTo' = last + 1
    BY <1>1, <2>1, <2>2 DEF CreditedUpTo
  <2>4. mark.rows + rewards <= last /\ IsNewest(recentFinds, EdgesColumn, last, rewards)
    BY <2>1, <2>3 DEF FindsAreLast, FindListIsNewest, InLoop
  <2>5. last \in Nat /\ rewards <= last /\ last + 1 \in DOMAIN rows
    BY <1>1, <2>4
  <2>6. EdgesColumn[last + 1] = x
    BY <1>1, <2>1, <2>5 DEF EdgesColumn
  <2> HIDE DEF last, x
  <2>7. x \in Nat
    BY <1>1 DEF x
  <2>8. IsNewest(PushRecent(recentFinds, x), EdgesColumn, last + 1, rewards + 1)
    BY <1>1, <2>4, <2>5, <2>6, <2>7, PushKeepsNewest
  <2> QED BY <2>1, <2>2, <2>3, <2>8 DEF FindListIsNewest
<1>8. CASE Execute \/ CountDuplicate \/ RecordNewCrash \/ SaveCrash \/ Publish
  <2>1. /\ rows' = rows /\ rewards' = rewards /\ recentFinds' = recentFinds
        /\ pc \in {"execute", "record", "save", "publish"} /\ pc' # "credit"
    <3>1. CASE Execute
      <4>1. PICK r \in Results(input) : Executed(r)
        BY <3>1 DEF Execute
      <4>2. Returned(r)
        BY <4>1 DEF Executed, RunTimedOut, RunCrashed, RunWasBoring, RunWasInteresting
      <4> QED BY <3>1, <4>2, ExecuteCounts DEF Returned, disk
    <3>2. CASE CountDuplicate \/ RecordNewCrash \/ SaveCrash \/ Publish
      BY <3>2 DEF CountDuplicate, RecordNewCrash, SaveCrash, Publish, memory, ghosts, disk
    <3> QED BY <1>8, <3>1, <3>2
  <2> QED BY <2>1 DEF FindListIsNewest, CreditedUpTo, EdgesColumn, InLoop
<1>9. CASE CtrlC \/ UNCHANGED vars
  <2>1. UNCHANGED <<pc, rows, rewards, recentFinds>>
    BY <1>9 DEF CtrlC, vars, disk, memory
  <2> QED BY <2>1 DEF FindListIsNewest, CreditedUpTo, EdgesColumn
<1> QED
  BY <1>2, <1>3, <1>4, <1>5, <1>6, <1>7, <1>8, <1>9 DEF Next, OwnStep, Environment, Ended

(* The n entries of a table that end at index last. *)
LEMMA EndOfTable ==
  ASSUME NEW S, NEW table \in Seq(S), NEW last \in Nat, last <= Len(table),
         NEW n \in Nat, n <= last
  PROVE  /\ DOMAIN SubSeq(table, last - n + 1, last) = 1..n
         /\ \A k \in 1..n : /\ last - n + k \in DOMAIN table
                           /\ SubSeq(table, last - n + 1, last)[k] = table[last - n + k]
<1> DEFINE from == last - n + 1
           end  == SubSeq(table, from, last)
<1>1. from \in Int /\ from >= 1 /\ last - from + 1 = n
  OBVIOUS
<1>2. \A k \in 1..n : from + (k - 1) = last - n + k /\ last - n + k \in DOMAIN table
  OBVIOUS
<1>3. \A i \in from..last : table[i] \in S
  BY <1>1
<1> HIDE DEF from
<1>4. /\ end \in Seq(S) /\ Len(end) = IF from <= last THEN last - from + 1 ELSE 0
      /\ \A i \in 1..last - from + 1 : end[i] = table[from + i - 1]
  BY <1>1, <1>3, SubSeqProperties
<1> HIDE DEF end
<1>5. Len(end) = n
  BY <1>1, <1>4
<1>6. \A k \in 1..n : end[k] = table[last - n + k]
  BY <1>1, <1>2, <1>4
<1>7. DOMAIN end = 1..n
  BY <1>4, <1>5
<1> QED BY <1>2, <1>6, <1>7 DEF end, from

(* The invariant says of the dashboard's lists what the property says. *)
LEMMA ListsShowNewest ==
  ASSUME TypeOK, ListsInv
  PROVE  RecentListsShowNewest
<1> SUFFICES ASSUME pc \in InLoop
             PROVE  LET new   == SubSeq(crashes, mark.crashes + 1,
                                        Len(crashes) - OneWhile("save"))
                        last  == Len(rows) - OneWhile("credit")
                        finds == SubSeq(rows, last - rewards + 1, last)
                    IN  /\ {k \in Found : k <= last} = (last - rewards + 1)..last
                        /\ recentCrashes = LastOf([k \in DOMAIN new |-> new[k].severity],
                                                  RecentCap)
                        /\ recentFinds = LastOf([k \in DOMAIN finds |-> finds[k].edges],
                                                RecentCap)
  BY DEF RecentListsShowNewest
<1> DEFINE saved == SavedUpTo
           last  == CreditedUpTo
           new   == SubSeq(crashes, mark.crashes + 1, saved)
           finds == SubSeq(rows, last - rewards + 1, last)
<1>1. /\ crashes \in Seq(CrashRow) /\ DOMAIN crashes = 1..Len(crashes) /\ Len(crashes) \in Nat
      /\ rows \in Seq(Row) /\ DOMAIN rows = 1..Len(rows) /\ Len(rows) \in Nat
      /\ rewards \in Nat /\ mark.rows \in Nat /\ mark.crashes \in Nat
      /\ recentFinds \in Seq(Nat) /\ recentCrashes \in Seq(Severities)
  BY DEF TypeOK, DiskTypeOK, CountersTypeOK
<1>2. Len(crashes) - OneWhile("save") = saved /\ Len(rows) - OneWhile("credit") = last
  BY <1>1 DEF SavedUpTo, CreditedUpTo, OneWhile
<1>3. /\ mark.crashes <= saved /\ saved <= Len(crashes) /\ saved \in Nat
      /\ mark.rows + rewards <= last /\ last <= Len(rows) /\ last \in Nat
      /\ Found = (last - rewards + 1)..Len(rows)
      /\ IsNewest(recentCrashes, SeverityColumn, saved, saved - mark.crashes)
      /\ IsNewest(recentFinds, EdgesColumn, last, rewards)
  <2>1. mark.crashes <= saved /\ mark.rows + rewards <= last
    BY DEF ListsInv, CrashListIsNewest, FindsAreLast
  <2>2. saved \in Nat /\ saved <= Len(crashes)
    BY <1>1, <2>1 DEF SavedUpTo
  <2>3. last \in Nat /\ last <= Len(rows)
    BY <1>1, <2>1 DEF CreditedUpTo
  <2> QED
    BY <2>1, <2>2, <2>3 DEF ListsInv, CrashListIsNewest, FindListIsNewest, FindsAreLast
<1> HIDE DEF saved, last
<1>4. {k \in Found : k <= last} = (last - rewards + 1)..last
  BY <1>1, <1>3
<1>5. recentCrashes = LastOf([k \in DOMAIN new |-> new[k].severity], RecentCap)
  <2> DEFINE n == saved - mark.crashes
  <2>0. mark.crashes + 1 = saved - n + 1
    BY <1>1, <1>3
  <2>1. n \in Nat /\ n <= saved /\ saved \in Nat /\ saved <= Len(crashes)
    BY <1>1, <1>3
  <2>2. recentCrashes \in Seq(Severities) /\ crashes \in Seq(CrashRow) /\ IsNewest(recentCrashes, SeverityColumn, saved, n)
    BY <1>1, <1>3
  <2>3. new = SubSeq(crashes, saved - n + 1, saved)
    BY <2>0
  <2> HIDE DEF new, n
  <2>4. /\ DOMAIN new = 1..n
        /\ \A k \in 1..n : saved - n + k \in DOMAIN crashes /\ new[k] = crashes[saved - n + k]
    BY <2>1, <2>2, <2>3, EndOfTable
  <2> DEFINE c == [k \in 1..n |-> new[k].severity]
  <2>5. \A k \in 1..n : c[k] = SeverityColumn[saved - n + k] /\ c[k] \in Severities
    <3> TAKE k \in 1..n
    <3>1. crashes[saved - n + k] \in CrashRow
      BY <2>2, <2>4
    <3> QED BY <2>4, <3>1 DEF SeverityColumn, CrashRow
  <2>6. \A k \in 1..n : new[k].severity \in Severities
    BY <2>5
  <2>7. c \in Seq(Severities) /\ Len(c) = n
    BY <2>1, <2>6
  <2>8. IsPartOf(c, SeverityColumn, saved, n)
    BY <2>5, <2>7 DEF IsPartOf
  <2> HIDE DEF c
  <2>9. recentCrashes = LastOf(c, RecentCap)
    BY <2>1, <2>2, <2>7, <2>8, NewestIsLastOf
  <2> QED BY <2>4, <2>9 DEF c
<1>6. recentFinds = LastOf([k \in DOMAIN finds |-> finds[k].edges], RecentCap)
  <2>1. rewards \in Nat /\ rewards <= last /\ last \in Nat /\ last <= Len(rows)
    BY <1>1, <1>3
  <2>2. recentFinds \in Seq(Nat) /\ rows \in Seq(Row) /\ IsNewest(recentFinds, EdgesColumn, last, rewards)
    BY <1>1, <1>3
  <2>3. finds = SubSeq(rows, last - rewards + 1, last)
    OBVIOUS
  <2> HIDE DEF finds
  <2>4. /\ DOMAIN finds = 1..rewards
        /\ \A k \in 1..rewards : last - rewards + k \in DOMAIN rows /\ finds[k] = rows[last - rewards + k]
    BY <2>1, <2>2, <2>3, EndOfTable
  <2> DEFINE c == [k \in 1..rewards |-> finds[k].edges]
  <2>5. \A k \in 1..rewards : c[k] = EdgesColumn[last - rewards + k] /\ c[k] \in Nat
    <3> TAKE k \in 1..rewards
    <3>1. rows[last - rewards + k] \in Row
      BY <2>2, <2>4
    <3> QED BY <2>4, <3>1 DEF EdgesColumn, Row
  <2>6. \A k \in 1..rewards : finds[k].edges \in Nat
    BY <2>5
  <2>7. c \in Seq(Nat) /\ Len(c) = rewards
    BY <2>1, <2>6
  <2>8. IsPartOf(c, EdgesColumn, last, rewards)
    BY <2>5, <2>7 DEF IsPartOf
  <2> HIDE DEF c
  <2>9. recentFinds = LastOf(c, RecentCap)
    BY <2>1, <2>2, <2>7, <2>8, NewestIsLastOf
  <2> QED BY <2>4, <2>9 DEF c
<1> QED BY <1>2, <1>4, <1>5, <1>6

(* What is on the way to the lists, and what is on them, in every state. *)
LEMMA ListsInvariant == SafetySpec => []ListsInv
<1>1. Init => ListsInv
  BY DEF Init, ListsInv, OnTheWay, FindsAreLast, CrashListIsNewest, FindListIsNewest, InLoop
<1>2. TypeOK /\ ListsInv /\ [Next]_vars => ListsInv'
  BY OnTheWayStep, FindsStep, CrashListStep, FindListStep DEF ListsInv
<1> QED BY <1>1, <1>2, TypeCorrect, PTL DEF SafetySpec

-----------------------------------------------------------------------------
(* The figure of the corpus, which follows the finds.                      *)

(* corpus_size is set with each credit, and copied with the other figures. *)
CorpusIsCounted ==
  /\ pc \in InLoop \union {"seed"} =>
       stats.corpus = IF rewards = 0 THEN 0 ELSE CreditedUpTo
  /\ pc = "seed" => stats.execs = 0
  /\ live.corpus <= stats.corpus
  /\ pc = "loop" /\ stats.execs > 0 /\ live.execs = stats.execs => live.corpus = stats.corpus

(* Each row added since was found since. *)
CorpusLag ==
  /\ live.corpus > 0 => Len(rows) + live.interesting <= live.corpus + stats.interesting
  /\ live.corpus > 0 /\ pc = "insert" =>
       Len(rows) + live.interesting < live.corpus + stats.interesting

(* What corpus_size should be. *)
CorpusFigure == IF Found = {} THEN 0 ELSE Len(rows)

(* The dashboard shows no corpus larger than it is. *)
CorpusIsBehind == live.corpus <= CorpusFigure

CorpusInv == CorpusIsCounted /\ CorpusLag /\ CorpusIsBehind

(* The finds say whether corpus_size was set. *)
LEMMA CorpusFigureCounts ==
  ASSUME TypeOK, FindsAreLast, CorpusIsCounted, pc \in InLoop \union {"seed"}
  PROVE  /\ stats.corpus <= CorpusFigure
         /\ pc # "credit" => stats.corpus = CorpusFigure
<1>1. Len(rows) \in Nat /\ rewards \in Nat /\ mark.rows \in Nat
  BY DEF TypeOK, DiskTypeOK, CountersTypeOK
<1>2. /\ Found = (CreditedUpTo - rewards + 1)..Len(rows)
      /\ stats.corpus = IF rewards = 0 THEN 0 ELSE CreditedUpTo
      /\ mark.rows + rewards <= CreditedUpTo
  BY DEF FindsAreLast, CorpusIsCounted
<1>3. CASE rewards = 0 /\ pc # "credit"
  BY <1>1, <1>2, <1>3 DEF CorpusFigure, CreditedUpTo
<1>4. CASE rewards = 0 /\ pc = "credit"
  BY <1>1, <1>2, <1>4 DEF CorpusFigure
<1>5. CASE rewards # 0
  <2>1. CreditedUpTo <= Len(rows) /\ CreditedUpTo \in Int
    BY <1>1 DEF CreditedUpTo
  <2>2. CreditedUpTo \in CreditedUpTo - rewards + 1 .. Len(rows)
    BY <1>1, <1>5, <2>1
  <2>3. CorpusFigure = Len(rows)
    BY <1>2, <2>2 DEF CorpusFigure
  <2> QED BY <1>2, <1>5, <2>1, <2>3 DEF CreditedUpTo
<1> QED BY <1>3, <1>4, <1>5

(* The figures of the corpus are natural numbers. *)
LEMMA CorpusType ==
  ASSUME TypeOK
  PROVE  /\ Len(rows) \in Nat /\ rewards \in Nat /\ mark.rows \in Nat
         /\ stats.corpus \in Nat /\ live.corpus \in Nat
         /\ stats.interesting \in Nat /\ live.interesting \in Nat
         /\ stats.execs \in Nat /\ live.execs \in Nat
BY DEF TypeOK, CountersTypeOK, DiskTypeOK, Stats, Live

(* What a credit does to the figures. *)
LEMMA CreditCounts ==
  ASSUME TypeOK, CreditParent
  PROVE  /\ stats'.corpus = Len(rows) /\ stats'.interesting = stats.interesting
         /\ rewards' = rewards + 1 /\ live' = live /\ Len(rows') = Len(rows)
         /\ pc = "credit" /\ pc' = "publish"
<1>1. rows' = [rows EXCEPT ![base].hits = @ + 1] /\ rows \in Seq(Row)
  BY DEF CreditParent, TypeOK, DiskTypeOK
<1>2. Len(rows') = Len(rows)
  BY <1>1
<1>3. stats' = [stats EXCEPT !.corpus = Len(rows)] /\ stats \in Stats
  BY DEF CreditParent, TypeOK, CountersTypeOK
<1>4. stats'.corpus = Len(rows) /\ stats'.interesting = stats.interesting
  BY <1>3 DEF Stats
<1> QED BY <1>2, <1>4 DEF CreditParent

(* Each step keeps corpus_size what the credits made it. *)
LEMMA CorpusCountedStep ==
  ASSUME TypeOK, FindsAreLast, CopyIsAligned, CorpusIsCounted, [Next]_vars
  PROVE  CorpusIsCounted'
<1> USE DEF InLoop
<1>0. /\ Len(rows) \in Nat /\ rewards \in Nat /\ stats.corpus \in Nat /\ live.corpus \in Nat
      /\ stats.execs \in Nat
  BY CorpusType
<1>1. CASE Launch \/ Die
  <2>1. /\ stats' = NewStats /\ live' = NewLive /\ rewards' = 0
        /\ pc' \in {"seed", "loop", "down"}
    BY <1>1 DEF Launch, Die, WipeMemory
  <2> QED BY <2>1 DEF NewStats, NewLive, CorpusIsCounted
<1>2. CASE SeedCorpus
  <2>1. /\ UNCHANGED <<stats, live, rewards>> /\ pc = "seed" /\ pc' \in {"seed", "loop"}
    BY <1>2 DEF SeedCorpus
  <2>2. rewards = 0 /\ stats.execs = 0
    BY <2>1 DEF FindsAreLast, CorpusIsCounted
  <2> QED BY <2>1, <2>2 DEF CorpusIsCounted
<1>3. CASE Execute
  <2>1. /\ pc = "execute" /\ pc' \in {"publish", "record", "insert"} /\ live' = live
        /\ rows' = rows
    BY <1>3, ExecuteCounts DEF disk
  <2>2. stats'.corpus = stats.corpus /\ rewards' = rewards
    <3>1. PICK r \in Results(input) : Executed(r)
      BY <1>3 DEF Execute
    <3>2. stats \in Stats
      BY DEF TypeOK, CountersTypeOK
    <3> QED
      BY <3>1, <3>2 DEF Executed, RunTimedOut, RunCrashed, RunWasBoring, RunWasInteresting,
                        Returned, Stats
  <2> QED BY <2>1, <2>2 DEF CorpusIsCounted, CreditedUpTo
<1>4. CASE AddSeed
  <2>1. UNCHANGED <<stats, live, rewards>> /\ pc = "insert" /\ pc' \in {"publish", "credit"}
    BY <1>4 DEF AddSeed, memory
  <2>2. CreditedUpTo = Len(rows) /\ CreditedUpTo' = Len(rows)
    <3>1. rows \in Seq(Row)
      BY DEF TypeOK, DiskTypeOK
    <3> QED BY <1>0, <1>4, <2>1, <3>1 DEF AddSeed, CreditedUpTo
  <2> QED BY <2>1, <2>2 DEF CorpusIsCounted
<1>5. CASE CreditParent
  <2>1. /\ stats'.corpus = Len(rows) /\ rewards' = rewards + 1 /\ live' = live
        /\ pc = "credit" /\ pc' = "publish" /\ Len(rows') = Len(rows)
    BY <1>5, CreditCounts
  <2>2. stats.corpus <= Len(rows)
    BY <1>0, <2>1 DEF CorpusIsCounted, CreditedUpTo
  <2>3. live.corpus <= Len(rows)
    BY <1>0, <2>2 DEF CorpusIsCounted
  <2>4. rewards' # 0 /\ CreditedUpTo' = Len(rows)
    BY <1>0, <2>1 DEF CreditedUpTo
  <2> QED BY <2>1, <2>3, <2>4 DEF CorpusIsCounted
<1>6. CASE Publish
  <2>1. /\ UNCHANGED <<stats, rows, rewards>> /\ pc = "publish" /\ pc' = "loop"
    BY <1>6 DEF Publish, disk
  <2>2. CASE stats.execs % LiveEvery = 0
    <3>1. live'.corpus = stats.corpus
      BY <1>6, <2>2 DEF Publish
    <3> QED BY <1>0, <2>1, <3>1 DEF CorpusIsCounted, CreditedUpTo
  <2>3. CASE stats.execs % LiveEvery # 0
    <3>1. live' = live /\ live.execs # stats.execs
      BY <1>6, <2>3 DEF Publish, CopyIsAligned
    <3> QED BY <2>1, <3>1 DEF CorpusIsCounted, CreditedUpTo
  <2> QED BY <2>2, <2>3
<1>7. CASE Pick
  <2>1. /\ UNCHANGED <<stats, live, rewards>> /\ Len(rows') = Len(rows)
        /\ pc = "loop" /\ pc' \in {"loop", "execute"}
    BY <1>7 DEF Pick, TypeOK, DiskTypeOK
  <2> QED BY <2>1 DEF CorpusIsCounted, CreditedUpTo
<1>8. CASE CountDuplicate \/ RecordNewCrash \/ SaveCrash \/ Leave
  <2>1. /\ UNCHANGED <<stats, live, rewards, rows>>
        /\ pc \in InLoop \ {"credit"} /\ pc' \in {"publish", "save", "done"}
    BY <1>8 DEF CountDuplicate, RecordNewCrash, SaveCrash, Leave, memory, disk
  <2> QED BY <2>1 DEF CorpusIsCounted, CreditedUpTo
<1>9. CASE CtrlC \/ UNCHANGED vars
  <2>1. UNCHANGED <<pc, stats, live, rewards, rows>>
    BY <1>9 DEF CtrlC, vars, memory, disk
  <2> QED BY <2>1 DEF CorpusIsCounted, CreditedUpTo
<1> QED
  BY <1>1, <1>2, <1>3, <1>4, <1>5, <1>6, <1>7, <1>8, <1>9
     DEF Next, OwnStep, Environment, Ended

(* Each step that adds a row does so for a run that was counted.           *)
LEMMA CorpusLagStep ==
  ASSUME TypeOK, FindsAreLast, CopyIsBehind, CorpusIsCounted, CorpusLag, [Next]_vars
  PROVE  CorpusLag'
<1> USE DEF InLoop
<1>0. /\ Len(rows) \in Nat /\ rewards \in Nat /\ stats.corpus \in Nat /\ live.corpus \in Nat
      /\ stats.interesting \in Nat /\ live.interesting \in Nat
  BY CorpusType
<1>1. CASE Launch \/ Die
  <2>1. live' = NewLive
    BY <1>1 DEF Launch, Die, WipeMemory
  <2> QED BY <2>1 DEF NewLive, CorpusLag
<1>2. CASE SeedCorpus
  <2>1. live' = live /\ pc = "seed"
    BY <1>2 DEF SeedCorpus
  <2>2. live.corpus = 0
    <3>1. rewards = 0
      BY <2>1 DEF FindsAreLast
    <3>2. stats.corpus = 0 /\ live.corpus <= stats.corpus
      BY <2>1, <3>1 DEF CorpusIsCounted
    <3> QED BY <1>0, <3>2
  <2> QED BY <2>1, <2>2 DEF CorpusLag
<1>3. CASE Execute
  <2>1. /\ pc = "execute" /\ live' = live /\ rows' = rows
        /\ stats'.interesting \in Nat
        /\ \/ stats'.interesting = stats.interesting
           \/ stats'.interesting = stats.interesting + 1
    BY <1>3, ExecuteCounts DEF disk
  <2>2. pc' = "insert" => stats'.interesting = stats.interesting + 1
    <3>1. PICK r \in Results(input) : Executed(r)
      BY <1>3 DEF Execute
    <3>2. stats \in Stats
      BY DEF TypeOK, CountersTypeOK
    <3> QED
      BY <3>1, <3>2 DEF Executed, RunTimedOut, RunCrashed, RunWasBoring, RunWasInteresting,
                        Stats
  <2>3. live.corpus > 0 => Len(rows) + live.interesting <= live.corpus + stats.interesting
    BY DEF CorpusLag
  <2>4. live.corpus > 0 => Len(rows) + live.interesting <= live.corpus + stats'.interesting
    BY <1>0, <2>1, <2>3
  <2>5. live.corpus > 0 /\ pc' = "insert" =>
          Len(rows) + live.interesting < live.corpus + stats'.interesting
    BY <1>0, <2>2, <2>3
  <2> QED BY <2>1, <2>4, <2>5 DEF CorpusLag
<1>4. CASE AddSeed
  <2>1. UNCHANGED <<stats, live>> /\ pc = "insert" /\ pc' \in {"publish", "credit"}
    BY <1>4 DEF AddSeed, memory
  <2>2. Len(rows') \in Nat /\ Len(rows') <= Len(rows) + 1
    <3>1. rows \in Seq(Row)
      BY DEF TypeOK, DiskTypeOK
    <3> QED BY <1>0, <1>4, <3>1 DEF AddSeed
  <2>3. live.corpus > 0 => Len(rows) + live.interesting < live.corpus + stats.interesting
    BY <2>1 DEF CorpusLag
  <2>4. live.corpus > 0 => Len(rows') + live.interesting <= live.corpus + stats.interesting
    BY <1>0, <2>2, <2>3
  <2> QED BY <2>1, <2>4 DEF CorpusLag
<1>5. CASE CreditParent
  <2>1. /\ stats'.interesting = stats.interesting /\ live' = live
        /\ pc' = "publish" /\ Len(rows') = Len(rows)
    BY <1>5, CreditCounts
  <2> QED BY <2>1 DEF CorpusLag
<1>6. CASE Publish
  <2>1. /\ UNCHANGED <<stats, rows>> /\ pc = "publish" /\ pc' = "loop"
    BY <1>6 DEF Publish, disk
  <2>2. CASE live' = live
    BY <2>1, <2>2 DEF CorpusLag
  <2>3. CASE live' # live
    <3>1. live'.corpus = stats.corpus /\ live'.interesting = stats.interesting
      BY <1>6, <2>3 DEF Publish
    <3>2. stats.corpus > 0 => stats.corpus = Len(rows)
      BY <1>0, <2>1 DEF CorpusIsCounted, CreditedUpTo
    <3> QED BY <1>0, <2>1, <3>1, <3>2 DEF CorpusLag
  <2> QED BY <2>2, <2>3
<1>7. CASE Pick
  <2>1. UNCHANGED <<stats, live>> /\ Len(rows') = Len(rows) /\ pc' \in {"loop", "execute"}
    BY <1>7 DEF Pick, TypeOK, DiskTypeOK
  <2> QED BY <2>1 DEF CorpusLag
<1>8. CASE CountDuplicate \/ RecordNewCrash \/ SaveCrash \/ Leave
  <2>1. UNCHANGED <<stats, live, rows>> /\ pc' # "insert"
    BY <1>8 DEF CountDuplicate, RecordNewCrash, SaveCrash, Leave, memory, disk
  <2> QED BY <2>1 DEF CorpusLag
<1>9. CASE CtrlC \/ UNCHANGED vars
  <2>1. UNCHANGED <<pc, stats, live, rows>>
    BY <1>9 DEF CtrlC, vars, memory, disk
  <2> QED BY <2>1 DEF CorpusLag
<1> QED
  BY <1>1, <1>2, <1>3, <1>4, <1>5, <1>6, <1>7, <1>8, <1>9
     DEF Next, OwnStep, Environment, Ended

(* While the campaign runs its counters vouch for that. *)
CorpusIsShown == pc \in InLoop \union {"seed"} => CorpusIsBehind

LEMMA CorpusIsNotAhead ==
  ASSUME TypeOK, FindsAreLast, CorpusIsCounted
  PROVE  CorpusIsShown
<1>1. live.corpus <= stats.corpus /\ live.corpus \in Nat /\ stats.corpus \in Nat
  BY CorpusType DEF CorpusIsCounted
<1>2. CorpusFigure \in Nat
  BY CorpusType DEF CorpusFigure
<1> QED BY <1>1, <1>2, CorpusFigureCounts DEF CorpusIsShown, CorpusIsBehind

LEMMA CorpusBehindStep ==
  ASSUME TypeOK, TypeOK', CorpusIsBehind, CorpusIsShown', [Next]_vars
  PROVE  CorpusIsBehind'
<1>1. CASE pc' \in InLoop \union {"seed"}
  BY <1>1 DEF CorpusIsShown, InLoop
<1>2. CASE Die
  <2>1. live'.corpus = 0
    BY <1>2 DEF Die, WipeMemory, NewLive
  <2>2. CorpusFigure' \in Nat
    BY DEF TypeOK, DiskTypeOK, CorpusFigure
  <2> QED BY <2>1, <2>2 DEF CorpusIsBehind
<1>3. CASE Leave \/ UNCHANGED vars
  <2>1. UNCHANGED <<live, rows, mark>>
    BY <1>3 DEF Leave, vars, disk, memory, ghosts
  <2> QED BY <2>1 DEF CorpusIsBehind, CorpusFigure, Found
<1>4. CASE pc' \notin InLoop \union {"seed"}
  <2>1. Die \/ Leave \/ UNCHANGED vars
    BY <1>4, ExecuteCounts
       DEF Next, OwnStep, Environment, Ended, SeedCorpus, Pick, CountDuplicate,
           RecordNewCrash, SaveCrash, AddSeed, CreditParent, Publish, Launch, CtrlC, InLoop
  <2> QED BY <1>2, <1>3, <2>1
<1> QED BY <1>1, <1>4

(* What corpus_size is, and what the dashboard shows of it.                *)
LEMMA CorpusInvariant == SafetySpec => []CorpusInv
<1>1. Init => CorpusIsCounted /\ CorpusLag /\ CorpusIsBehind
  BY DEF Init, NewStats, NewLive, CorpusIsCounted, CorpusLag, CorpusIsBehind, CorpusFigure,
         Found, InLoop
<1>2. TypeOK /\ ListsInv /\ FiguresInv /\ CorpusIsCounted /\ [Next]_vars => CorpusIsCounted'
  BY CorpusCountedStep DEF ListsInv, FiguresInv
<1>3. TypeOK /\ ListsInv /\ FiguresInv /\ CorpusIsCounted /\ CorpusLag /\ [Next]_vars
        => CorpusLag'
  BY CorpusLagStep DEF ListsInv, FiguresInv
<1>4. TypeOK /\ ListsInv /\ CorpusIsCounted => CorpusIsShown
  BY CorpusIsNotAhead DEF ListsInv
<1>5. TypeOK /\ TypeOK' /\ CorpusIsBehind /\ CorpusIsShown' /\ [Next]_vars => CorpusIsBehind'
  BY CorpusBehindStep
<1>6. CorpusIsCounted /\ CorpusLag /\ CorpusIsBehind => CorpusInv
  BY DEF CorpusInv
<1> QED
  BY <1>1, <1>2, <1>3, <1>4, <1>5, <1>6, TypeCorrect, ListsInvariant, FiguresInvariant, PTL
     DEF SafetySpec

-----------------------------------------------------------------------------
(* What the dashboard shows.                                               *)

(* The invariants say of the figures what the property says. *)
LEMMA FiguresAreRight ==
  ASSUME TypeOK, ListsInv, FiguresInv, CorpusInv
  PROVE  FiguresFollow
<1>1. /\ stats.edges = tracker.total
      /\ CorpusFigure = IF Found = {} THEN 0 ELSE Len(rows)
  BY DEF FiguresInv, CountsTogether, CorpusFigure
<1>2. live \in Live
  BY DEF TypeOK, CountersTypeOK
<1>3. pc = "loop" => live.execs = stats.execs - (stats.execs % LiveEvery)
  <2>1. LiveEvery \in Nat \ {0} /\ stats.execs \in Nat /\ live.execs \in Nat
    BY FiguresType
  <2>2. /\ live.execs % LiveEvery = 0 /\ live.execs <= stats.execs
        /\ pc = "loop" => stats.execs < live.execs + LiveEvery
    BY DEF FiguresInv, CopyIsAligned, LagIsBounded
  <2> QED BY <2>1, <2>2, LastMultiple
<1>4. pc = "loop" /\ stats.execs > 0 /\ live.execs = stats.execs => live = Figures
  <2> SUFFICES ASSUME pc = "loop", stats.execs > 0, live.execs = stats.execs
               PROVE  live = Figures
    OBVIOUS
  <2>1. /\ live.interesting = stats.interesting /\ live.crashes = stats.crashes
        /\ live.timeouts = stats.timeouts /\ live.edges = stats.edges
        /\ live.unique = Len(crashes)
    BY DEF FiguresInv, CopyIsCurrent
  <2>2. live.corpus = CorpusFigure
    <3>1. live.corpus = stats.corpus
      BY DEF CorpusInv, CorpusIsCounted
    <3>2. stats.corpus = CorpusFigure
      BY CorpusFigureCounts DEF ListsInv, CorpusInv, InLoop
    <3> QED BY <3>1, <3>2
  <2> QED BY <1>1, <1>2, <2>1, <2>2 DEF Live, Figures
<1>5. \A f \in DOMAIN live : live[f] <= Figures[f]
  <2>1. /\ live.execs <= stats.execs /\ live.interesting <= stats.interesting
        /\ live.crashes <= stats.crashes /\ live.unique <= Len(crashes)
        /\ live.timeouts <= stats.timeouts /\ live.edges <= tracker.total
        /\ live.corpus <= CorpusFigure
    BY <1>1 DEF FiguresInv, LagIsBounded, CopyIsBehind, CorpusInv, CorpusIsBehind
  <2>2. DOMAIN live = {"execs", "interesting", "crashes", "unique", "timeouts", "corpus",
                       "edges"}
    BY <1>2 DEF Live
  <2>3. /\ Figures.execs = stats.execs /\ Figures.interesting = stats.interesting
        /\ Figures.crashes = stats.crashes /\ Figures.unique = Len(crashes)
        /\ Figures.timeouts = stats.timeouts /\ Figures.edges = tracker.total
        /\ Figures.corpus = CorpusFigure
    BY <1>1 DEF Figures
  <2> QED BY <2>1, <2>2, <2>3
<1> QED
  BY <1>3, <1>4, <1>5 DEF FiguresInv, LagIsAccounted, CorpusInv, CorpusLag, FiguresFollow

(* The figures on the dashboard are those of the last multiple of          *)
(* LiveEvery executions: all of them equal to what the stores and counters *)
(* say at the multiple itself, and behind by no more than the executions   *)
(* since can account for until the next, whatever those ended with.        *)
THEOREM FiguresAreFollowed == SafetySpec => []FiguresFollow
<1>1. TypeOK /\ ListsInv /\ FiguresInv /\ CorpusInv => FiguresFollow
  BY FiguresAreRight
<1> QED
  BY <1>1, TypeCorrect, ListsInvariant, FiguresInvariant, CorpusInvariant, PTL

(* The dashboard follows the campaign: its figures are those of the last   *)
(* multiple of LiveEvery executions, and its lists hold exactly the newest *)
(* finds and crashes of this process, oldest first, for every target, list *)
(* length and number of restarts.                                          *)
THEOREM DashboardIsRight == SafetySpec => []DashboardFollows
<1>1. TypeOK /\ ListsInv /\ FiguresFollow => DashboardFollows
  BY ListsShowNewest DEF DashboardFollows
<1> QED BY <1>1, TypeCorrect, ListsInvariant, FiguresAreFollowed, PTL

-----------------------------------------------------------------------------
(* What the campaign leaves on disk: unique inputs and signatures, crash   *)
(* files that match their rows, severities that match their signatures,    *)
(* across every restart.  Its inductive invariant:                         *)

(* A crash about to be saved is in the database under its signature, with  *)
(* the input at hand, and has no file yet.                                 *)
SaveIsDue ==
  pc = "save" =>
    /\ \E k \in DOMAIN crashes :
         crashes[k].sig = CurrentSignature /\ crashes[k].input = input
    /\ \A f \in DOMAIN files : files[f].sig # CurrentSignature

(* Signature and severity of a row come from one and the same crash. *)
RowsAreOfOneCrash ==
  \A k \in DOMAIN crashes : \E s \in CrashStatuses, i \in Inputs :
    crashes[k].sig = Signature(s, i) /\ crashes[k].severity = Severity(s)

TriageInv == CrashFilesAreFiled /\ SaveIsDue /\ RowsAreOfOneCrash

-----------------------------------------------------------------------------
(* Lemmas on signatures and on the two tables.                             *)

(* A status of a crash is one of three kinds, told apart by its key. *)
LEMMA KindsOfCrash ==
  ASSUME NEW s \in CrashStatuses, NEW i \in Inputs
  PROVE  \/ /\ s.kind = "crash" /\ s.signal \in Nat \ {NoSignal}
            /\ Signature(s, i) = [signal |-> s.signal]
         \/ /\ s.kind = "crash" /\ s.signal = NoSignal
            /\ Signature(s, i) = [head |-> HeadOf[i]]
         \/ /\ s.kind = "error"
            /\ Signature(s, i) = [message |-> s.message]
<1>1. CASE \E sig \in Signals \union {NoSignal} : s = Crash(sig)
  <2>1. PICK sig \in Signals \union {NoSignal} : s = Crash(sig)
    BY <1>1
  <2>2. s.kind = "crash" /\ s.signal = sig /\ sig \in Nat
    BY <2>1, DedupAssumption DEF Crash, NoSignal
  <2> QED
    BY <2>2 DEF Signature, NoSignal
<1>2. CASE \E m \in Messages : s = Error(m)
  <2>1. s.kind = "error"
    BY <1>2 DEF Error
  <2> QED
    BY <2>1 DEF Signature
<1> QED
  BY <1>1, <1>2 DEF CrashStatuses

(* Equal signatures have equal severities: the severity depends on the     *)
(* signal, which the signature holds, and is the lowest one without.       *)
LEMMA SignatureFixesSeverity ==
  ASSUME NEW s \in CrashStatuses, NEW i \in Inputs,
         NEW t \in CrashStatuses, NEW j \in Inputs,
         Signature(s, i) = Signature(t, j)
  PROVE  Severity(s) = Severity(t)
<1>1. CASE s.kind = "crash" /\ s.signal \in Nat \ {NoSignal}
  <2>1. "signal" \in DOMAIN Signature(t, j)
    BY <1>1, KindsOfCrash DEF NoSignal
  <2>2. t.kind = "crash" /\ t.signal = s.signal
    BY <1>1, <2>1, KindsOfCrash DEF NoSignal
  <2> QED
    BY <1>1, <2>2 DEF Severity
<1>2. CASE ~(s.kind = "crash" /\ s.signal \in Nat \ {NoSignal})
  <2>1. "signal" \notin DOMAIN Signature(t, j)
    BY <1>2, KindsOfCrash
  <2>2. ~(t.kind = "crash" /\ t.signal \in Nat \ {NoSignal})
    BY <2>1, KindsOfCrash
  <2>3. Severity(s) = "LOW"
    BY <1>2, KindsOfCrash DEF Severity, NoSignal
  <2>4. Severity(t) = "LOW"
    BY <2>2, KindsOfCrash DEF Severity, NoSignal
  <2> QED
    BY <2>3, <2>4
<1> QED
  BY <1>1, <1>2

(* Counting a pick or a hit of a row changes no input. *)
LEMMA CountingKeepsData ==
  ASSUME DiskTypeOK, NEW k \in DOMAIN rows,
         \/ rows' = [rows EXCEPT ![k].picks = @ + 1]
         \/ rows' = [rows EXCEPT ![k].hits = @ + 1]
  PROVE  DOMAIN rows' = DOMAIN rows /\ \A j \in DOMAIN rows : rows'[j].data = rows[j].data
<1>1. rows[k] \in Row
  BY DEF DiskTypeOK
<1>2. PICK r \in Row : rows' = [rows EXCEPT ![k] = r] /\ r.data = rows[k].data
  BY <1>1, RowCountType
<1> QED
  BY <1>2 DEF DiskTypeOK

(* The steps that touch the corpus table. *)
LEMMA OtherStepsKeepRows ==
  ASSUME [Next]_vars
  PROVE  rows' = rows \/ SeedCorpus \/ AddSeed \/ Pick \/ CreditParent
BY DEF Next, OwnStep, Environment, Ended, Launch, CtrlC, Die, Leave, Execute, Executed,
       RunTimedOut, RunCrashed, RunWasBoring, RunWasInteresting, Returned, CountDuplicate,
       RecordNewCrash, SaveCrash, Publish, vars, disk

(* The steps that touch the triage table. *)
LEMMA OtherStepsKeepCrashes ==
  ASSUME [Next]_vars
  PROVE  crashes' = crashes \/ CountDuplicate \/ RecordNewCrash
BY DEF Next, OwnStep, Environment, Ended, Launch, CtrlC, Die, Leave, Execute, Executed,
       RunTimedOut, RunCrashed, RunWasBoring, RunWasInteresting, Returned, SeedCorpus,
       AddSeed, Pick, CreditParent, SaveCrash, Publish, vars, disk

(* Counting a duplicate changes no key, no severity and no input. *)
LEMMA CountingKeepsCrashes ==
  ASSUME DiskTypeOK, CountDuplicate
  PROVE  /\ DOMAIN crashes' = DOMAIN crashes
         /\ \A k \in DOMAIN crashes :
              /\ crashes'[k].sig = crashes[k].sig
              /\ crashes'[k].severity = crashes[k].severity
              /\ crashes'[k].input = crashes[k].input
<1>1. PICK k \in DOMAIN crashes : crashes' = [crashes EXCEPT ![k].hits = @ + 1]
  BY DEF CountDuplicate
<1>2. crashes[k] \in CrashRow
  BY DEF DiskTypeOK
<1>3. crashes' = [crashes EXCEPT ![k] = [crashes[k] EXCEPT !.hits = @ + 1]]
  BY <1>1
<1>4. LET r == [crashes[k] EXCEPT !.hits = @ + 1]
      IN  /\ r.sig = crashes[k].sig /\ r.severity = crashes[k].severity
          /\ r.input = crashes[k].input
  BY <1>2 DEF CrashRow
<1> QED
  BY <1>1, <1>3, <1>4 DEF DiskTypeOK

(* Appending to a table keeps what it holds. *)
LEMMA AppendKeeps ==
  ASSUME NEW S, NEW s \in Seq(S), NEW x
  PROVE  /\ DOMAIN Append(s, x) = DOMAIN s \union {Len(s) + 1}
         /\ Len(s) + 1 \notin DOMAIN s
         /\ \A k \in DOMAIN s : Append(s, x)[k] = s[k]
         /\ Append(s, x)[Len(s) + 1] = x
OBVIOUS

-----------------------------------------------------------------------------
(* Unique keys.                                                            *)

(* Each step leaves the stores without duplicates: rows are only added     *)
(* after looking for their key, and no step changes a key.                 *)
LEMMA UniqueStep ==
  ASSUME TypeOK, StoresHaveNoDuplicates, [Next]_vars
  PROVE  StoresHaveNoDuplicates'
<1> USE DEF TypeOK
<1> DEFINE UniqueInputs == \A k, m \in DOMAIN rows : rows[k].data = rows[m].data => k = m
           UniqueKeys == \A k, m \in DOMAIN crashes : crashes[k].sig = crashes[m].sig => k = m
<1>1. SUFFICES UniqueInputs' /\ UniqueKeys'
  BY DEF StoresHaveNoDuplicates
<1>2. UniqueInputs /\ UniqueKeys
  BY DEF StoresHaveNoDuplicates
<1>3. rows \in Seq(Row) /\ crashes \in Seq(CrashRow)
  BY DEF DiskTypeOK
<1>4. UniqueInputs'
  <2>1. CASE rows' = rows
    BY <1>2, <2>1
  <2>2. ASSUME NEW d, NEW e, ~InCorpus(d), rows' = Append(rows, NewRow(d, e))
        PROVE  UniqueInputs'
    <3>1. NewRow(d, e).data = d
      BY DEF NewRow
    <3> QED BY <1>2, <1>3, <2>2, <3>1, AppendKeeps DEF InCorpus
  <2>3. ASSUME NEW k \in DOMAIN rows,
               \/ rows' = [rows EXCEPT ![k].picks = @ + 1]
               \/ rows' = [rows EXCEPT ![k].hits = @ + 1]
        PROVE  UniqueInputs'
    <3>1. DOMAIN rows' = DOMAIN rows /\ \A j \in DOMAIN rows : rows'[j].data = rows[j].data
      BY <2>3, CountingKeepsData
    <3> QED BY <1>2, <3>1
  <2>4. CASE SeedCorpus
    BY <2>1, <2>2, <2>4 DEF SeedCorpus
  <2>5. CASE AddSeed
    BY <2>1, <2>2, <2>5 DEF AddSeed
  <2>6. CASE Pick
    BY <2>1, <2>3, <2>6 DEF Pick, Candidates
  <2>7. CASE CreditParent
    <3>1. base \in DOMAIN rows
      BY <2>7 DEF CreditParent, StageOK, InLoop
    <3> QED BY <2>3, <2>7, <3>1 DEF CreditParent
  <2> QED BY <2>1, <2>4, <2>5, <2>6, <2>7, OtherStepsKeepRows
<1>5. UniqueKeys'
  <2>1. CASE crashes' = crashes
    BY <1>2, <2>1
  <2>2. CASE CountDuplicate
    BY <1>2, <2>2, CountingKeepsCrashes
  <2>3. CASE RecordNewCrash
    BY <1>2, <1>3, <2>3, AppendKeeps DEF RecordNewCrash
  <2> QED BY <2>1, <2>2, <2>3, OtherStepsKeepCrashes
<1> QED
  BY <1>1, <1>4, <1>5

(* No input is stored twice in the corpus and no signature twice in the    *)
(* triage database, over any number of restarts.                           *)
THEOREM StoresAreUnique == SafetySpec => []StoresHaveNoDuplicates
<1>1. Init => StoresHaveNoDuplicates
  BY DEF Init, StoresHaveNoDuplicates
<1>2. TypeOK /\ StoresHaveNoDuplicates /\ [Next]_vars => StoresHaveNoDuplicates'
  BY UniqueStep
<1> QED
  BY <1>1, <1>2, TypeCorrect, PTL DEF SafetySpec

-----------------------------------------------------------------------------
(* Crash files and severities.                                             *)

(* Triage of a crash keeps the invariant: a duplicate changes no key, and  *)
(* a new signature has no file, because every file is filed under a row.   *)
LEMMA RecordKeepsTriage ==
  ASSUME TypeOK, TriageInv, CountDuplicate \/ RecordNewCrash
  PROVE  TriageInv'
<1> USE DEF TypeOK
<1>1. /\ pc = "record" /\ input \in Inputs /\ result.status \in CrashStatuses
      /\ crashes \in Seq(CrashRow)
  <2>1. /\ pc = "record" /\ input \in Inputs /\ result \in Results(input)
        /\ result.status.kind \in {"crash", "error"}
    BY DEF CountDuplicate, RecordNewCrash, StageOK, InLoop
  <2> QED BY <2>1, ResultsType DEF DiskTypeOK
<1>2. UNCHANGED <<files, input, result>> /\ CurrentSignature' = CurrentSignature
  BY DEF CountDuplicate, RecordNewCrash, memory, CurrentSignature
<1>3. CASE CountDuplicate
  <2>1. pc' = "publish"
    BY <1>3 DEF CountDuplicate
  <2>2. RowsAreOfOneCrash'
    BY <1>3, CountingKeepsCrashes DEF TriageInv, RowsAreOfOneCrash
  <2>3. CrashFilesAreFiled'
    BY <1>2, <1>3, CountingKeepsCrashes DEF TriageInv, CrashFilesAreFiled
  <2> QED BY <2>1, <2>2, <2>3 DEF TriageInv, SaveIsDue
<1>4. CASE RecordNewCrash
  <2> DEFINE r == [sig |-> CurrentSignature, severity |-> Severity(result.status),
                   input |-> input, hits |-> 1]
  <2>1. /\ crashes' = Append(crashes, r)
        /\ \A k \in DOMAIN crashes : crashes[k].sig # CurrentSignature
    BY <1>4 DEF RecordNewCrash
  <2>2. /\ DOMAIN crashes' = DOMAIN crashes \union {Len(crashes) + 1}
        /\ \A k \in DOMAIN crashes : crashes'[k] = crashes[k]
        /\ crashes'[Len(crashes) + 1] = r
    BY <1>1, <2>1, AppendKeeps
  <2>3. r.sig = Signature(result.status, input) /\ r.severity = Severity(result.status)
        /\ r.sig = CurrentSignature /\ r.input = input
    BY DEF CurrentSignature
  <2> HIDE DEF r
  <2>4. RowsAreOfOneCrash'
    BY <1>1, <2>2, <2>3 DEF TriageInv, RowsAreOfOneCrash
  <2>5. \A f \in DOMAIN files : files[f].sig # CurrentSignature
    BY <2>1 DEF TriageInv, CrashFilesAreFiled
  <2>6. CrashFilesAreFiled'
    BY <1>2, <2>2 DEF TriageInv, CrashFilesAreFiled
  <2>7. SaveIsDue'
    BY <1>2, <2>2, <2>3, <2>5 DEF SaveIsDue
  <2> QED BY <2>4, <2>6, <2>7 DEF TriageInv
<1> QED
  BY <1>3, <1>4

(* Saving a crash files it under the row that is due. *)
LEMMA SaveKeepsTriage ==
  ASSUME TypeOK, TriageInv, SaveCrash
  PROVE  TriageInv'
<1> DEFINE file == [sig |-> CurrentSignature, input |-> input]
<1>1. /\ pc = "save" /\ pc' = "publish" /\ crashes' = crashes
      /\ files' = Append(files, file)
  BY DEF SaveCrash
<1>2. files \in Seq([sig : Keys, input : Inputs])
  BY DEF TypeOK, DiskTypeOK
<1>3. /\ DOMAIN files' = DOMAIN files \union {Len(files) + 1}
      /\ \A f \in DOMAIN files : files'[f] = files[f]
      /\ files'[Len(files) + 1] = file
  BY <1>1, <1>2, AppendKeeps
<1>4. file.sig = CurrentSignature /\ file.input = input
  OBVIOUS
<1> HIDE DEF file
<1>5. CrashFilesAreFiled'
  BY <1>1, <1>3, <1>4 DEF TriageInv, SaveIsDue, CrashFilesAreFiled
<1>6. RowsAreOfOneCrash' /\ SaveIsDue'
  BY <1>1 DEF TriageInv, RowsAreOfOneCrash, SaveIsDue
<1> QED
  BY <1>5, <1>6 DEF TriageInv

(* Each step keeps the invariant. *)
LEMMA TriageStep ==
  ASSUME TypeOK, TriageInv, [Next]_vars
  PROVE  TriageInv'
<1>1. CASE CountDuplicate \/ RecordNewCrash
  BY <1>1, RecordKeepsTriage
<1>2. CASE SaveCrash
  BY <1>2, SaveKeepsTriage
<1>3. CASE CtrlC \/ UNCHANGED vars
  <2>1. UNCHANGED <<crashes, files, pc, input, result>>
    BY <1>3 DEF CtrlC, vars, disk, memory
  <2> QED BY <2>1 DEF TriageInv, CrashFilesAreFiled, RowsAreOfOneCrash, SaveIsDue,
                      CurrentSignature
<1>4. CASE /\ UNCHANGED <<crashes, files>>
           /\ pc' # "save"
  BY <1>4 DEF TriageInv, CrashFilesAreFiled, RowsAreOfOneCrash, SaveIsDue
<1>5. CASE Launch \/ Die \/ SeedCorpus \/ Pick \/ Execute \/ AddSeed \/ CreditParent
           \/ Publish \/ Leave
  <2>1. UNCHANGED <<crashes, files>> /\ pc' # "save"
    BY <1>5 DEF Launch, Die, SeedCorpus, Pick, Execute, Executed, RunTimedOut, RunCrashed,
                RunWasBoring, RunWasInteresting, Returned, AddSeed, CreditParent, Publish,
                Leave, disk
  <2> QED BY <1>4, <2>1
<1> QED
  BY <1>1, <1>2, <1>3, <1>5 DEF Next, OwnStep, Environment, Ended

(* The invariant holds in every reachable state. *)
LEMMA TriageIsSound == SafetySpec => []TriageInv
<1>1. Init => TriageInv
  BY DEF Init, TriageInv, CrashFilesAreFiled, SaveIsDue, RowsAreOfOneCrash
<1>2. TypeOK /\ TriageInv /\ [Next]_vars => TriageInv'
  BY TriageStep
<1> QED
  BY <1>1, <1>2, TypeCorrect, PTL DEF SafetySpec

(* Every crash file holds the input filed under its signature and no       *)
(* signature has two files, wherever earlier processes ended.              *)
THEOREM CrashFilesMatchRows == SafetySpec => []CrashFilesAreFiled
<1>1. TriageInv => CrashFilesAreFiled
  BY DEF TriageInv
<1> QED
  BY <1>1, TriageIsSound, PTL

(* A crash that counts as a duplicate has the severity of its row, though  *)
(* the row may come from another input and another process.                *)
THEOREM DuplicatesAreOfOneSeverity == SafetySpec => []DuplicatesShareSeverity
<1>1. TypeOK /\ TriageInv => DuplicatesShareSeverity
  <2> SUFFICES ASSUME TypeOK, TriageInv, pc = "record", NEW k \in DOMAIN crashes,
                      crashes[k].sig = CurrentSignature
               PROVE  crashes[k].severity = Severity(result.status)
    BY DEF DuplicatesShareSeverity
  <2>1. input \in Inputs /\ result.status \in CrashStatuses
    <3>1. /\ input \in Inputs /\ result \in Results(input)
          /\ result.status.kind \in {"crash", "error"}
      BY DEF TypeOK, StageOK, InLoop
    <3> QED BY <3>1, ResultsType
  <2>2. PICK s \in CrashStatuses, i \in Inputs :
          crashes[k].sig = Signature(s, i) /\ crashes[k].severity = Severity(s)
    BY DEF TriageInv, RowsAreOfOneCrash
  <2>3. Signature(s, i) = Signature(result.status, input)
    BY <2>2 DEF CurrentSignature
  <2>4. Severity(s) = Severity(result.status)
    BY <2>1, <2>3, SignatureFixesSeverity
  <2> QED
    BY <2>2, <2>4
<1> QED
  BY <1>1, TypeCorrect, TriageIsSound, PTL

-----------------------------------------------------------------------------
(* The finds of a process.                                                 *)

FoundInputs == {rows[k].data : k \in Found}

(* The tracker has seen what the finds run through and counted no less, and *)
(* an input about to be stored runs through more.                          *)
FoundIsSeen ==
  pc \in InLoop =>
    /\ EdgesOf(FoundInputs) \subseteq tracker.seen
    /\ \A k \in Found : rows[k].edges <= tracker.total
    /\ pc = "insert" =>
         /\ Covers[input] \subseteq tracker.seen
         /\ ~ (Covers[input] \subseteq EdgesOf(FoundInputs))
         /\ \A k \in Found : rows[k].edges < tracker.total

(* Each kept seed adds coverage, as a property of which rows are finds and *)
(* of their inputs and edge counts: a step that leaves those keeps it.     *)
LEMMA FindsUntouched ==
  ASSUME DOMAIN rows' = DOMAIN rows, mark' = mark,
         \A k \in DOMAIN rows : rows'[k].data = rows[k].data /\ rows'[k].edges = rows[k].edges
  PROVE  /\ Found' = Found /\ FoundInputs' = FoundInputs
         /\ \A k \in Found : rows'[k].data = rows[k].data /\ rows'[k].edges = rows[k].edges
         /\ KeptSeedsAddCoverage => KeptSeedsAddCoverage'
<1>1. Found' = Found
  BY DEF Found
<1>2. \A k \in Found : rows'[k].data = rows[k].data /\ rows'[k].edges = rows[k].edges
  BY DEF Found
<1>3. FoundInputs' = FoundInputs
  BY <1>1, <1>2 DEF FoundInputs
<1>4. ASSUME NEW k \in Found
      PROVE  EdgesOf({rows'[j].data : j \in {f \in Found' : f < k}})
               = EdgesOf({rows[j].data : j \in {f \in Found : f < k}})
  <2>1. {rows'[j].data : j \in {f \in Found' : f < k}}
          = {rows[j].data : j \in {f \in Found : f < k}}
    BY <1>1, <1>2
  <2> QED BY <2>1
<1>5. ASSUME KeptSeedsAddCoverage, NEW k \in Found, NEW m \in Found, m < k
      PROVE  /\ ~ (Covers[rows'[k].data] \subseteq
                    EdgesOf({rows'[j].data : j \in {f \in Found' : f < k}}))
             /\ rows'[m].edges < rows'[k].edges
  BY <1>2, <1>4, <1>5 DEF KeptSeedsAddCoverage
<1> QED BY <1>1, <1>2, <1>3, <1>5 DEF KeptSeedsAddCoverage

(* Picks and credits are such steps. *)
LEMMA CountingKeepsFinds ==
  ASSUME TypeOK, NEW k \in DOMAIN rows,
         \/ rows' = [rows EXCEPT ![k].picks = @ + 1]
         \/ rows' = [rows EXCEPT ![k].hits = @ + 1]
  PROVE  /\ DOMAIN rows' = DOMAIN rows
         /\ \A j \in DOMAIN rows : rows'[j].data = rows[j].data /\ rows'[j].edges = rows[j].edges
<1>1. /\ DOMAIN rows' = DOMAIN rows
      /\ \A j \in DOMAIN rows : rows'[j].data = rows[j].data
  BY CountingKeepsData DEF TypeOK
<1>2. EdgesColumn' = EdgesColumn
  BY CountingKeepsEdges
<1>3. \A j \in DOMAIN rows : rows'[j].edges = EdgesColumn'[j] /\ rows[j].edges = EdgesColumn[j]
  BY <1>1 DEF EdgesColumn
<1> QED BY <1>1, <1>2, <1>3

(* Coverage that is new is that of the whole run. *)
LEMMA FreshIsWhole ==
  ASSUME NEW i \in Inputs, NEW r \in Results(i), Fresh(r) # {}
  PROVE  r.cov = Covers[i]
BY DEF Results, Fresh

(* A seed stored after all finds of the process adds to what they run through. *)
LEMMA StoredSeedAdds ==
  ASSUME TypeOK, OnTheWay, FindsAreLast, FoundIsSeen, KeptSeedsAddCoverage,
         AddSeed, ~InCorpus(input)
  PROVE  FoundIsSeen' /\ KeptSeedsAddCoverage'
<1> DEFINE new == Len(rows) + 1
<1>1. /\ pc = "insert" /\ pc' = "credit" /\ mark' = mark /\ tracker' = tracker
      /\ rows' = Append(rows, NewRow(input, tracker.total))
  BY DEF AddSeed, memory, ghosts
<1>2. /\ rows \in Seq(Row) /\ Len(rows) \in Nat /\ DOMAIN rows = 1..Len(rows)
      /\ mark.rows \in Nat /\ rewards \in Nat /\ tracker.total \in Nat /\ tracker.total > 0
      /\ mark.rows <= Len(rows) /\ input \in Inputs
  BY <1>1 DEF TypeOK, DiskTypeOK, CountersTypeOK, StageOK, OnTheWay, FindsAreLast, InLoop,
              CreditedUpTo
<1>3. /\ DOMAIN rows' = DOMAIN rows \union {new} /\ new \notin DOMAIN rows
      /\ \A k \in DOMAIN rows : rows'[k] = rows[k]
      /\ rows'[new].data = input /\ rows'[new].edges = tracker.total
  BY <1>1, <1>2, AppendKeeps DEF NewRow
<1>4. Found' = Found \union {new} /\ Found \subseteq DOMAIN rows
  BY <1>1, <1>2, <1>3 DEF Found
<1>5. FoundInputs' = FoundInputs \union {input}
  BY <1>3, <1>4 DEF FoundInputs
<1>6. /\ EdgesOf(FoundInputs) \subseteq tracker.seen
      /\ Covers[input] \subseteq tracker.seen
      /\ ~ (Covers[input] \subseteq EdgesOf(FoundInputs))
      /\ \A k \in Found : rows[k].edges < tracker.total
  BY <1>1 DEF FoundIsSeen, InLoop
<1>7. FoundIsSeen'
  <2>1. EdgesOf(FoundInputs') \subseteq tracker.seen
    BY <1>5, <1>6 DEF EdgesOf
  <2>2. \A k \in Found' : rows'[k].edges <= tracker.total
    <3> TAKE k \in Found'
    <3>1. CASE k = new
      BY <1>2, <1>3, <3>1
    <3>2. CASE k \in Found
      <4>1. rows'[k] = rows[k] /\ rows[k] \in Row
        BY <1>2, <1>3, <1>4, <3>2
      <4>2. rows'[k].edges < tracker.total
        BY <1>6, <3>2, <4>1
      <4>3. rows'[k].edges \in Nat
        BY <4>1 DEF Row
      <4> QED BY <1>2, <4>2, <4>3
    <3> QED BY <1>4, <3>1, <3>2
  <2> QED BY <1>1, <2>1, <2>2 DEF FoundIsSeen
<1>8. ASSUME NEW k \in Found', NEW m \in Found', m < k
      PROVE  /\ ~ (Covers[rows'[k].data] \subseteq
                    EdgesOf({rows'[j].data : j \in {f \in Found' : f < k}}))
             /\ rows'[m].edges < rows'[k].edges
  <2>1. \A f \in Found : f \in 1..Len(rows) /\ f < new /\ rows'[f] = rows[f]
    BY <1>2, <1>3, <1>4
  <2>2. m \in Found
    BY <1>2, <1>4, <1>8, <2>1
  <2>3. CASE k = new
    <3>1. {f \in Found' : f < k} = Found
      BY <1>2, <1>4, <2>1, <2>3
    <3>2. {rows'[j].data : j \in Found} = FoundInputs
      BY <2>1 DEF FoundInputs
    <3> QED BY <1>3, <1>6, <2>1, <2>2, <2>3, <3>1, <3>2
  <2>4. CASE k \in Found
    <3>1. {f \in Found' : f < k} = {f \in Found : f < k}
      BY <1>2, <1>4, <2>1, <2>4
    <3>2. {rows'[j].data : j \in {f \in Found : f < k}}
            = {rows[j].data : j \in {f \in Found : f < k}}
      BY <2>1
    <3>3. /\ ~ (Covers[rows[k].data] \subseteq
                  EdgesOf({rows[j].data : j \in {f \in Found : f < k}}))
          /\ rows[m].edges < rows[k].edges
      BY <1>8, <2>2, <2>4 DEF KeptSeedsAddCoverage
    <3> QED BY <2>1, <2>2, <2>4, <3>1, <3>2, <3>3
  <2> QED BY <1>4, <2>3, <2>4
<1> QED BY <1>7, <1>8 DEF KeptSeedsAddCoverage

(* Execution of an input with new coverage makes it one worth storing. *)
LEMMA FreshRunIsNew ==
  ASSUME TypeOK, FoundIsSeen, Execute
  PROVE  FoundIsSeen' /\ (KeptSeedsAddCoverage => KeptSeedsAddCoverage')
<1>1. PICK r \in Results(input) : Executed(r)
  BY DEF Execute
<1>2. /\ pc = "execute" /\ rows' = rows /\ input' = input /\ mark' = mark /\ input \in Inputs
      /\ tracker.total \in Nat /\ rows \in Seq(Row)
  BY <1>1 DEF Executed, RunTimedOut, RunCrashed, RunWasBoring, RunWasInteresting,
              Returned, disk, ghosts, TypeOK, StageOK, CountersTypeOK, DiskTypeOK
<1>3. /\ Found' = Found /\ FoundInputs' = FoundInputs
      /\ KeptSeedsAddCoverage => KeptSeedsAddCoverage'
  BY <1>2, FindsUntouched
<1>4. /\ EdgesOf(FoundInputs) \subseteq tracker.seen
      /\ \A k \in Found : rows[k].edges <= tracker.total /\ rows[k].edges \in Nat
  <2>1. \A k \in Found : rows[k] \in Row
    BY <1>2 DEF Found
  <2> QED BY <1>2, <2>1 DEF FoundIsSeen, InLoop, Row
<1>5. CASE RunWasInteresting(r)
  <2>1. /\ pc' = "insert" /\ tracker'.seen = tracker.seen \union r.cov
        /\ tracker'.total = tracker.total + Cardinality(Fresh(r)) /\ Fresh(r) # {}
    BY <1>5 DEF RunWasInteresting
  <2>2. r.cov = Covers[input] /\ Cardinality(Fresh(r)) \in Nat \ {0}
    BY <1>1, <1>2, <2>1, FreshIsWhole, FreshCounts
  <2>3. ~ (Covers[input] \subseteq EdgesOf(FoundInputs))
    BY <1>4, <2>1, <2>2 DEF Fresh
  <2>4. \A k \in Found : rows[k].edges < tracker'.total /\ rows[k].edges <= tracker'.total
    BY <1>2, <1>4, <2>1, <2>2
  <2>5. EdgesOf(FoundInputs) \subseteq tracker'.seen /\ Covers[input] \subseteq tracker'.seen
    BY <1>4, <2>1, <2>2
  <2> QED BY <1>2, <1>3, <2>1, <2>3, <2>4, <2>5 DEF FoundIsSeen
<1>6. CASE RunTimedOut(r) \/ RunCrashed(r) \/ RunWasBoring(r)
  <2>1. tracker' = tracker /\ pc' # "insert"
    BY <1>6 DEF RunTimedOut, RunCrashed, RunWasBoring
  <2> QED BY <1>2, <1>3, <1>4, <2>1 DEF FoundIsSeen
<1> QED BY <1>1, <1>3, <1>5, <1>6 DEF Executed

(* Every step keeps every find an addition to the coverage.                *)
LEMMA FoundStep ==
  ASSUME TypeOK, OnTheWay, FindsAreLast, FoundIsSeen, KeptSeedsAddCoverage, [Next]_vars
  PROVE  FoundIsSeen' /\ KeptSeedsAddCoverage'
<1>1. CASE Launch
  <2>1. Found' = {}
    BY <1>1 DEF Launch, disk, Found, TypeOK, DiskTypeOK
  <2>2. EdgesOf(FoundInputs') = {} /\ pc' # "insert"
    BY <1>1, <2>1 DEF FoundInputs, EdgesOf, Launch
  <2> QED BY <2>1, <2>2 DEF FoundIsSeen, KeptSeedsAddCoverage
<1>2. CASE SeedCorpus
  <2>1. pc = "seed" /\ pc' # "insert" /\ mark' = mark /\ Len(rows) \in Nat
    BY <1>2 DEF SeedCorpus, ghosts, TypeOK, DiskTypeOK
  <2>2. Found = {}
    <3>1. Found = (Len(rows) - 0 + 1)..Len(rows)
      BY <2>1 DEF FindsAreLast, CreditedUpTo
    <3> QED BY <2>1, <3>1
  <2>3. Found' = {}
    <3>1. CASE rows' = rows
      BY <2>1, <2>2, <3>1 DEF Found
    <3>2. CASE rows' = Append(rows, NewRow(Head(pending), 0))
      <4>1. rows \in Seq(Row)
        BY DEF TypeOK, DiskTypeOK
      <4>2. \A k \in DOMAIN rows' : rows'[k].edges = 0 \/ (k \in DOMAIN rows /\ rows'[k] = rows[k])
        BY <3>2, <4>1, AppendKeeps DEF NewRow
      <4> QED BY <2>1, <2>2, <4>2 DEF Found
    <3> QED BY <1>2, <3>1, <3>2 DEF SeedCorpus
  <2>4. EdgesOf(FoundInputs') = {}
    BY <2>3 DEF FoundInputs, EdgesOf
  <2> QED BY <2>1, <2>3, <2>4 DEF FoundIsSeen, KeptSeedsAddCoverage
<1>3. CASE Execute
  BY <1>3, FreshRunIsNew
<1>4. CASE AddSeed /\ ~InCorpus(input)
  BY <1>4, StoredSeedAdds
<1>5. CASE Pick \/ CreditParent
  <2>1. /\ mark' = mark /\ tracker' = tracker /\ pc \in InLoop /\ pc' # "insert"
        /\ \E k \in DOMAIN rows : \/ rows' = [rows EXCEPT ![k].picks = @ + 1]
                                  \/ rows' = [rows EXCEPT ![k].hits = @ + 1]
    BY <1>5 DEF Pick, CreditParent, ghosts, Candidates, TypeOK, StageOK, InLoop
  <2>2. /\ DOMAIN rows' = DOMAIN rows
        /\ \A j \in DOMAIN rows : rows'[j].data = rows[j].data /\ rows'[j].edges = rows[j].edges
    BY <2>1, CountingKeepsFinds
  <2>3. /\ Found' = Found /\ FoundInputs' = FoundInputs /\ KeptSeedsAddCoverage'
        /\ \A k \in Found : rows'[k].edges = rows[k].edges
    BY <2>1, <2>2, FindsUntouched
  <2> QED BY <2>1, <2>3 DEF FoundIsSeen
<1>6. CASE Die
  <2>1. /\ rows' = rows /\ mark' = mark /\ pc' = "down"
    BY <1>6 DEF Die, disk
  <2> QED BY <2>1, FindsUntouched DEF FoundIsSeen, InLoop
<1>7. CASE \/ Leave \/ CountDuplicate \/ RecordNewCrash \/ SaveCrash \/ Publish
           \/ (AddSeed /\ InCorpus(input))
  <2>1. /\ rows' = rows /\ mark' = mark /\ tracker' = tracker
        /\ pc \in InLoop /\ pc' # "insert"
    BY <1>7 DEF Leave, CountDuplicate, RecordNewCrash, SaveCrash, Publish, AddSeed,
                disk, memory, ghosts, InLoop
  <2>2. Found' = Found /\ FoundInputs' = FoundInputs /\ KeptSeedsAddCoverage'
    BY <2>1, FindsUntouched
  <2> QED BY <2>1, <2>2 DEF FoundIsSeen
<1>8. CASE CtrlC \/ UNCHANGED vars
  <2>1. UNCHANGED <<rows, mark, tracker, pc, input>>
    BY <1>8 DEF CtrlC, vars, disk, memory, ghosts
  <2>2. Found' = Found /\ FoundInputs' = FoundInputs /\ KeptSeedsAddCoverage'
    BY <2>1, FindsUntouched
  <2> QED BY <2>1, <2>2 DEF FoundIsSeen
<1> QED
  BY <1>1, <1>2, <1>3, <1>4, <1>5, <1>6, <1>7, <1>8 DEF Next, OwnStep, Environment, Ended

(* "Inputs that do not are discarded" (README.md:17): whatever is inter-   *)
(* rupted and started again, each seed a process finds runs through an     *)
(* edge none of its earlier finds ran through, and is stored with a larger *)
(* edge count than they.                                                   *)
THEOREM EveryFindAddsCoverage == SafetySpec => []KeptSeedsAddCoverage
<1>1. Init => FoundIsSeen /\ KeptSeedsAddCoverage
  BY DEF Init, FoundIsSeen, KeptSeedsAddCoverage, Found, InLoop
<1>2. /\ TypeOK /\ ListsInv /\ FoundIsSeen /\ KeptSeedsAddCoverage /\ [Next]_vars
      => FoundIsSeen' /\ KeptSeedsAddCoverage'
  BY FoundStep DEF ListsInv
<1>3. SafetySpec => [](FoundIsSeen /\ KeptSeedsAddCoverage)
  BY <1>1, <1>2, TypeCorrect, ListsInvariant, PTL DEF SafetySpec
<1> QED BY <1>3, PTL

-----------------------------------------------------------------------------
(* Starvation.                                                             *)

(* the rows whose score is not 0 *)
Scoring == {m \in DOMAIN rows : rows[m].hits > 0 \/ rows[m].edges > 0}

(* A row of a positive score outranks a row of score 0, whatever their picks. *)
LEMMA ScoringOutranks ==
  ASSUME NEW r \in Row, NEW s \in Row, r.hits > 0 \/ r.edges > 0, s.hits = 0, s.edges = 0
  PROVE  Outranks(r, s)
<1> DEFINE score == r.hits * 10 + r.edges
           n == s.picks + 1
<1>1. score \in Nat /\ score > 0 /\ n \in Nat /\ n > 0 /\ r.picks + 1 \in Nat
  BY DEF Row
<1>2. s.hits * 10 + s.edges = 0
  OBVIOUS
<1> HIDE DEF score, n
<1>3. score * n > 0
  BY <1>1
<1>4. 0 * (r.picks + 1) = 0
  BY <1>1
<1> QED BY <1>2, <1>3, <1>4 DEF Outranks, score, n

(* A starved seed is behind PickLimit others and no pick returns it. *)
LEMMA StarvedIsNoCandidate ==
  ASSUME TypeOK, NEW k \in Starved
  PROVE  k \notin Candidates
<1> DEFINE Ahead == {m \in DOMAIN rows : Outranks(rows[m], rows[k])}
<1>1. rows \in Seq(Row) /\ k \in DOMAIN rows /\ rows[k].hits = 0 /\ rows[k].edges = 0
  BY DEF TypeOK, DiskTypeOK, Starved
<1>2. Scoring \subseteq Ahead
  BY <1>1, ScoringOutranks DEF Scoring
<1>3. IsFiniteSet(Ahead)
  <2>1. IsFiniteSet(DOMAIN rows)
    BY <1>1, FS_Interval
  <2> QED BY <2>1, FS_Subset
<1>4. Cardinality(Scoring) <= Cardinality(Ahead)
  BY <1>2, <1>3, FS_Subset
<1>5. Cardinality(Scoring) \in Nat /\ Cardinality(Ahead) \in Nat
  BY <1>2, <1>3, FS_Subset, FS_CardinalityType
<1>6. Cardinality(Scoring) >= PickLimit
  BY DEF Starved, Scoring
<1>7. ~ (Cardinality(Ahead) < PickLimit)
  BY <1>4, <1>5, <1>6, CampaignAssumption
<1> QED BY <1>7 DEF Candidates

(* A step that leaves a starved seed alone and lets no score fall to 0.    *)
LEMMA StaysStarved ==
  ASSUME TypeOK, NEW k \in Starved, DOMAIN rows \subseteq DOMAIN rows',
         IsFiniteSet(DOMAIN rows'), rows'[k] = rows[k],
         \A m \in Scoring : rows'[m].hits > 0 \/ rows'[m].edges > 0
  PROVE  k \in Starved' /\ rows'[k] = rows[k]
<1>1. Scoring \subseteq Scoring'
  BY DEF Scoring
<1>2. IsFiniteSet(Scoring')
  BY FS_Subset DEF Scoring
<1>3. /\ Cardinality(Scoring) \in Nat /\ Cardinality(Scoring') \in Nat
      /\ Cardinality(Scoring) <= Cardinality(Scoring')
  BY <1>1, <1>2, FS_Subset, FS_CardinalityType
<1>4. Cardinality(Scoring) >= PickLimit
  BY DEF Starved, Scoring
<1>5. Cardinality(Scoring') >= PickLimit
  BY <1>3, <1>4, CampaignAssumption
<1>6. k \in DOMAIN rows' /\ rows'[k].hits = 0 /\ rows'[k].edges = 0
  BY DEF Starved
<1> QED BY <1>5, <1>6 DEF Starved, Scoring

(* Counting a pick or a hit elsewhere is such a step. *)
LEMMA CountingKeepsStarved ==
  ASSUME TypeOK, NEW k \in Starved, NEW j \in DOMAIN rows, j # k,
         \/ rows' = [rows EXCEPT ![j].picks = @ + 1]
         \/ rows' = [rows EXCEPT ![j].hits = @ + 1]
  PROVE  k \in Starved' /\ rows'[k] = rows[k]
<1>1. rows \in Seq(Row) /\ rows[j] \in Row /\ k \in DOMAIN rows
  BY DEF TypeOK, DiskTypeOK, Starved
<1>2. DOMAIN rows' = DOMAIN rows /\ \A m \in DOMAIN rows \ {j} : rows'[m] = rows[m]
  BY <1>1
<1>3. rows'[j].edges = rows[j].edges /\ (rows[j].hits > 0 => rows'[j].hits > 0)
  <2>1. rows[j].hits \in Nat
    BY <1>1 DEF Row
  <2>2. CASE rows' = [rows EXCEPT ![j].picks = @ + 1]
    <3>1. rows'[j] = [rows[j] EXCEPT !.picks = @ + 1]
      BY <1>1, <2>2
    <3> QED BY <1>1, <3>1 DEF Row
  <2>3. CASE rows' = [rows EXCEPT ![j].hits = @ + 1]
    <3>1. rows'[j] = [rows[j] EXCEPT !.hits = @ + 1]
      BY <1>1, <2>3
    <3> QED BY <1>1, <2>1, <3>1 DEF Row
  <2> QED BY <2>2, <2>3
<1>4. \A m \in Scoring : rows'[m].hits > 0 \/ rows'[m].edges > 0
  BY <1>2, <1>3 DEF Scoring
<1>5. IsFiniteSet(DOMAIN rows')
  <2>1. DOMAIN rows = 1..Len(rows) /\ Len(rows) \in Int
    BY <1>1
  <2>2. IsFiniteSet(DOMAIN rows)
    BY <2>1, FS_Interval
  <2> QED BY <1>2, <2>2
<1> QED BY <1>1, <1>2, <1>4, <1>5, StaysStarved

(* The same of a new row. *)
LEMMA AppendingKeepsStarved ==
  ASSUME TypeOK, NEW k \in Starved, NEW row \in Row, rows' = Append(rows, row)
  PROVE  k \in Starved' /\ rows'[k] = rows[k]
<1>1. rows \in Seq(Row) /\ k \in DOMAIN rows
  BY DEF TypeOK, DiskTypeOK, Starved
<1>2. /\ DOMAIN rows' = DOMAIN rows \union {Len(rows) + 1}
      /\ \A m \in DOMAIN rows : rows'[m] = rows[m]
  BY <1>1, AppendKeeps
<1>3. IsFiniteSet(DOMAIN rows')
  <2>1. IsFiniteSet(DOMAIN rows)
    BY <1>1, FS_Interval
  <2>2. IsFiniteSet(DOMAIN rows \union {Len(rows) + 1})
    BY <2>1, FS_AddElement
  <2> QED BY <1>2, <2>2
<1> QED BY <1>1, <1>2, <1>3, StaysStarved DEF Scoring

(* A seed whose score is 0 while PickLimit seeds have a positive one is    *)
(* never picked again, now or in a later process; only a credit owed to it *)
(* can bring it back.                                                      *)
THEOREM StarvationIsForGood == SafetySpec => StarvedSeedsStayStarved
<1>1. ASSUME TypeOK, [Next]_vars, NEW k \in Starved
      PROVE  (pc = "credit" /\ k = base) \/ (k \in Starved' /\ rows'[k] = rows[k])
  <2>1. CASE rows' = rows
    BY <1>1, <2>1 DEF Starved
  <2>2. CASE Pick
    <3>1. PICK j \in Candidates : rows' = [rows EXCEPT ![j].picks = @ + 1]
      BY <1>1, <2>2 DEF Pick, TypeOK, InLoop
    <3>2. j \in DOMAIN rows /\ j # k
      BY <1>1, StarvedIsNoCandidate DEF Candidates
    <3> QED BY <1>1, <3>1, <3>2, CountingKeepsStarved
  <2>3. CASE CreditParent
    <3>1. /\ pc = "credit" /\ base \in DOMAIN rows
          /\ rows' = [rows EXCEPT ![base].hits = @ + 1]
      BY <1>1, <2>3 DEF CreditParent, TypeOK, StageOK, InLoop
    <3> QED BY <1>1, <3>1, CountingKeepsStarved
  <2>4. CASE SeedCorpus
    <3>1. Head(pending) \in Inputs
      BY <1>1, <2>4 DEF SeedCorpus, TypeOK, StageOK
    <3>2. NewRow(Head(pending), 0) \in Row
      BY <3>1, NewRowType
    <3> QED BY <1>1, <2>1, <2>4, <3>2, AppendingKeepsStarved DEF SeedCorpus
  <2>5. CASE AddSeed
    <3>1. NewRow(input, tracker.total) \in Row
      BY <1>1, NewRowType DEF TypeOK, StageOK, CountersTypeOK
    <3> QED BY <1>1, <2>1, <2>5, <3>1, AppendingKeepsStarved DEF AddSeed
  <2> QED BY <1>1, <2>1, <2>2, <2>3, <2>4, <2>5, OtherStepsKeepRows
<1>2. TypeOK /\ [Next]_vars =>
        [\A k \in Starved : (pc = "credit" /\ k = base)
                            \/ (k \in Starved' /\ rows'[k] = rows[k])]_vars
  BY <1>1
<1> QED BY <1>2, TypeCorrect, PTL DEF SafetySpec, StarvedSeedsStayStarved

-----------------------------------------------------------------------------
(* What of the accounts does not take a sum.                               *)

(* Every step keeps the crashes without a file to those owed: one while it *)
(* is being saved, and one for each process that ended early.              *)
LEMMA UnsavedStep ==
  ASSUME TypeOK, TriageInv, UnsavedCrashesAreRare, [Next]_vars
  PROVE  UnsavedCrashesAreRare'
<1>1. /\ crashes \in Seq(CrashRow) /\ files \in Seq([sig : Keys, input : Inputs])
      /\ deaths \in Nat /\ DOMAIN crashes = 1..Len(crashes) /\ Len(crashes) \in Int
  BY DEF TypeOK, DiskTypeOK, CountersTypeOK
<1>2. IsFiniteSet(DOMAIN crashes)
  BY <1>1, FS_Interval
<1>3. IsFiniteSet(Unsaved) /\ Cardinality(Unsaved) \in Nat
  BY <1>2, FS_Subset, FS_CardinalityType DEF Unsaved
<1>4. Cardinality(Unsaved) <= deaths + OneWhile("save")
  BY DEF UnsavedCrashesAreRare
<1>5. CASE RecordNewCrash
  <2>1. /\ pc = "record" /\ pc' = "save" /\ files' = files /\ deaths' = deaths
        /\ \E c : crashes' = Append(crashes, c)
    BY <1>5 DEF RecordNewCrash, ghosts
  <2>2. /\ DOMAIN crashes' = DOMAIN crashes \union {Len(crashes) + 1}
        /\ \A k \in DOMAIN crashes : crashes'[k] = crashes[k]
    BY <1>1, <2>1, AppendKeeps
  <2>3. Unsaved' \subseteq Unsaved \union {Len(crashes) + 1}
    BY <2>1, <2>2 DEF Unsaved
  <2>4. /\ IsFiniteSet(Unsaved \union {Len(crashes) + 1})
        /\ Cardinality(Unsaved \union {Len(crashes) + 1}) = Cardinality(Unsaved) + 1
    <3>1. Len(crashes) + 1 \notin Unsaved
      BY <1>1 DEF Unsaved
    <3> QED BY <1>3, <3>1, FS_AddElement
  <2>5. /\ Cardinality(Unsaved') <= Cardinality(Unsaved \union {Len(crashes) + 1})
        /\ Cardinality(Unsaved') \in Nat
        /\ Cardinality(Unsaved \union {Len(crashes) + 1}) \in Nat
    BY <2>3, <2>4, FS_Subset, FS_CardinalityType
  <2>6. Cardinality(Unsaved) <= deaths
    BY <1>1, <1>3, <1>4, <2>1 DEF OneWhile
  <2>7. Cardinality(Unsaved') <= deaths + 1
    BY <1>1, <1>3, <2>4, <2>5, <2>6
  <2> QED BY <2>1, <2>7 DEF UnsavedCrashesAreRare, OneWhile
<1>6. CASE SaveCrash
  <2>1. /\ pc = "save" /\ pc' = "publish" /\ crashes' = crashes /\ deaths' = deaths
        /\ files' = Append(files, [sig |-> CurrentSignature, input |-> input])
    BY <1>6 DEF SaveCrash, ghosts
  <2>2. PICK k \in DOMAIN crashes : crashes[k].sig = CurrentSignature
    BY <2>1 DEF TriageInv, SaveIsDue
  <2>3. k \in Unsaved
    BY <2>1, <2>2 DEF TriageInv, SaveIsDue, Unsaved
  <2>4. /\ DOMAIN files' = DOMAIN files \union {Len(files) + 1}
        /\ \A f \in DOMAIN files : files'[f] = files[f]
        /\ files'[Len(files) + 1].sig = CurrentSignature
    BY <1>1, <2>1, AppendKeeps
  <2>5. Unsaved' \subseteq Unsaved \ {k}
    BY <2>1, <2>2, <2>4 DEF Unsaved
  <2>6. /\ IsFiniteSet(Unsaved \ {k})
        /\ Cardinality(Unsaved \ {k}) = Cardinality(Unsaved) - 1
    BY <1>3, <2>3, FS_RemoveElement
  <2>7. Cardinality(Unsaved') <= Cardinality(Unsaved \ {k}) /\ Cardinality(Unsaved') \in Nat
    BY <2>5, <2>6, FS_Subset, FS_CardinalityType
  <2>8. Cardinality(Unsaved) <= deaths + 1
    BY <1>4, <2>1 DEF OneWhile
  <2>9. Cardinality(Unsaved') <= deaths
    BY <1>1, <1>3, <2>6, <2>7, <2>8
  <2> QED BY <1>1, <2>1, <2>7, <2>9 DEF UnsavedCrashesAreRare, OneWhile
<1>7. CASE CountDuplicate
  <2>1. pc = "record" /\ pc' = "publish" /\ files' = files /\ deaths' = deaths
    BY <1>7 DEF CountDuplicate, ghosts
  <2>2. Unsaved' = Unsaved
    <3>1. /\ DOMAIN crashes' = DOMAIN crashes
          /\ \A k \in DOMAIN crashes : crashes'[k].sig = crashes[k].sig
      BY <1>7, CountingKeepsCrashes DEF TypeOK
    <3> QED BY <2>1, <3>1 DEF Unsaved
  <2> QED BY <1>4, <2>1, <2>2 DEF UnsavedCrashesAreRare, OneWhile
<1>8. CASE Die
  <2>1. pc' = "down" /\ deaths' = deaths + 1 /\ Unsaved' = Unsaved
    BY <1>8 DEF Die, disk, Unsaved
  <2>2. Cardinality(Unsaved) <= deaths + 1
    BY <1>1, <1>3, <1>4 DEF OneWhile
  <2> QED BY <1>1, <2>1, <2>2 DEF UnsavedCrashesAreRare, OneWhile
<1>9. CASE \/ Launch \/ SeedCorpus \/ Leave \/ Pick \/ Execute \/ AddSeed \/ CreditParent
           \/ Publish \/ CtrlC \/ UNCHANGED vars
  <2>1. UNCHANGED <<crashes, files, deaths>> /\ (pc' = "save" <=> pc = "save")
    <3>1. CASE Execute
      <4>1. PICK r \in Results(input) : Executed(r)
        BY <3>1 DEF Execute
      <4>2. Returned(r)
        BY <4>1 DEF Executed, RunTimedOut, RunCrashed, RunWasBoring, RunWasInteresting
      <4> QED BY <3>1, <4>2, ExecuteCounts DEF Returned, disk, ghosts
    <3>2. CASE \/ Launch \/ SeedCorpus \/ Leave \/ Pick \/ AddSeed \/ CreditParent
               \/ Publish \/ CtrlC \/ UNCHANGED vars
      BY <3>2 DEF Launch, SeedCorpus, Leave, Pick, AddSeed, CreditParent, Publish, CtrlC,
                  vars, disk, memory, ghosts, TypeOK, InLoop
    <3> QED BY <1>9, <3>1, <3>2
  <2> QED BY <1>4, <2>1 DEF UnsavedCrashesAreRare, Unsaved, OneWhile
<1> QED
  BY <1>5, <1>6, <1>7, <1>8, <1>9 DEF Next, OwnStep, Environment, Ended

(* A crash that is in the triage database without a file is one being      *)
(* saved, or the one a process that ended early left behind.               *)
THEOREM FewCrashesAreUnsaved == SafetySpec => []UnsavedCrashesAreRare
<1>1. Init => UnsavedCrashesAreRare
  <2>1. ASSUME Init PROVE Unsaved = {}
    BY <2>1 DEF Init, Unsaved
  <2>2. ASSUME Init PROVE deaths = 0 /\ OneWhile("save") = 0
    BY <2>2 DEF Init, OneWhile
  <2> QED BY <2>1, <2>2, FS_EmptySet DEF UnsavedCrashesAreRare
<1>2. TypeOK /\ TriageInv /\ UnsavedCrashesAreRare /\ [Next]_vars => UnsavedCrashesAreRare'
  BY UnsavedStep
<1> QED BY <1>1, <1>2, TypeCorrect, TriageIsSound, PTL DEF SafetySpec

(* No seed is credited more often than it was picked, for the parent of    *)
(* the input at hand has a pick to its name that was not credited yet.     *)
HitsBelowPicks ==
  /\ \A k \in DOMAIN rows : rows[k].hits <= rows[k].picks
  /\ pc \in InLoop \ {"loop", "publish"} => rows[base].hits < rows[base].picks

LEMMA HitsStep ==
  ASSUME TypeOK, HitsBelowPicks, [Next]_vars
  PROVE  HitsBelowPicks'
<1>1. rows \in Seq(Row) /\ \A k \in DOMAIN rows : rows[k].hits \in Nat /\ rows[k].picks \in Nat
  <2>1. rows \in Seq(Row)
    BY DEF TypeOK, DiskTypeOK
  <2>2. \A k \in DOMAIN rows : rows[k] \in Row
    BY <2>1
  <2> QED BY <2>1, <2>2 DEF Row
<1>2. CASE Pick
  <2>1. PICK k \in Candidates : rows' = [rows EXCEPT ![k].picks = @ + 1] /\ base' = k
    BY <1>2 DEF Pick, TypeOK, InLoop
  <2>2. k \in DOMAIN rows /\ rows[k] \in Row
    BY <1>1 DEF Candidates
  <2>3. /\ DOMAIN rows' = DOMAIN rows /\ \A j \in DOMAIN rows \ {k} : rows'[j] = rows[j]
        /\ rows'[k] = [rows[k] EXCEPT !.picks = @ + 1]
    BY <1>1, <2>1, <2>2
  <2>4. rows'[k].hits = rows[k].hits /\ rows'[k].picks = rows[k].picks + 1
    BY <2>2, <2>3 DEF Row
  <2>5. rows'[k].hits < rows'[k].picks /\ rows'[k].hits <= rows'[k].picks
    BY <1>1, <2>2, <2>4 DEF HitsBelowPicks
  <2> QED BY <2>1, <2>3, <2>5 DEF HitsBelowPicks
<1>3. CASE CreditParent
  <2>1. /\ rows' = [rows EXCEPT ![base].hits = @ + 1] /\ pc' = "publish"
        /\ base \in DOMAIN rows /\ rows[base].hits < rows[base].picks
    BY <1>3 DEF CreditParent, TypeOK, StageOK, InLoop, HitsBelowPicks
  <2>2. rows[base] \in Row
    BY <1>1, <2>1
  <2>3. /\ DOMAIN rows' = DOMAIN rows /\ \A j \in DOMAIN rows \ {base} : rows'[j] = rows[j]
        /\ rows'[base] = [rows[base] EXCEPT !.hits = @ + 1]
    BY <1>1, <2>1
  <2>4. rows'[base].hits = rows[base].hits + 1 /\ rows'[base].picks = rows[base].picks
    BY <2>2, <2>3 DEF Row
  <2>5. rows'[base].hits <= rows'[base].picks
    BY <1>1, <2>1, <2>4
  <2> QED BY <2>1, <2>3, <2>5 DEF HitsBelowPicks
<1>4. ASSUME NEW d, NEW e, rows' = Append(rows, NewRow(d, e))
      PROVE  /\ \A k \in DOMAIN rows' : rows'[k].hits <= rows'[k].picks
             /\ \A k \in DOMAIN rows : rows'[k] = rows[k]
  BY <1>1, <1>4, AppendKeeps DEF HitsBelowPicks, NewRow
<1>5. CASE SeedCorpus
  <2>1. pc' \in {"seed", "loop"}
    BY <1>5 DEF SeedCorpus
  <2> QED BY <1>4, <1>5, <2>1 DEF SeedCorpus, HitsBelowPicks, InLoop
<1>6. CASE AddSeed
  <2>1. base' = base /\ base \in DOMAIN rows /\ rows[base].hits < rows[base].picks
    BY <1>6 DEF AddSeed, memory, TypeOK, StageOK, InLoop, HitsBelowPicks
  <2> QED BY <1>4, <1>6, <2>1 DEF AddSeed, HitsBelowPicks
<1>7. CASE \/ Launch \/ Die \/ Leave \/ Publish
  <2>1. rows' = rows /\ pc' \in {"seed", "loop", "down", "done"}
    BY <1>7 DEF Launch, Die, Leave, Publish, disk
  <2> QED BY <2>1 DEF HitsBelowPicks, InLoop
<1>8. CASE \/ Execute \/ CountDuplicate \/ RecordNewCrash \/ SaveCrash \/ CtrlC \/ UNCHANGED vars
  <2>1. UNCHANGED <<rows, base>> /\ (pc \in InLoop \ {"loop", "publish"} \/ pc' = pc)
    <3>1. CASE Execute
      <4>1. PICK r \in Results(input) : Executed(r)
        BY <3>1 DEF Execute
      <4>2. Returned(r)
        BY <4>1 DEF Executed, RunTimedOut, RunCrashed, RunWasBoring, RunWasInteresting
      <4> QED BY <4>2 DEF Returned, disk, InLoop
    <3>2. CASE CountDuplicate \/ RecordNewCrash \/ SaveCrash \/ CtrlC \/ UNCHANGED vars
      BY <3>2 DEF CountDuplicate, RecordNewCrash, SaveCrash, CtrlC, vars, disk, memory, InLoop
    <3> QED BY <1>8, <3>1, <3>2
  <2> QED BY <2>1 DEF HitsBelowPicks
<1> QED
  BY <1>2, <1>3, <1>5, <1>6, <1>7, <1>8 DEF Next, OwnStep, Environment, Ended

(* The finds of a process, the rewards its mutation engine was given and   *)
(* the credits agree: each find is rewarded once, before the next one, and *)
(* no seed is credited more often than it was picked.                      *)
THEOREM RewardsFollowFinds ==
  SafetySpec => [](/\ \A k \in DOMAIN rows : rows[k].hits <= rows[k].picks
                   /\ pc \in InLoop => rewards + OneWhile("credit") = Cardinality(Found))
<1>1. Init => HitsBelowPicks
  BY DEF Init, HitsBelowPicks, InLoop
<1>2. TypeOK /\ HitsBelowPicks /\ [Next]_vars => HitsBelowPicks'
  BY HitsStep
<1>3. TypeOK /\ ListsInv => (pc \in InLoop => rewards + OneWhile("credit") = Cardinality(Found))
  <2> SUFFICES ASSUME TypeOK, ListsInv, pc \in InLoop
               PROVE  rewards + OneWhile("credit") = Cardinality(Found)
    OBVIOUS
  <2> DEFINE from == CreditedUpTo - rewards + 1
  <2>1. /\ Len(rows) \in Nat /\ rewards \in Nat /\ mark.rows \in Nat
        /\ CreditedUpTo = Len(rows) - OneWhile("credit") /\ OneWhile("credit") \in {0, 1}
    BY DEF TypeOK, DiskTypeOK, CountersTypeOK, CreditedUpTo, OneWhile
  <2>2. Found = from..Len(rows) /\ mark.rows + rewards <= CreditedUpTo
    BY DEF ListsInv, FindsAreLast
  <2>3. from \in Int /\ from <= Len(rows) + 1 /\ Len(rows) - from + 1 = rewards + OneWhile("credit")
    BY <2>1, <2>2
  <2> HIDE DEF from
  <2>4. Cardinality(from..Len(rows)) = IF from > Len(rows) THEN 0 ELSE Len(rows) - from + 1
    <3>1. Len(rows) \in Int
      BY <2>1
    <3> QED BY <2>3, <3>1, FS_Interval, Zenon
  <2> QED BY <2>1, <2>2, <2>3, <2>4
<1>4. HitsBelowPicks => \A k \in DOMAIN rows : rows[k].hits <= rows[k].picks
  BY DEF HitsBelowPicks
<1> QED BY <1>1, <1>2, <1>3, <1>4, TypeCorrect, ListsInvariant, PTL DEF SafetySpec

-----------------------------------------------------------------------------
(* Sums over tables.  Total folds a recursive function over the rows; what *)
(* such a function computes takes induction over finite sets, which is had *)
(* here from the fact that their strict inclusion is well founded.         *)

(* Induction over the subsets of a finite set; P is the set of those that  *)
(* have the property.                                                      *)
LEMMA InductionOnSubsets ==
  ASSUME NEW S, IsFiniteSet(S), NEW P,
         \A T \in SUBSET S : (\A U \in SUBSET T : U # T => U \in P) => T \in P
  PROVE  S \in P
<1> SUFFICES ASSUME S \notin P PROVE FALSE
  OBVIOUS
<1> DEFINE Bad == {T \in SUBSET S : T \notin P}
<1>1. Bad \subseteq FiniteSubsetsOf(S) /\ Bad # {}
  BY FS_FiniteSubsetsOfFinite
<1>2. IsWellFoundedOn(StrictSubsetOrdering(S), FiniteSubsetsOf(S))
  BY FS_StrictSubsetOrderingWellFounded
<1>3. PICK T \in Bad : \A U \in Bad : ~ (<<U, T>> \in StrictSubsetOrdering(S))
  <2> HIDE DEF Bad
  <2> QED
    BY <1>1, <1>2, WFMin
<1>4. PICK U \in SUBSET T : U # T /\ U \notin P
  OBVIOUS
<1>5. U \in Bad /\ <<U, T>> \in StrictSubsetOrdering(S)
  BY <1>4 DEF StrictSubsetOrdering
<1> HIDE DEF Bad
<1> QED
  BY <1>3, <1>5

(* The sum of a column over a set of rows, as Total computes it: by one     *)
(* row after the other, in any order.                                      *)
SumOver(table, field, S) == MapThenSumSet(LAMBDA k : table[k][field], S)

(* The row taken next, and the partial sums.                               *)
Any(S) == CHOOSE x \in S : TRUE
IsSum(g, table, field, S) ==
  g = [s \in SUBSET S |->
         IF s = {} THEN 0 ELSE table[Any(s)][field] + g[s \ {Any(s)}]]

(* The sum is what the recursive function of the fold gives, if there is   *)
(* such a function.                                                        *)
LEMMA SumIsChosen ==
  ASSUME NEW table, NEW field, NEW S
  PROVE SumOver(table, field, S) = (CHOOSE g : IsSum(g, table, field, S))[S]
BY DEF SumOver, MapThenSumSet, MapThenFoldSet, IsSum, Any

(* Induction up to a number N; P is the set of the numbers reached.         *)
LEMMA InductionUpTo ==
  ASSUME NEW N \in Nat, NEW P, 0 \in P,
         \A n \in Nat : n < N /\ n \in P => n + 1 \in P
  PROVE  N \in P
<1> DEFINE Q == {T \in SUBSET (1 .. N) : \A n \in 0 .. N : T = 1 .. n => n \in P}
<1>1. IsFiniteSet(1 .. N)
  BY FS_Interval
<1>2. ASSUME NEW T \in SUBSET (1 .. N), \A U \in SUBSET T : U # T => U \in Q
      PROVE  T \in Q
  <2> SUFFICES ASSUME NEW n \in 0 .. N, T = 1 .. n PROVE n \in P
    OBVIOUS
  <2>1. CASE n = 0
    BY <2>1
  <2>2. CASE n # 0
    <3> DEFINE U == 1 .. n - 1
    <3>1. U \in SUBSET T /\ U # T
      <4>1. n \in T /\ n \notin U
        BY <2>2
      <4> QED
        BY <2>2, <4>1
    <3>2. U \in Q
      <4> HIDE DEF U, Q
      <4> QED
        BY <1>2, <3>1
    <3>3. n - 1 \in P /\ n - 1 \in Nat /\ n - 1 < N /\ (n - 1) + 1 = n
      BY <2>2, <3>2
    <3> QED
      BY <3>3
  <2> QED
    BY <2>1, <2>2
<1>3. 1 .. N \in Q
  <2> DEFINE I == 1 .. N
  <2>1. IsFiniteSet(I)
    BY <1>1
  <2>2. \A T \in SUBSET I : (\A U \in SUBSET T : U # T => U \in Q) => T \in Q
    BY <1>2
  <2> HIDE DEF Q, I
  <2>3. I \in Q
    BY <2>1, <2>2, InductionOnSubsets
  <2> QED
    BY <2>3 DEF I
<1> QED
  BY <1>3

(* There is: it is built up to sets of n + 1 rows from the one for sets of  *)
(* n rows.                                                                 *)
LEMMA SumExists ==
  ASSUME NEW table, NEW field, NEW S, IsFiniteSet(S)
  PROVE  \E g : IsSum(g, table, field, S)
<1> DEFINE Below(n) == {s \in SUBSET S : Cardinality(s) <= n}
<1> DEFINE Unfold(g, n) ==
      [s \in Below(n) |->
         IF s = {} THEN 0 ELSE table[Any(s)][field] + g[s \ {Any(s)}]]
<1> DEFINE N == Cardinality(S)
<1> DEFINE P == {n \in 0 .. N : \E g : g = Unfold(g, n)}
<1>1. N \in Nat
  BY FS_CardinalityType
<1>2. \A s \in SUBSET S : IsFiniteSet(s) /\ Cardinality(s) \in Nat /\ Cardinality(s) <= N
  BY FS_Subset, FS_CardinalityType
<1>3. 0 \in P
  <2>1. Below(0) = {{}}
    BY <1>2, FS_EmptySet
  <2> DEFINE g == [s \in {{}} |-> 0]
  <2>2. g = Unfold(g, 0)
    BY <2>1
  <2>3. \E f : f = Unfold(f, 0)
    <3> HIDE DEF Unfold, g
    <3> QED
      BY <2>2
  <2>4. 0 \in 0 .. N
    BY <1>1
  <2> HIDE DEF Unfold, N, g
  <2> QED
    BY <2>3, <2>4
<1>4. ASSUME NEW n \in Nat, n < N, n \in P
      PROVE  n + 1 \in P
  <2>1. PICK g : g = Unfold(g, n)
    BY <1>4
  <2> DEFINE h == Unfold(g, n + 1)
  <2>2. ASSUME NEW s \in Below(n + 1), s # {}
        PROVE  h[s \ {Any(s)}] = g[s \ {Any(s)}]
    <3> DEFINE u == s \ {Any(s)}
    <3>1. Any(s) \in s
      BY <2>2 DEF Any
    <3>2. Cardinality(u) = Cardinality(s) - 1
      BY <1>2, <3>1, FS_RemoveElement
    <3>3. u \in Below(n) /\ u \in Below(n + 1)
      BY <1>2, <3>2
    <3> HIDE DEF u
    <3>4. h[u] = IF u = {} THEN 0 ELSE table[Any(u)][field] + g[u \ {Any(u)}]
      BY <3>3
    <3>5. g[u] = IF u = {} THEN 0 ELSE table[Any(u)][field] + g[u \ {Any(u)}]
      BY <2>1, <3>3
    <3> QED
      BY <3>4, <3>5 DEF u
  <2>3. h = Unfold(h, n + 1)
    BY <2>2
  <2> HIDE DEF h, Unfold
  <2> QED
    BY <1>1, <1>4, <2>3
<1>5. N \in P
  <2> HIDE DEF P, N
  <2> QED
    BY <1>1, <1>3, <1>4, InductionUpTo
<1>6. Below(N) = SUBSET S
  BY <1>2
<1>7. PICK g : g = Unfold(g, N)
  BY <1>5
<1>8. IsSum(g, table, field, S)
  BY <1>6, <1>7 DEF IsSum
<1> QED
  BY <1>8

(* Hence the sum is the value of a function that fulfils its definition.   *)
LEMMA ChosenIsSum ==
  ASSUME NEW table, NEW field, NEW S, IsFiniteSet(S)
  PROVE  \E g : IsSum(g, table, field, S) /\ SumOver(table, field, S) = g[S]
<1> DEFINE g == CHOOSE f : IsSum(f, table, field, S)
<1>1. IsSum(g, table, field, S)
  BY SumExists
<1>2. SumOver(table, field, S) = g[S]
  BY SumIsChosen
<1> HIDE DEF g
<1> QED
  BY <1>1, <1>2

(* Partial sums depend on the rows they are taken over, and on nothing      *)
(* else.                                                                   *)
LEMMA SumsAgree ==
  ASSUME NEW table, NEW other, NEW field, NEW S, NEW T, NEW g, NEW h,
         IsSum(g, table, field, S), IsSum(h, other, field, T),
         NEW V, V \subseteq S, V \subseteq T, IsFiniteSet(V),
         \A k \in V : table[k][field] = other[k][field]
  PROVE  g[V] = h[V]
<1> DEFINE P == {u \in SUBSET V : g[u] = h[u]}
<1>1. ASSUME NEW u \in SUBSET V, \A w \in SUBSET u : w # u => w \in P
      PROVE  u \in P
  <2>1. CASE u = {}
    <3>1. g[u] = 0 /\ h[u] = 0
      BY <2>1 DEF IsSum
    <3> QED
      BY <3>1
  <2>2. CASE u # {}
    <3> DEFINE x == Any(u)
    <3>1. x \in u
      BY <2>2 DEF Any
    <3>2. g[u \ {x}] = h[u \ {x}]
      BY <1>1, <3>1
    <3>3. g[u] = table[x][field] + g[u \ {x}]
      BY <2>2 DEF IsSum
    <3>4. h[u] = other[x][field] + h[u \ {x}]
      BY <2>2 DEF IsSum
    <3> QED
      BY <3>1, <3>2, <3>3, <3>4
  <2> QED
    BY <2>1, <2>2
<1>2. V \in P
  <2> HIDE DEF P
  <2> QED
    BY <1>1, InductionOnSubsets
<1> QED
  BY <1>2

(* The sum of no rows.                                                     *)
LEMMA SumOfNothing ==
  \A table, field : SumOver(table, field, {}) = 0
<1> SUFFICES ASSUME NEW table, NEW field PROVE SumOver(table, field, {}) = 0
  OBVIOUS
<1>1. PICK g : IsSum(g, table, field, {}) /\ SumOver(table, field, {}) = g[{}]
  BY ChosenIsSum, FS_EmptySet
<1> QED
  BY <1>1 DEF IsSum

(* One row is taken, and the sum of the others added.                      *)
LEMMA SumTakesOne ==
  ASSUME NEW table, NEW field, NEW S, IsFiniteSet(S), S # {}
  PROVE  /\ Any(S) \in S
         /\ SumOver(table, field, S) =
              table[Any(S)][field] + SumOver(table, field, S \ {Any(S)})
<1>1. Any(S) \in S
  BY DEF Any
<1> DEFINE R == S \ {Any(S)}
<1>2. IsFiniteSet(R) /\ R \subseteq S
  BY FS_RemoveElement
<1>3. PICK g : IsSum(g, table, field, S) /\ SumOver(table, field, S) = g[S]
  BY ChosenIsSum
<1>4. PICK h : IsSum(h, table, field, R) /\ SumOver(table, field, R) = h[R]
  BY <1>2, ChosenIsSum
<1>5. g[R] = h[R]
  BY <1>2, <1>3, <1>4, SumsAgree
<1>6. g[S] = table[Any(S)][field] + g[R]
  BY <1>3 DEF IsSum
<1> HIDE DEF R
<1> QED
  BY <1>1, <1>3, <1>4, <1>5, <1>6 DEF R

(* Tables that agree on a column have the same sum.                        *)
LEMMA SumOfSameColumn ==
  ASSUME NEW table, NEW other, NEW field, NEW S, IsFiniteSet(S),
         \A k \in S : table[k][field] = other[k][field]
  PROVE  SumOver(table, field, S) = SumOver(other, field, S)
<1>1. PICK g : IsSum(g, table, field, S) /\ SumOver(table, field, S) = g[S]
  BY ChosenIsSum
<1>2. PICK h : IsSum(h, other, field, S) /\ SumOver(other, field, S) = h[S]
  BY ChosenIsSum
<1> QED
  BY <1>1, <1>2, SumsAgree

(* The sum of numbers is a number.                                         *)
LEMMA SumType ==
  ASSUME NEW table, NEW field, NEW S, IsFiniteSet(S),
         \A k \in S : table[k][field] \in Nat
  PROVE  SumOver(table, field, S) \in Nat
<1> DEFINE P == {u \in SUBSET S : SumOver(table, field, u) \in Nat}
<1>1. ASSUME NEW u \in SUBSET S, \A w \in SUBSET u : w # u => w \in P
      PROVE  u \in P
  <2>1. CASE u = {}
    BY <2>1, SumOfNothing
  <2>2. CASE u # {}
    <3> DEFINE x == Any(u)
    <3>1. IsFiniteSet(u)
      BY FS_Subset
    <3>2. x \in u /\ SumOver(table, field, u) = table[x][field] + SumOver(table, field, u \ {x})
      BY <2>2, <3>1, SumTakesOne
    <3>3. SumOver(table, field, u \ {x}) \in Nat
      BY <1>1, <3>2
    <3> HIDE DEF x
    <3> QED
      BY <3>2, <3>3
  <2> QED
    BY <2>1, <2>2
<1>2. S \in P
  <2> HIDE DEF P
  <2> QED
    BY <1>1, InductionOnSubsets
<1> QED
  BY <1>2

(* It does not matter which row is taken first.                            *)
LEMMA SumSplits ==
  ASSUME NEW table, NEW field, NEW S, IsFiniteSet(S), NEW e \in S,
         \A k \in S : table[k][field] \in Nat
  PROVE  SumOver(table, field, S) = table[e][field] + SumOver(table, field, S \ {e})
<1> DEFINE Sum(s) == SumOver(table, field, s)
<1> DEFINE P == {u \in SUBSET S : \A y \in u : Sum(u) = table[y][field] + Sum(u \ {y})}
<1>1. ASSUME NEW u \in SUBSET S, \A w \in SUBSET u : w # u => w \in P
      PROVE  u \in P
  <2> SUFFICES ASSUME NEW y \in u PROVE Sum(u) = table[y][field] + Sum(u \ {y})
    OBVIOUS
  <2> DEFINE x == Any(u)
  <2>1. IsFiniteSet(u)
    BY FS_Subset
  <2>2. x \in u /\ Sum(u) = table[x][field] + Sum(u \ {x})
    BY <2>1, SumTakesOne
  <2>3. CASE x = y
    BY <2>2, <2>3
  <2>4. CASE x # y
    <3> DEFINE R == u \ {x, y}
    <3>1. u \ {x} \in P /\ u \ {y} \in P
      BY <1>1, <2>2
    <3>2. Sum(u \ {x}) = table[y][field] + Sum(R)
      <4>1. y \in u \ {x} /\ (u \ {x}) \ {y} = R
        BY <2>4
      <4> QED
        BY <3>1, <4>1
    <3>3. Sum(u \ {y}) = table[x][field] + Sum(R)
      <4>1. x \in u \ {y} /\ (u \ {y}) \ {x} = R
        BY <2>2, <2>4
      <4> QED
        BY <3>1, <4>1
    <3>4. Sum(R) \in Nat
      <4>1. IsFiniteSet(R) /\ R \subseteq S
        BY <2>1, FS_Subset
      <4> QED
        BY <4>1, SumType
    <3>5. table[x][field] \in Nat /\ table[y][field] \in Nat
      BY <2>2
    <3> HIDE DEF Sum, R, x, P
    <3> QED
      BY <2>2, <3>2, <3>3, <3>4, <3>5
  <2> QED
    BY <2>3, <2>4
<1>2. S \in P
  <2> HIDE DEF P
  <2> QED
    BY <1>1, InductionOnSubsets
<1> QED
  BY <1>2

(* The numbers of a column of a table. *)
IsColumn(table, field) == \A k \in DOMAIN table : table[k][field] \in Nat

(* Total of a table is the sum over its rows, and a number. *)
LEMMA TotalIsSum ==
  ASSUME NEW R, NEW table \in Seq(R), NEW field, IsColumn(table, field)
  PROVE  /\ IsFiniteSet(DOMAIN table)
         /\ Total(table, field) = SumOver(table, field, DOMAIN table)
         /\ Total(table, field) \in Nat
<1>1. Total(table, field) = SumOver(table, field, DOMAIN table)
  BY DEF Total, SumOver
<1>2. IsFiniteSet(DOMAIN table)
  <2>1. DOMAIN table = 1..Len(table) /\ Len(table) \in Int
    BY LenProperties
  <2> QED BY <2>1, FS_Interval
<1> QED
  BY <1>1, <1>2, SumType DEF IsColumn

(* A new row adds its number. *)
LEMMA TotalOfAppend ==
  ASSUME NEW R, NEW table \in Seq(R), NEW row \in R, NEW field,
         IsColumn(table, field), row[field] \in Nat
  PROVE  Total(Append(table, row), field) = Total(table, field) + row[field]
<1> DEFINE other == Append(table, row)
<1> DEFINE last == Len(table) + 1
<1>1. /\ other \in Seq(R) /\ DOMAIN other = DOMAIN table \union {last}
      /\ last \notin DOMAIN table
      /\ \A k \in DOMAIN table : other[k] = table[k]
      /\ other[last] = row
  BY AppendKeeps, AppendProperties
<1> HIDE DEF other, last
<1>2. IsColumn(other, field)
  BY <1>1 DEF IsColumn
<1>3. Total(other, field) = SumOver(other, field, DOMAIN other) /\ IsFiniteSet(DOMAIN other)
  BY <1>1, <1>2, TotalIsSum
<1>4. /\ IsFiniteSet(DOMAIN table) /\ Total(table, field) \in Nat
      /\ Total(table, field) = SumOver(table, field, DOMAIN table)
  BY TotalIsSum
<1>5. SumOver(other, field, DOMAIN other) = row[field] + SumOver(other, field, DOMAIN other \ {last})
  BY <1>1, <1>2, <1>3, SumSplits DEF IsColumn
<1>6. DOMAIN other \ {last} = DOMAIN table
  BY <1>1
<1>7. SumOver(other, field, DOMAIN table) = SumOver(table, field, DOMAIN table)
  BY <1>1, <1>4, SumOfSameColumn
<1>8. Total(other, field) = Total(table, field) + row[field]
  BY <1>3, <1>4, <1>5, <1>6, <1>7
<1> QED
  BY <1>8 DEF other

(* Counting one more in one row adds one, and leaves other columns alone.  *)
LEMMA TotalOfCount ==
  ASSUME NEW R, NEW table \in Seq(R), NEW other \in Seq(R), NEW k \in DOMAIN table,
         NEW field, IsColumn(table, field), DOMAIN other = DOMAIN table,
         \A j \in DOMAIN table \ {k} : other[j] = table[j],
         other[k][field] = table[k][field] + 1
  PROVE  Total(other, field) = Total(table, field) + 1
<1> DEFINE D == DOMAIN table
<1> DEFINE rest == D \ {k}
<1>1. IsColumn(other, field)
  BY DEF IsColumn
<1>2. IsFiniteSet(D) /\ Total(table, field) = SumOver(table, field, D)
  BY TotalIsSum
<1>3. Total(other, field) = SumOver(other, field, D)
  BY <1>1, TotalIsSum
<1>4. SumOver(table, field, D) = table[k][field] + SumOver(table, field, rest)
  <2>1. k \in D /\ \A j \in D : table[j][field] \in Nat
    BY DEF IsColumn
  <2> HIDE DEF D
  <2> QED BY <1>2, <2>1, SumSplits
<1>5. SumOver(other, field, D) = other[k][field] + SumOver(other, field, rest)
  <2>1. k \in D /\ \A j \in D : other[j][field] \in Nat
    BY <1>1 DEF IsColumn
  <2> HIDE DEF D
  <2> QED BY <1>2, <2>1, SumSplits
<1>6. IsFiniteSet(rest) /\ rest \subseteq D
  BY <1>2, FS_RemoveElement
<1>7. SumOver(other, field, rest) = SumOver(table, field, rest)
  BY <1>6, SumOfSameColumn
<1>8. SumOver(table, field, rest) \in Nat
  BY <1>6, SumType DEF IsColumn
<1>9. table[k][field] \in Nat
  BY DEF IsColumn
<1> HIDE DEF D, rest
<1> QED
  BY <1>2, <1>3, <1>4, <1>5, <1>7, <1>8, <1>9

LEMMA TotalOfOtherColumn ==
  ASSUME NEW R, NEW table \in Seq(R), NEW other \in Seq(R),
         NEW field, IsColumn(table, field), DOMAIN other = DOMAIN table,
         \A j \in DOMAIN table : other[j][field] = table[j][field]
  PROVE  Total(other, field) = Total(table, field)
<1>1. IsColumn(other, field)
  BY DEF IsColumn
<1>2. IsFiniteSet(DOMAIN table) /\ Total(table, field) = SumOver(table, field, DOMAIN table)
  BY TotalIsSum
<1>3. Total(other, field) = SumOver(other, field, DOMAIN table)
  BY <1>1, TotalIsSum
<1> QED
  BY <1>2, <1>3, SumOfSameColumn

-----------------------------------------------------------------------------
(* The accounts.                                                           *)

(* The seeds found by a run, in every process. *)
Finds == Cardinality({k \in DOMAIN rows : rows[k].edges > 0})

(* The three accounts of AccountsBalance that take a sum. *)
FindsBalance ==
  LET hits == Total(rows, "hits") + OneWhile("credit")
  IN  hits <= Finds /\ Finds <= hits + deaths

RunsBalance ==
  LET runs  == spent.execs + stats.execs + OneWhile("execute")
      picks == Total(rows, "picks")
  IN  runs <= picks /\ picks <= runs + deaths

CrashesBalance ==
  LET hits == Total(crashes, "hits") + OneWhile("record")
      seen == spent.crashes + stats.crashes
  IN  hits <= seen /\ seen <= hits + deaths

AccountsInv == FindsBalance /\ RunsBalance /\ CrashesBalance

LEMMA AccountsType ==
  ASSUME TypeOK
  PROVE  /\ IsColumn(rows, "hits") /\ IsColumn(rows, "picks") /\ IsColumn(crashes, "hits")
         /\ Total(rows, "hits") \in Nat /\ Total(rows, "picks") \in Nat
         /\ Total(crashes, "hits") \in Nat
         /\ Finds \in Nat /\ IsFiniteSet({k \in DOMAIN rows : rows[k].edges > 0})
         /\ deaths \in Nat
         /\ spent.execs \in Nat /\ spent.crashes \in Nat
         /\ stats.execs \in Nat /\ stats.crashes \in Nat
<1>1. rows \in Seq(Row) /\ crashes \in Seq(CrashRow)
  BY DEF TypeOK, DiskTypeOK
<1>2. IsColumn(rows, "hits") /\ IsColumn(rows, "picks")
  <2>1. \A k \in DOMAIN rows : rows[k] \in Row
    BY <1>1
  <2> QED BY <2>1 DEF IsColumn, Row
<1>3. IsColumn(crashes, "hits")
  <2>1. \A k \in DOMAIN crashes : crashes[k] \in CrashRow
    BY <1>1
  <2> QED BY <2>1 DEF IsColumn, CrashRow
<1>4. /\ IsFiniteSet(DOMAIN rows)
      /\ Total(rows, "hits") \in Nat /\ Total(rows, "picks") \in Nat
  BY <1>1, <1>2, TotalIsSum
<1>5. Total(crashes, "hits") \in Nat
  BY <1>1, <1>3, TotalIsSum
<1>6. IsFiniteSet({k \in DOMAIN rows : rows[k].edges > 0})
  BY <1>4, FS_Subset
<1>7. Finds \in Nat
  BY <1>6, FS_CardinalityType DEF Finds
<1>8. /\ deaths \in Nat /\ spent.execs \in Nat /\ spent.crashes \in Nat
      /\ stats.execs \in Nat /\ stats.crashes \in Nat
  BY DEF TypeOK, CountersTypeOK, Stats
<1> QED
  BY <1>2, <1>3, <1>4, <1>5, <1>6, <1>7, <1>8

(* Counting a pick or a hit moves one sum by one, and no find. *)
LEMMA CountingMovesTotals ==
  ASSUME TypeOK, NEW k \in DOMAIN rows
  PROVE  /\ rows' = [rows EXCEPT ![k].picks = @ + 1] =>
              /\ Total(rows', "picks") = Total(rows, "picks") + 1
              /\ Total(rows', "hits") = Total(rows, "hits")
              /\ Finds' = Finds
         /\ rows' = [rows EXCEPT ![k].hits = @ + 1] =>
              /\ Total(rows', "hits") = Total(rows, "hits") + 1
              /\ Total(rows', "picks") = Total(rows, "picks")
              /\ Finds' = Finds
<1>1. rows \in Seq(Row) /\ rows[k] \in Row
  BY DEF TypeOK, DiskTypeOK
<1>2. ASSUME \/ rows' = [rows EXCEPT ![k].picks = @ + 1]
             \/ rows' = [rows EXCEPT ![k].hits = @ + 1]
      PROVE  /\ rows' \in Seq(Row) /\ DOMAIN rows' = DOMAIN rows
             /\ \A j \in DOMAIN rows \ {k} : rows'[j] = rows[j]
             /\ Finds' = Finds
  <2>1. PICK r \in Row : rows' = [rows EXCEPT ![k] = r]
    BY <1>1, <1>2, RowCountType
  <2>2. /\ rows' \in Seq(Row) /\ DOMAIN rows' = DOMAIN rows
        /\ \A j \in DOMAIN rows \ {k} : rows'[j] = rows[j]
    BY <1>1, <2>1
  <2>3. \A j \in DOMAIN rows : rows'[j].edges = rows[j].edges
    <3>1. EdgesColumn' = EdgesColumn
      BY <1>2, CountingKeepsEdges
    <3> QED BY <2>2, <3>1 DEF EdgesColumn
  <2> QED BY <2>2, <2>3 DEF Finds
<1>3. IsColumn(rows, "hits") /\ IsColumn(rows, "picks")
  BY AccountsType
<1>4. ASSUME rows' = [rows EXCEPT ![k].picks = @ + 1]
      PROVE  /\ Total(rows', "picks") = Total(rows, "picks") + 1
             /\ Total(rows', "hits") = Total(rows, "hits")
  <2>1. rows'[k] = [rows[k] EXCEPT !.picks = @ + 1]
    BY <1>1, <1>4
  <2>2. rows'[k]["picks"] = rows[k]["picks"] + 1 /\ rows'[k]["hits"] = rows[k]["hits"]
    BY <1>1, <2>1 DEF Row
  <2>3. \A j \in DOMAIN rows : rows'[j]["hits"] = rows[j]["hits"]
    BY <1>2, <1>4, <2>2
  <2>4. rows \in Seq(Row) /\ rows' \in Seq(Row) /\ DOMAIN rows' = DOMAIN rows
    BY <1>1, <1>2, <1>4
  <2>5. \A j \in DOMAIN rows \ {k} : rows'[j] = rows[j]
    BY <1>2, <1>4
  <2>6. Total(rows', "picks") = Total(rows, "picks") + 1
    BY <1>3, <2>2, <2>4, <2>5, TotalOfCount
  <2>7. Total(rows', "hits") = Total(rows, "hits")
    BY <1>3, <2>3, <2>4, TotalOfOtherColumn
  <2> QED BY <2>6, <2>7
<1>5. ASSUME rows' = [rows EXCEPT ![k].hits = @ + 1]
      PROVE  /\ Total(rows', "hits") = Total(rows, "hits") + 1
             /\ Total(rows', "picks") = Total(rows, "picks")
  <2>1. rows'[k] = [rows[k] EXCEPT !.hits = @ + 1]
    BY <1>1, <1>5
  <2>2. rows'[k]["hits"] = rows[k]["hits"] + 1 /\ rows'[k]["picks"] = rows[k]["picks"]
    BY <1>1, <2>1 DEF Row
  <2>3. \A j \in DOMAIN rows : rows'[j]["picks"] = rows[j]["picks"]
    BY <1>2, <1>5, <2>2
  <2>4. rows \in Seq(Row) /\ rows' \in Seq(Row) /\ DOMAIN rows' = DOMAIN rows
    BY <1>1, <1>2, <1>5
  <2>5. \A j \in DOMAIN rows \ {k} : rows'[j] = rows[j]
    BY <1>2, <1>5
  <2>6. Total(rows', "hits") = Total(rows, "hits") + 1
    BY <1>3, <2>2, <2>4, <2>5, TotalOfCount
  <2>7. Total(rows', "picks") = Total(rows, "picks")
    BY <1>3, <2>3, <2>4, TotalOfOtherColumn
  <2> QED BY <2>6, <2>7
<1> QED
  BY <1>2, <1>4, <1>5

(* A new row moves no sum; it is a find if a run brought it.               *)
LEMMA NewRowMovesTotals ==
  ASSUME TypeOK, NEW d \in Inputs, NEW e \in Nat, rows' = Append(rows, NewRow(d, e))
  PROVE  /\ Total(rows', "picks") = Total(rows, "picks")
         /\ Total(rows', "hits") = Total(rows, "hits")
         /\ Finds' = IF e > 0 THEN Finds + 1 ELSE Finds
<1>1. rows \in Seq(Row) /\ NewRow(d, e) \in Row
  BY NewRowType DEF TypeOK, DiskTypeOK
<1>2. /\ NewRow(d, e)["picks"] = 0 /\ NewRow(d, e)["hits"] = 0
      /\ NewRow(d, e).edges = e
  BY DEF NewRow
<1>3. Total(rows', "picks") = Total(rows, "picks")
  BY <1>1, <1>2, AccountsType, TotalOfAppend
<1>4. Total(rows', "hits") = Total(rows, "hits")
  BY <1>1, <1>2, AccountsType, TotalOfAppend
<1>5. Finds' = IF e > 0 THEN Finds + 1 ELSE Finds
  <2> DEFINE found == {k \in DOMAIN rows : rows[k].edges > 0}
  <2> DEFINE last == Len(rows) + 1
  <2>1. /\ DOMAIN rows' = DOMAIN rows \union {last} /\ last \notin DOMAIN rows
        /\ \A k \in DOMAIN rows : rows'[k] = rows[k]
        /\ rows'[last].edges = e
    BY <1>1, <1>2, AppendKeeps
  <2>2. found' = IF e > 0 THEN found \union {last} ELSE found
    BY <2>1
  <2>3. IsFiniteSet(found) /\ last \notin found
    BY <2>1, AccountsType
  <2>4. Finds = Cardinality(found) /\ Finds' = Cardinality(found')
    BY DEF Finds
  <2> HIDE DEF found, last
  <2> QED BY <2>2, <2>3, <2>4, FS_AddElement
<1> QED
  BY <1>3, <1>4, <1>5

(* A crash recorded adds one to the sum of hits, new or not. *)
LEMMA RecordingMovesTotals ==
  ASSUME TypeOK, CountDuplicate \/ RecordNewCrash
  PROVE  Total(crashes', "hits") = Total(crashes, "hits") + 1
<1>1. crashes \in Seq(CrashRow) /\ IsColumn(crashes, "hits")
  BY AccountsType DEF TypeOK, DiskTypeOK
<1>2. CASE CountDuplicate
  <2>1. PICK k \in DOMAIN crashes : crashes' = [crashes EXCEPT ![k].hits = @ + 1]
    BY <1>2 DEF CountDuplicate
  <2>2. crashes[k] \in CrashRow
    BY <1>1
  <2>3. crashes' = [crashes EXCEPT ![k] = [crashes[k] EXCEPT !.hits = @ + 1]]
    BY <2>1
  <2>4. /\ [crashes[k] EXCEPT !.hits = @ + 1] \in CrashRow
        /\ [crashes[k] EXCEPT !.hits = @ + 1]["hits"] = crashes[k]["hits"] + 1
    <3>1. crashes[k].hits + 1 \in Nat
      BY <2>2 DEF CrashRow
    <3>2. [crashes[k] EXCEPT !.hits = @ + 1] \in CrashRow
      BY <2>2, <3>1, Zenon DEF CrashRow
    <3> QED BY <2>2, <3>2 DEF CrashRow
  <2>5. /\ crashes' \in Seq(CrashRow) /\ DOMAIN crashes' = DOMAIN crashes
        /\ \A j \in DOMAIN crashes \ {k} : crashes'[j] = crashes[j]
        /\ crashes'[k] = [crashes[k] EXCEPT !.hits = @ + 1]
    BY <1>1, <2>3, <2>4
  <2>6. crashes'[k]["hits"] = crashes[k]["hits"] + 1
    BY <2>4, <2>5
  <2>7. crashes' \in Seq(CrashRow)
    BY <2>5
  <2>8. DOMAIN crashes' = DOMAIN crashes
    BY <2>5
  <2>9. \A j \in DOMAIN crashes \ {k} : crashes'[j] = crashes[j]
    BY <2>5
  <2> QED BY <1>1, <2>6, <2>7, <2>8, <2>9, TotalOfCount
<1>3. CASE RecordNewCrash
  <2>1. PICK c : crashes' = Append(crashes, c) /\ c \in CrashRow /\ c["hits"] = 1
    <3> DEFINE c == [sig |-> CurrentSignature, severity |-> Severity(result.status),
                     input |-> input, hits |-> 1]
    <3>1. crashes' = Append(crashes, c)
      BY <1>3 DEF RecordNewCrash
    <3>2. CurrentSignature \in Keys /\ Severity(result.status) \in Severities /\ input \in Inputs
      <4>1. /\ pc = "record" /\ result \in Results(input) /\ input \in Inputs
            /\ result.status.kind \in {"crash", "error"}
        BY <1>3 DEF RecordNewCrash, TypeOK, StageOK, InLoop
      <4>2. result.status \in CrashStatuses
        BY <4>1, ResultsType
      <4> QED BY <4>1, <4>2, FilingType DEF CurrentSignature
    <3>3. c \in CrashRow /\ c["hits"] = 1
      BY <3>2 DEF CrashRow
    <3> QED BY <3>1, <3>3
  <2> QED BY <1>1, <2>1, TotalOfAppend
<1> QED
  BY <1>2, <1>3

(* Every step keeps the three accounts: what it counts in one place it     *)
(* counts in the other, or owes while the process is where it is.          *)
LEMMA AccountsStep ==
  ASSUME TypeOK, OnTheWay, AccountsInv, [Next]_vars
  PROVE  AccountsInv'
<1> USE DEF AccountsInv, FindsBalance, RunsBalance, CrashesBalance
<1>1. /\ Total(rows, "hits") \in Nat /\ Total(rows, "picks") \in Nat
      /\ Total(crashes, "hits") \in Nat
      /\ Finds \in Nat /\ deaths \in Nat
      /\ spent.execs \in Nat /\ spent.crashes \in Nat
      /\ stats.execs \in Nat /\ stats.crashes \in Nat
  BY AccountsType
<1>2. \A t : rows' = rows /\ crashes' = crashes =>
        /\ Total(rows', t) = Total(rows, t) /\ Total(crashes', t) = Total(crashes, t)
        /\ Finds' = Finds
  BY DEF Finds
<1>3. CASE Pick
  <2>1. PICK k \in Candidates : rows' = [rows EXCEPT ![k].picks = @ + 1]
    BY <1>3 DEF Pick, TypeOK, InLoop
  <2>2. /\ pc = "loop" /\ pc' = "execute" /\ crashes' = crashes
        /\ UNCHANGED <<stats, spent, deaths>>
    BY <1>3 DEF Pick, TypeOK, InLoop, ghosts
  <2>3. /\ Total(rows', "picks") = Total(rows, "picks") + 1
        /\ Total(rows', "hits") = Total(rows, "hits") /\ Finds' = Finds
    BY <2>1, CountingMovesTotals DEF Candidates
  <2> QED BY <1>1, <2>2, <2>3 DEF OneWhile
<1>4. CASE CreditParent
  <2>1. /\ pc = "credit" /\ pc' = "publish" /\ crashes' = crashes
        /\ rows' = [rows EXCEPT ![base].hits = @ + 1] /\ base \in DOMAIN rows
        /\ stats'.execs = stats.execs /\ stats'.crashes = stats.crashes
        /\ UNCHANGED <<spent, deaths>>
    BY <1>4 DEF CreditParent, TypeOK, StageOK, CountersTypeOK, Stats, InLoop, ghosts
  <2>2. /\ Total(rows', "hits") = Total(rows, "hits") + 1
        /\ Total(rows', "picks") = Total(rows, "picks") /\ Finds' = Finds
    BY <2>1, CountingMovesTotals
  <2> QED BY <1>1, <2>1, <2>2 DEF OneWhile
<1>5. CASE SeedCorpus
  <2>1. /\ pc = "seed" /\ pc' \in {"seed", "loop"} /\ crashes' = crashes
        /\ UNCHANGED <<stats, spent, deaths>>
    BY <1>5 DEF SeedCorpus, ghosts
  <2>2. /\ Total(rows', "hits") = Total(rows, "hits")
        /\ Total(rows', "picks") = Total(rows, "picks") /\ Finds' = Finds
    <3>1. Head(pending) \in Inputs
      BY <1>5 DEF SeedCorpus, TypeOK, StageOK
    <3>2. rows' = rows \/ rows' = Append(rows, NewRow(Head(pending), 0))
      BY <1>5 DEF SeedCorpus
    <3> QED BY <1>2, <2>1, <3>1, <3>2, NewRowMovesTotals
  <2> QED BY <1>1, <2>1, <2>2 DEF OneWhile
<1>6. CASE AddSeed
  <2>1. /\ pc = "insert" /\ crashes' = crashes
        /\ UNCHANGED <<stats, spent, deaths>>
        /\ input \in Inputs /\ tracker.total \in Nat /\ tracker.total > 0
    BY <1>6 DEF AddSeed, ghosts, memory, TypeOK, StageOK, CountersTypeOK, OnTheWay
  <2>2. CASE pc' = "publish" /\ rows' = rows
    BY <1>1, <1>2, <2>1, <2>2 DEF OneWhile
  <2>3. CASE pc' = "credit" /\ rows' = Append(rows, NewRow(input, tracker.total))
    <3>1. /\ Total(rows', "hits") = Total(rows, "hits")
          /\ Total(rows', "picks") = Total(rows, "picks") /\ Finds' = Finds + 1
      BY <2>1, <2>3, NewRowMovesTotals
    <3>2. FindsBalance'
      <4>1. OneWhile("credit") = 0 /\ OneWhile("credit")' = 1
        BY <2>1, <2>3 DEF OneWhile
      <4>2. deaths' = deaths
        BY <2>1
      <4> QED BY <1>1, <3>1, <4>1, <4>2
    <3>3. /\ OneWhile("execute")' = OneWhile("execute")
          /\ OneWhile("record")' = OneWhile("record")
      BY <2>1, <2>3 DEF OneWhile
    <3>4. RunsBalance'
      BY <2>1, <3>1, <3>3
    <3>5. CrashesBalance'
      BY <2>1, <3>3
    <3> QED BY <3>2, <3>4, <3>5
  <2> QED BY <1>6, <2>2, <2>3 DEF AddSeed
<1>7. CASE CountDuplicate \/ RecordNewCrash
  <2>1. /\ pc = "record" /\ pc' \in {"publish", "save"} /\ rows' = rows
        /\ UNCHANGED <<stats, spent, deaths>>
    BY <1>7 DEF CountDuplicate, RecordNewCrash, memory, ghosts
  <2>2. Total(crashes', "hits") = Total(crashes, "hits") + 1
    BY <1>7, RecordingMovesTotals
  <2>3. /\ Total(rows', "hits") = Total(rows, "hits")
        /\ Total(rows', "picks") = Total(rows, "picks") /\ Finds' = Finds
    BY <2>1 DEF Finds
  <2> QED BY <1>1, <2>1, <2>2, <2>3 DEF OneWhile
<1>8. CASE Execute
  <2>1. /\ pc = "execute" /\ pc' \in {"publish", "record", "insert"}
        /\ UNCHANGED <<rows, crashes>> /\ stats'.execs = stats.execs + 1
        /\ stats'.crashes = stats.crashes + (IF pc' = "record" THEN 1 ELSE 0)
    BY <1>8, ExecuteCounts DEF disk
  <2>2. UNCHANGED <<spent, deaths>>
    BY <1>8 DEF Execute, Executed, RunTimedOut, RunCrashed, RunWasBoring,
                RunWasInteresting, Returned, ghosts
  <2> QED BY <1>1, <1>2, <2>1, <2>2 DEF OneWhile
<1>9. CASE Launch \/ Die
  <2>1. /\ UNCHANGED <<rows, crashes>> /\ pc' \in {"seed", "loop", "down"}
        /\ spent'.execs = spent.execs + stats.execs
        /\ spent'.crashes = spent.crashes + stats.crashes
        /\ stats'.execs = 0 /\ stats'.crashes = 0
    BY <1>9 DEF Launch, Die, WipeMemory, NewStats, disk
  <2>2. \/ pc \in {"down", "done"} /\ deaths' = deaths
        \/ deaths' = deaths + 1
    BY <1>9 DEF Launch, Die
  <2> QED BY <1>1, <1>2, <2>1, <2>2 DEF OneWhile
<1>10. CASE Leave \/ SaveCrash \/ Publish \/ CtrlC \/ UNCHANGED vars
  <2>1. /\ UNCHANGED <<rows, crashes, stats, spent, deaths>>
        /\ \/ pc' = pc
           \/ pc \in {"loop", "save", "publish"} /\ pc' \in {"done", "publish", "loop"}
    BY <1>10 DEF Leave, SaveCrash, Publish, CtrlC, vars, disk, memory, ghosts
  <2> QED BY <1>1, <1>2, <2>1 DEF OneWhile
<1> QED
  BY <1>3, <1>4, <1>5, <1>6, <1>7, <1>8, <1>9, <1>10 DEF Next, OwnStep, Environment, Ended

(* AccountsBalance of Campaign: over every process that worked on the      *)
(* directories, finds agree with credits, executions with picks and        *)
(* crashes with hits and files, but for what each process that ended early *)
(* left half done.                                                         *)
THEOREM AccountsAreBalanced == SafetySpec => []AccountsBalance
<1>1. Init => AccountsInv
  <2> SUFFICES ASSUME Init PROVE AccountsInv
    OBVIOUS
  <2>1. Total(<<>>, "hits") = 0 /\ Total(<<>>, "picks") = 0
    <3>1. \A field : Total(<<>>, field) = SumOver(<<>>, field, DOMAIN <<>>)
      BY DEF Total, SumOver
    <3>2. DOMAIN <<>> = {}
      OBVIOUS
    <3> QED BY <3>1, <3>2, SumOfNothing
  <2>2. Finds = 0
    BY FS_EmptySet DEF Init, Finds
  <2> QED
    BY <2>1, <2>2
    DEF Init, AccountsInv, FindsBalance, RunsBalance, CrashesBalance, OneWhile, NewStats
<1>2. TypeOK /\ ListsInv /\ AccountsInv /\ [Next]_vars => AccountsInv'
  BY AccountsStep DEF ListsInv
<1>3. AccountsInv /\ FiguresInv /\ UnsavedCrashesAreRare
      /\ (/\ \A k \in DOMAIN rows : rows[k].hits <= rows[k].picks
          /\ pc \in InLoop => rewards + OneWhile("credit") = Cardinality(Found))
      => AccountsBalance
  BY DEF AccountsInv, FindsBalance, RunsBalance, CrashesBalance, Finds, FiguresInv,
         CountsTogether, AccountsBalance, FindsAreCreditedOnce, ExecutionsAreAccounted
<1> QED
  BY <1>1, <1>2, <1>3, TypeCorrect, ListsInvariant, FiguresInvariant, FewCrashesAreUnsaved,
     RewardsFollowFinds, PTL DEF SafetySpec

-----------------------------------------------------------------------------
(***************************************************************************)
(* Module FuzzLoop: a campaign that drives FileHarness implements the      *)
(* campaign of module Campaign, where execute is one step and its result   *)
(* is sound: every step of the two together is a step of that campaign or  *)
(* none of its own.                                                        *)
(***************************************************************************)
FSafetySpec == FInit /\ [][FNext]_allvars

-----------------------------------------------------------------------------
(* The invariant of the two together.                                      *)

(* A call is under way only while the campaign waits for it, and it is for *)
(* the input the campaign has picked.                                      *)
CallInv ==
  /\ mode = "file" /\ hpc \in {"idle", "spawn", "wait", "return", "failed"}
  /\ hpc # "idle" => pc = "execute" /\ hinput = input
  /\ input \in Inputs

(* No child outlives its call, the bitmap holds what the child has run     *)
(* through, and a child exits the way its input lets it.                   *)
ChildInv ==
  /\ orphans = {}
  /\ child \in [state : {"none", "running", "exited"}, todo : SUBSET Edges,
                exit : ExitStatuses]
  /\ hpc = "spawn" => shm = {}
  /\ hpc = "wait" <=> child.state # "none"
  /\ hpc = "wait" => shm \union child.todo = Covers[hinput]
  /\ child.state = "exited" => child.todo = {} /\ child.exit \in Exits[hinput]

(* What the harness is about to return is what the campaign may be told. *)
ResultInv == hpc = "return" => hresult \in Results(hinput)

FInv == CallInv /\ ChildInv /\ ResultInv

-----------------------------------------------------------------------------
(* The invariant is kept.                                                  *)

(* What the harness makes of a call is something the campaign may be told. *)
LEMMA OutcomesAreResults ==
  ASSUME NEW i \in Inputs
  PROVE  /\ [status |-> H!Timeout, cov |-> {}] \in Results(i)
         /\ \A m \in Messages : [status |-> H!Error(m), cov |-> {}] \in Results(i)
         /\ \A s \in Exits[i] : [status |-> s, cov |-> Covers[i]] \in Results(i)
<1>1. [status |-> Timeout, cov |-> {}] \in Results(i)
  BY DEF Results
<1>2. ASSUME NEW m \in Messages
      PROVE  [status |-> Error(m), cov |-> {}] \in Results(i)
  <2>1. [status |-> Error(m), cov |-> {}]
          \in {[status |-> Error(x), cov |-> {}] : x \in Messages}
    BY <1>2
  <2> QED
    BY <2>1 DEF Results
<1>3. ASSUME NEW s \in Exits[i]
      PROVE  [status |-> s, cov |-> Covers[i]] \in Results(i)
  <2>1. Covers[i] \in {Covers[i], {}}
    OBVIOUS
  <2>2. [status |-> s, cov |-> Covers[i]]
          \in {[status |-> x, cov |-> c] : x \in Exits[i], c \in {Covers[i], {}}}
    BY <1>3, <2>1
  <2> QED
    BY <2>2 DEF Results
<1>4. H!Timeout = Timeout /\ \A m : H!Error(m) = Error(m)
  BY DEF H!Timeout, H!Error, Timeout, Error
<1> QED
  BY <1>1, <1>2, <1>3, <1>4

(* A step of a call, or of its child. *)
LEMMA CallStep ==
  ASSUME FInv, H!HarnessStep \/ H!ChildStep \/ H!OrphanRuns, UNCHANGED vars
  PROVE  FInv'
<1> USE DEF FInv, CallInv, ChildInv, ResultInv
<1>1. UNCHANGED <<pc, input>> /\ input \in Inputs
  BY DEF vars, memory
<1>2. /\ Covers[input] \subseteq Edges /\ Exits[input] \subseteq ExitStatuses
      /\ Ok \in ExitStatuses
  BY <1>1, CampaignAssumption DEF ExitStatuses
<1>3. CASE H!Spawn
  <2>1. /\ child' = [state |-> "running", todo |-> Covers[input], exit |-> Ok]
        /\ hpc' = "wait" /\ shm = {}
        /\ UNCHANGED <<mode, hinput, hresult, shm, orphans>>
    BY <1>3 DEF H!Spawn, H!Child, H!Ok, Ok
  <2> QED
    BY <1>1, <1>2, <1>3, <2>1 DEF H!Spawn
<1>4. ASSUME NEW r \in Results(hinput), H!Give(r), UNCHANGED orphans,
             hpc \in {"spawn", "wait"}
      PROVE  FInv'
  <2>1. /\ child' = [state |-> "none", todo |-> {}, exit |-> Ok]
        /\ hpc' = "return" /\ hresult' = r /\ UNCHANGED <<mode, hinput, shm, orphans>>
    BY <1>4 DEF H!Give, H!NoChild, H!Ok, Ok
  <2> QED
    BY <1>1, <1>2, <1>4, <2>1
<1>5. CASE H!SpawnFails
  <2>1. PICK m \in Messages : /\ H!Give([status |-> H!Error(m), cov |-> {}])
                              /\ UNCHANGED orphans
    BY <1>5 DEF H!SpawnFails
  <2>2. hpc = "spawn" /\ hinput \in Inputs
    BY <1>1, <1>5 DEF H!SpawnFails
  <2> QED
    BY <1>4, <2>1, <2>2, OutcomesAreResults
<1>6. CASE H!Collect
  <2>1. /\ hpc = "wait" /\ child.state = "exited" /\ hinput \in Inputs
        /\ H!Give([status |-> child.exit, cov |-> shm]) /\ UNCHANGED orphans
    BY <1>1, <1>6 DEF H!Collect
  <2>2. shm = Covers[hinput] /\ child.exit \in Exits[hinput]
    BY <2>1
  <2> QED
    BY <1>4, <2>1, <2>2, OutcomesAreResults
<1>7. CASE H!TimeOut \/ H!WaitFails
  <2>1. UNCHANGED orphans /\ hpc = "wait" /\ hinput \in Inputs
    BY <1>1, <1>7 DEF H!TimeOut, H!WaitFails, H!DropChild
  <2> QED
    BY <1>4, <1>7, <2>1, OutcomesAreResults DEF H!TimeOut, H!WaitFails
<1>8. CASE H!WriteInput \/ H!CloseStdin \/ H!BrokenPipe
  BY <1>8 DEF H!WriteInput, H!CloseStdin, H!BrokenPipe
<1>9. CASE H!ChildRuns
  <2>1. PICK e \in child.todo : /\ shm' = shm \union {e}
                                /\ child' = [child EXCEPT !.todo = @ \ {e}]
    BY <1>9 DEF H!ChildRuns
  <2>2. /\ child'.todo = child.todo \ {e} /\ child'.state = child.state
        /\ child'.exit = child.exit /\ child.state = "running"
        /\ child' \in [state : {"none", "running", "exited"}, todo : SUBSET Edges,
                       exit : ExitStatuses]
    BY <1>9, <2>1 DEF H!ChildRuns
  <2>3. UNCHANGED <<mode, hpc, hinput, hresult, orphans>>
    BY <1>9 DEF H!ChildRuns
  <2> QED
    BY <1>1, <2>1, <2>2, <2>3
<1>10. CASE H!ChildReads \/ H!ChildEchoes
  BY <1>1, <1>10 DEF H!ChildReads, H!ChildEchoes
<1>11. CASE H!ChildExits
  <2>1. PICK s \in Exits[hinput] :
          child' = [child EXCEPT !.state = "exited", !.exit = s]
    BY <1>11 DEF H!ChildExits
  <2>2. /\ child.state = "running" /\ child.todo = {}
        /\ UNCHANGED <<mode, hpc, hinput, hresult, shm, orphans>>
    BY <1>11 DEF H!ChildExits
  <2>3. hpc = "wait" /\ hinput = input /\ s \in ExitStatuses
    BY <1>1, <1>2, <2>2
  <2>4. child' = [state |-> "exited", todo |-> {}, exit |-> s]
    BY <2>1, <2>2
  <2> QED
    BY <1>1, <2>2, <2>3, <2>4
<1>12. CASE H!OrphanRuns
  BY <1>12 DEF H!OrphanRuns, H!EdgesOfOrphans
<1> QED
  BY <1>3, <1>5, <1>6, <1>7, <1>8, <1>9, <1>10, <1>11, <1>12
     DEF H!HarnessStep, H!ChildStep

(* Every other step of the two. *)
LEMMA FInvStep ==
  ASSUME FInv, [FNext]_allvars
  PROVE  FInv'
<1> USE DEF FInv, CallInv, ChildInv, ResultInv
<1>1. CASE CampaignMoves
  <2>1. UNCHANGED <<mode, hpc, hinput, hresult, shm, child, orphans>>
    BY <1>1 DEF CampaignMoves, harness
  <2>2. hpc # "idle" => UNCHANGED <<pc, input>>
    BY <1>1 DEF CampaignMoves, OwnStep, SeedCorpus, Leave, Pick, CountDuplicate,
                RecordNewCrash, SaveCrash, AddSeed, CreditParent, Publish, CtrlC, Ended
  <2>3. input' \in Inputs
    BY <1>1, CampaignAssumption
       DEF CampaignMoves, OwnStep, SeedCorpus, Leave, Pick, CountDuplicate,
           RecordNewCrash, SaveCrash, AddSeed, CreditParent, Publish, CtrlC, Ended,
           vars, memory
  <2> QED
    BY <2>1, <2>2, <2>3
<1>2. CASE ProcessMoves \/ HarnessErrs
  <2>1. NewHarness /\ input' = Bootstrap
    BY <1>2 DEF ProcessMoves, HarnessErrs, Launch, Die, WipeMemory
  <2>2. /\ mode' = mode /\ hpc' = "idle" /\ orphans' = {} /\ shm' = {}
        /\ child' = [state |-> "none", todo |-> {}, exit |-> Ok]
    BY <2>1 DEF NewHarness, H!NoChild, H!Ok, Ok
  <2>3. Ok \in ExitStatuses
    BY DEF ExitStatuses
  <2> QED
    BY <2>1, <2>2, <2>3, CampaignAssumption
<1>3. CASE CallHarness
  <2>1. UNCHANGED <<pc, input>> /\ pc = "execute" /\ hinput' = input
    BY <1>3 DEF CallHarness, vars, memory, H!Call, H!CallFails
  <2>2. /\ hpc = "idle" /\ UNCHANGED <<mode, hresult, child, orphans>>
        /\ \/ hpc' = "spawn" /\ shm' = {}
           \/ hpc' = "failed" /\ shm' = shm
    BY <1>3 DEF CallHarness, H!Call, H!CallFails
  <2> QED
    BY <2>1, <2>2
<1>4. CASE HarnessMoves \/ TargetMoves
  BY <1>4, CallStep DEF HarnessMoves, TargetMoves
<1>5. CASE HarnessReturns
  <2>1. /\ hpc = "return" /\ hpc' = "idle"
        /\ UNCHANGED <<mode, shm, child, orphans>>
    BY <1>5 DEF HarnessReturns, H!Return
  <2>2. input' = input
    BY <1>5 DEF HarnessReturns, Executed, RunTimedOut, RunCrashed, RunWasBoring,
                RunWasInteresting, Returned
  <2> QED
    BY <2>1, <2>2
<1>6. CASE UNCHANGED allvars
  <2>1. UNCHANGED <<pc, input, mode, hpc, hinput, hresult, shm, child, orphans>>
    BY <1>6 DEF allvars, vars, memory, harness
  <2> QED
    BY <2>1
<1> QED
  BY <1>1, <1>2, <1>3, <1>4, <1>5, <1>6 DEF FNext

(* It holds at first, when the harness is FileHarness. *)
LEMMA FInvInit ==
  ASSUME Modes = {"file"}, FInit
  PROVE  FInv
<1>1. /\ mode = "file" /\ hpc = "idle" /\ orphans = {} /\ shm = {}
      /\ child = [state |-> "none", todo |-> {}, exit |-> Ok]
  BY DEF FInit, H!HInit, H!NoChild, H!Ok, Ok
<1>2. Ok \in ExitStatuses /\ input \in Inputs
  BY CampaignAssumption DEF ExitStatuses, FInit, Init
<1> QED
  BY <1>1, <1>2 DEF FInv, CallInv, ChildInv, ResultInv

-----------------------------------------------------------------------------
(* The refinement.                                                         *)

(* A step of the campaign and its harness is a step of the campaign, or    *)
(* leaves it where it is; what execute returns is a sound result.          *)
LEMMA StepsMap ==
  ASSUME FInv, [FNext]_allvars
  PROVE  [Next]_vars
<1>1. CASE CampaignMoves \/ ProcessMoves \/ HarnessErrs
  BY <1>1 DEF CampaignMoves, ProcessMoves, HarnessErrs, Next, Environment
<1>2. CASE CallHarness \/ HarnessMoves \/ TargetMoves
  BY <1>2 DEF CallHarness, HarnessMoves, TargetMoves
<1>3. CASE HarnessReturns
  <2>1. hresult \in Results(input)
    BY <1>3 DEF HarnessReturns, H!Return, FInv, CallInv, ResultInv
  <2> QED
    BY <1>3, <2>1 DEF HarnessReturns, Next, Execute
<1>4. CASE UNCHANGED allvars
  BY <1>4 DEF allvars
<1> QED
  BY <1>1, <1>2, <1>3, <1>4 DEF FNext

(* run_campaign over FileHarness implements the campaign that is told the  *)
(* truth about each execution: the initial states and every step map.      *)
(* (Its liveness is left to the runs.)                                     *)
THEOREM FileLoopImplementsCampaign ==
  ASSUME Modes = {"file"}
  PROVE  FSafetySpec => SafetySpec
<1>1. FInit => FInv /\ Init
  BY FInvInit DEF FInit
<1>2. FInv /\ [FNext]_allvars => FInv' /\ [Next]_vars
  BY FInvStep, StepsMap
<1> QED
  BY <1>1, <1>2, PTL DEF FSafetySpec, SafetySpec

(* So over FileHarness, with its child, bitmap and timeouts, an edge the   *)
(* tracker counts as seen is run through by an input of the corpus.  Over  *)
(* StdinHarness it need not be: see the run fuzz_loop_stdin.               *)
THEOREM FileLoopCoversSeenEdges ==
  ASSUME Modes = {"file"}
  PROVE  FSafetySpec => []SeenEdgesAreInCorpus
BY FileLoopImplementsCampaign, CorpusCoversSeenEdges, PTL

(* And the promises of the campaign about its stores, its accounts, its    *)
(* budget and its dashboard hold over that harness as they stand.          *)
THEOREM FileLoopKeepsPromises ==
  ASSUME Modes = {"file"}
  PROVE  FSafetySpec => /\ [](/\ KeptSeedsAddCoverage /\ StoresHaveNoDuplicates
                              /\ CrashFilesAreFiled /\ DuplicatesShareSeverity
                              /\ AccountsBalance /\ BudgetIsExact /\ DashboardFollows)
                        /\ StarvedSeedsStayStarved
<1>1. SafetySpec => [](/\ KeptSeedsAddCoverage /\ StoresHaveNoDuplicates
                       /\ CrashFilesAreFiled /\ DuplicatesShareSeverity
                       /\ AccountsBalance /\ BudgetIsExact /\ DashboardFollows)
  BY EveryFindAddsCoverage, StoresAreUnique, CrashFilesMatchRows,
     DuplicatesAreOfOneSeverity, AccountsAreBalanced, BudgetIsMet, DashboardIsRight, PTL
<1> QED
  BY <1>1, FileLoopImplementsCampaign, StarvationIsForGood
=============================================================================

------------------------------ MODULE Campaign ------------------------------
(***************************************************************************)
(* The fuzzing campaign, phaedra-core::run_campaign, with the two SQLite   *)
(* stores it writes (the corpus and the crash triage database), the crash  *)
(* directory, the coverage tracker and the figures the terminal dashboard  *)
(* shows.  Every commit to a store is a step of its own, because the       *)
(* process may end between any two of them (kill, panic, an error the code *)
(* propagates with `?') and be started again on the same directories.      *)
(*                                                                         *)
(* The harness is seen here through what it returns: a result drawn from   *)
(* Results(input).  Module FuzzLoop replaces it by the steps of a real     *)
(* harness.                                                                *)
(***************************************************************************)
EXTENDS Dedup, Sequences, FiniteSetsExt

CONSTANTS
  Bootstrap,     \* the fallback seed b"phaedra"
  Edges,         \* slots of the coverage bitmap
  Exits,         \* Exits[i]: the statuses the target can exit with on input i
  Covers,        \* Covers[i]: the edges the target runs through on input i
  SeedReplies,   \* what seed generation can return: sequences of inputs
  MaxExecs,      \* --max-execs; 0 means no limit
  PickLimit,     \* LIMIT of the seed query (50 in the code)
  LiveEvery,     \* executions between two updates of the dashboard (10)
  RecentCap,     \* length of the dashboard's lists (5)
  MaxLaunches    \* bound of the model: how often the program is started

ASSUME CampaignAssumption ==
  /\ Bootstrap \in Inputs
  /\ Exits \in [Inputs -> SUBSET ExitStatuses]
  /\ Covers \in [Inputs -> SUBSET Edges]
  /\ IsFiniteSet(Edges)
  /\ SeedReplies \subseteq Seq(Inputs) /\ SeedReplies # {}
  /\ MaxExecs \in Nat
  /\ PickLimit \in Nat \ {0}
  /\ LiveEvery \in Nat \ {0}
  /\ RecentCap \in Nat \ {0}
  /\ MaxLaunches \in Nat

VARIABLES
  (* on disk *)
  rows,          \* corpus table, in the order of id
  crashes,       \* crashes table, in the order of id
  files,         \* crash files written: input and signature, oldest first
  (* in the memory of the process *)
  pc,            \* where run_campaign stands
  pending,       \* seeds of the initial corpus still to be inserted
  base,          \* id of base_seed
  input,         \* mutated
  result,        \* what harness.execute returned
  tracker,       \* CoverageTracker
  stats,         \* CampaignStats
  rewards,       \* calls of mutator.record_success so far
  live,          \* counters of LiveStats
  recentFinds,   \* LiveStats.recent_finds (the edge counts of the labels)
  recentCrashes, \* LiveStats.recent_crashes
  shutdown,      \* the flag the ctrl-c task sets
  (* kept for the properties and bounds, read by no action's guard but Launch *)
  launches,      \* how often the program was started
  deaths,        \* how often it ended before leaving the loop
  mark,          \* sizes of the stores when this process started
  spent          \* executions and crashes counted by the processes before it

disk   == <<rows, crashes, files>>
memory == <<pending, base, input, result, tracker, stats, rewards, live,
            recentFinds, recentCrashes, shutdown>>
ghosts == <<launches, deaths, mark, spent>>
vars   == <<disk, pc, memory, ghosts>>

-----------------------------------------------------------------------------
(* Helpers.                                                                *)

NewTracker == [seen |-> {}, total |-> 0]

NewStats == [execs |-> 0, interesting |-> 0, crashes |-> 0, timeouts |-> 0,
             edges |-> 0, corpus |-> 0]

NewLive == [execs |-> 0, interesting |-> 0, crashes |-> 0, unique |-> 0,
            timeouts |-> 0, corpus |-> 0, edges |-> 0]

NoResult == [status |-> Ok, cov |-> {}]

NewRow(data, edges) == [data |-> data, picks |-> 0, hits |-> 0, edges |-> edges]

(* Mutant: the constraint is dropped. *)
InCorpus_Never(data) == FALSE

(* UNIQUE constraint on the corpus hash *)
InCorpus(data) == \E k \in DOMAIN rows : rows[k].data = data

(* Mutant: the seed picked least goes first. *)
Outranks_ByPicks(r, s) == r.picks < s.picks

(* Seed r comes strictly before seed s in the ORDER BY of the seed query:  *)
(* (hit_count * 10 + edge_count) / (pick_count + 1), larger first.         *)
Outranks(r, s) ==
  (r.hits * 10 + r.edges) * (s.picks + 1) > (s.hits * 10 + s.edges) * (r.picks + 1)

(* ids the query may return under its LIMIT; ties come in any order *)
Candidates ==
  {k \in DOMAIN rows :
     Cardinality({m \in DOMAIN rows : Outranks(rows[m], rows[k])}) < PickLimit}

(* push, then drop the oldest beyond RecentCap *)
PushRecent(list, x) ==
  IF Len(list) < RecentCap THEN Append(list, x) ELSE Append(Tail(list), x)

(* What a sound harness may return for i.  A status the target exits with  *)
(* comes with the coverage of that run, or with none when the harness has  *)
(* no shared memory (the loop treats no map as an empty one); any run may  *)
(* be too slow, and the harness may fail to wait for the child.            *)
Results(i) ==
  {[status |-> s, cov |-> c] : s \in Exits[i], c \in {Covers[i], {}}}
    \union {[status |-> Timeout, cov |-> {}]}
    \union {[status |-> Error(m), cov |-> {}] : m \in Messages}

(* Mutant: any coverage is taken for new coverage. *)
Fresh_Everything(r) == r.cov

(* the edges of r that no earlier run of this process has shown *)
Fresh(r) == r.cov \ tracker.seen

-----------------------------------------------------------------------------
Init ==
  /\ rows = <<>> /\ crashes = <<>> /\ files = <<>>
  /\ pc = "down"
  /\ pending = <<>> /\ base = 0 /\ input = Bootstrap /\ result = NoResult
  /\ tracker = NewTracker /\ stats = NewStats /\ rewards = 0 /\ live = NewLive
  /\ recentFinds = <<>> /\ recentCrashes = <<>> /\ shutdown = FALSE
  /\ launches = 0 /\ deaths = 0
  /\ mark = [rows |-> 0, crashes |-> 0] /\ spent = [execs |-> 0, crashes |-> 0]

(* Memory of a process that has just started. *)
WipeMemory ==
  /\ base' = 0 /\ input' = Bootstrap /\ result' = NoResult
  /\ tracker' = NewTracker /\ stats' = NewStats /\ rewards' = 0
  /\ spent' = [execs |-> spent.execs + stats.execs,
               crashes |-> spent.crashes + stats.crashes]
  /\ live' = NewLive
  /\ recentFinds' = <<>> /\ recentCrashes' = <<>> /\ shutdown' = FALSE

(* Mutant: nothing is stored when no seed was generated. *)
Launch_WithoutFallback ==
  /\ pc \in {"down", "done"} /\ launches < MaxLaunches
  /\ launches' = launches + 1
  /\ mark' = [rows |-> Len(rows), crashes |-> Len(crashes)]
  /\ WipeMemory
  /\ pending' \in SeedReplies
  /\ pc' = IF pending' = <<>> THEN "loop" ELSE "seed"
  /\ UNCHANGED <<disk, deaths>>

(* The program is started: an empty corpus is filled first, from the       *)
(* generated seeds or, when there are none, with the fallback seed.        *)
Launch ==
  /\ pc \in {"down", "done"}
  /\ launches < MaxLaunches
  /\ launches' = launches + 1
  /\ mark' = [rows |-> Len(rows), crashes |-> Len(crashes)]
  /\ WipeMemory
  /\ IF rows = <<>>
       THEN \E reply \in SeedReplies :
              /\ pending' = IF reply = <<>> THEN <<Bootstrap>> ELSE reply
              /\ pc' = "seed"
       ELSE pending' = <<>> /\ pc' = "loop"
  /\ UNCHANGED <<disk, deaths>>

(* One add_seed of the initial corpus; a duplicate is skipped. *)
SeedCorpus ==
  /\ pc = "seed"
  /\ rows' = IF InCorpus(Head(pending)) THEN rows
             ELSE Append(rows, NewRow(Head(pending), 0))
  /\ pending' = Tail(pending)
  /\ pc' = IF Tail(pending) = <<>> THEN "loop" ELSE "seed"
  /\ UNCHANGED <<crashes, files, base, input, result, tracker, stats, rewards,
                 live, recentFinds, recentCrashes, shutdown, ghosts>>

(* Mutant: off by one. *)
LimitReached_OneMore == MaxExecs > 0 /\ stats.execs > MaxExecs

(* the limit of --max-execs, checked at the top of the loop *)
LimitReached == MaxExecs > 0 /\ stats.execs >= MaxExecs

(* Mutant: the limit is noticed but does not leave the loop. *)
Leave_OnlyOnCtrlC ==
  /\ pc = "loop" /\ shutdown
  /\ pc' = "done"
  /\ UNCHANGED <<disk, memory, ghosts>>

(* Top of the loop: the shutdown flag, then the execution limit. *)
Leave ==
  /\ pc = "loop"
  /\ shutdown \/ LimitReached
  /\ pc' = "done"
  /\ UNCHANGED <<disk, memory, ghosts>>

(* pick, record_pick and mutation: the pick is charged to the seed before  *)
(* the input is run.  The mutator may produce any input.  An empty corpus  *)
(* makes the loop sleep and try again, which changes nothing.              *)
Pick ==
  /\ pc = "loop" /\ ~shutdown /\ ~LimitReached
  /\ IF rows = <<>>
       THEN UNCHANGED <<rows, base, input, pc>>
       ELSE \E k \in Candidates, i \in Inputs :
              /\ rows' = [rows EXCEPT ![k].picks = @ + 1]
              /\ base' = k
              /\ input' = i
              /\ pc' = "execute"
  /\ UNCHANGED <<crashes, files, pending, result, tracker, stats, rewards, live,
                 recentFinds, recentCrashes, shutdown, ghosts>>

-----------------------------------------------------------------------------
(* harness.execute returns r, and the loop looks at its status.            *)

Returned(r) ==
  /\ pc = "execute"
  /\ result' = r
  /\ UNCHANGED <<disk, pending, base, input, rewards, live, recentFinds,
                 recentCrashes, shutdown, ghosts>>

(* status Timeout: counted, nothing learnt *)
RunTimedOut(r) ==
  /\ Returned(r)
  /\ r.status.kind = "timeout"
  /\ stats' = [stats EXCEPT !.execs = @ + 1, !.timeouts = @ + 1]
  /\ pc' = "publish"
  /\ UNCHANGED tracker

(* Mutant: the tracker learns the edges of a crashing run. *)
RunCrashed_Tracked(r) ==
  /\ Returned(r)
  /\ r.status.kind \in {"crash", "error"}
  /\ stats' = [stats EXCEPT !.execs = @ + 1, !.crashes = @ + 1]
  /\ tracker' = [seen  |-> tracker.seen \union r.cov,
                 total |-> tracker.total + Cardinality(Fresh(r))]
  /\ pc' = "record"

(* status Crash or Error: the coverage of the run is ignored *)
RunCrashed(r) ==
  /\ Returned(r)
  /\ r.status.kind \in {"crash", "error"}
  /\ stats' = [stats EXCEPT !.execs = @ + 1, !.crashes = @ + 1]
  /\ pc' = "record"
  /\ UNCHANGED tracker

(* status Ok without an edge that is new to the tracker *)
RunWasBoring(r) ==
  /\ Returned(r)
  /\ r.status.kind = "ok" /\ Fresh(r) = {}
  /\ stats' = [stats EXCEPT !.execs = @ + 1]
  /\ pc' = "publish"
  /\ UNCHANGED tracker

(* is_interesting marks the new edges as seen before the seed is stored *)
RunWasInteresting(r) ==
  /\ Returned(r)
  /\ r.status.kind = "ok" /\ Fresh(r) # {}
  /\ tracker' = [seen  |-> tracker.seen \union r.cov,
                 total |-> tracker.total + Cardinality(Fresh(r))]
  /\ stats' = [stats EXCEPT !.execs = @ + 1, !.interesting = @ + 1,
                            !.edges = tracker'.total]
  /\ pc' = "insert"

Executed(r) ==
  RunTimedOut(r) \/ RunCrashed(r) \/ RunWasBoring(r) \/ RunWasInteresting(r)

Execute == \E r \in Results(input) : Executed(r)

-----------------------------------------------------------------------------
(* What the loop does with a crash.                                        *)

CurrentSignature == Signature(result.status, input)

(* Mutant: a duplicate is saved like a new crash. *)
CountDuplicate_Saved ==
  /\ pc = "record"
  /\ \E k \in DOMAIN crashes :
       /\ crashes[k].sig = CurrentSignature
       /\ crashes' = [crashes EXCEPT ![k].hits = @ + 1]
  /\ pc' = "save"
  /\ UNCHANGED <<rows, files, memory, ghosts>>

(* CrashTriageDb::record finds the signature: only its counter moves. *)
CountDuplicate ==
  /\ pc = "record"
  /\ \E k \in DOMAIN crashes :
       /\ crashes[k].sig = CurrentSignature
       /\ crashes' = [crashes EXCEPT ![k].hits = @ + 1]
  /\ pc' = "publish"
  /\ UNCHANGED <<rows, files, memory, ghosts>>

(* CrashTriageDb::record inserts the row of a new signature. *)
RecordNewCrash ==
  /\ pc = "record"
  /\ \A k \in DOMAIN crashes : crashes[k].sig # CurrentSignature
  /\ crashes' = Append(crashes, [sig |-> CurrentSignature,
                                 severity |-> Severity(result.status),
                                 input |-> input, hits |-> 1])
  /\ pc' = "save"
  /\ UNCHANGED <<rows, files, memory, ghosts>>

(* save_crash, then the dashboard's list; a write that fails ends the run  *)
(* (Die).                                                                  *)
SaveCrash ==
  /\ pc = "save"
  /\ files' = Append(files, [sig |-> CurrentSignature, input |-> input])
  /\ recentCrashes' = PushRecent(recentCrashes, Severity(result.status))
  /\ pc' = "publish"
  /\ UNCHANGED <<rows, crashes, pending, base, input, result, tracker, stats,
                 rewards, live, recentFinds, shutdown, ghosts>>

-----------------------------------------------------------------------------
(* What the loop does with an input that reached new edges.                *)

(* Mutant: the parent is credited whether or not the seed was new. *)
AddSeed_AlwaysCredits ==
  /\ pc = "insert"
  /\ rows' = IF InCorpus(input) THEN rows
             ELSE Append(rows, NewRow(input, tracker.total))
  /\ pc' = "credit"
  /\ UNCHANGED <<crashes, files, memory, ghosts>>

(* CorpusManager::add_seed: INSERT OR IGNORE on the hash of the input *)
AddSeed ==
  /\ pc = "insert"
  /\ IF InCorpus(input)
       THEN pc' = "publish" /\ UNCHANGED rows
       ELSE /\ rows' = Append(rows, NewRow(input, tracker.total))
            /\ pc' = "credit"
  /\ UNCHANGED <<crashes, files, memory, ghosts>>

(* record_hit on the parent and record_success in the mutation engine (whose *)
(* weights are not part of this module), then the figures of the process.   *)
CreditParent ==
  /\ pc = "credit"
  /\ rows' = [rows EXCEPT ![base].hits = @ + 1]
  /\ rewards' = rewards + 1
  /\ stats' = [stats EXCEPT !.corpus = Len(rows)]
  /\ recentFinds' = PushRecent(recentFinds, tracker.total)
  /\ pc' = "publish"
  /\ UNCHANGED <<crashes, files, pending, base, input, result, tracker, live,
                 recentCrashes, shutdown, ghosts>>

(* Mutant: only runs that end well reach the update of the dashboard. *)
Publish_AfterOkOnly ==
  /\ pc = "publish"
  /\ live' = IF stats.execs % LiveEvery = 0 /\ result.status = Ok
               THEN [execs |-> stats.execs, interesting |-> stats.interesting,
                     crashes |-> stats.crashes, unique |-> Len(crashes),
                     timeouts |-> stats.timeouts, corpus |-> stats.corpus,
                     edges |-> stats.edges]
               ELSE live
  /\ base' = 0 /\ input' = Bootstrap /\ result' = NoResult
  /\ pc' = "loop"
  /\ UNCHANGED <<disk, pending, tracker, stats, rewards,
                 recentFinds, recentCrashes, shutdown, ghosts>>

(* Every LiveEvery executions the dashboard gets a copy of the figures; the *)
(* locals of the iteration go out of scope.                                 *)
Publish ==
  /\ pc = "publish"
  /\ live' = IF stats.execs % LiveEvery = 0
               THEN [execs |-> stats.execs, interesting |-> stats.interesting,
                     crashes |-> stats.crashes, unique |-> Len(crashes),
                     timeouts |-> stats.timeouts, corpus |-> stats.corpus,
                     edges |-> stats.edges]
               ELSE live
  /\ base' = 0 /\ input' = Bootstrap /\ result' = NoResult
  /\ pc' = "loop"
  /\ UNCHANGED <<disk, pending, tracker, stats, rewards,
                 recentFinds, recentCrashes, shutdown, ghosts>>

-----------------------------------------------------------------------------
InLoop == {"loop", "execute", "record", "save", "insert", "credit", "publish"}

(* The ctrl-c task; it is spawned just before the loop. *)
CtrlC ==
  /\ pc \in InLoop /\ ~shutdown
  /\ shutdown' = TRUE
  /\ UNCHANGED <<disk, pc, pending, base, input, result, tracker, stats, rewards,
                 live, recentFinds, recentCrashes, ghosts>>

(* The process ends where it stands: killed, panicking, or returning the   *)
(* error of a store, of the harness or of a file write.                    *)
Die ==
  /\ pc \in InLoop \union {"seed"}
  /\ pc' = "down"
  /\ deaths' = deaths + 1
  /\ pending' = <<>> /\ WipeMemory
  /\ UNCHANGED <<disk, launches, mark>>

(* A process that has ended stays ended unless it is launched again. *)
Ended ==
  /\ pc \in {"down", "done"}
  /\ UNCHANGED vars

(* The steps of run_campaign but for the call of the harness. *)
OwnStep ==
  \/ SeedCorpus \/ Leave \/ Pick
  \/ CountDuplicate \/ RecordNewCrash \/ SaveCrash
  \/ AddSeed \/ CreditParent \/ Publish

Environment == Launch \/ CtrlC \/ Die \/ Ended

Next == OwnStep \/ Execute \/ Environment

(* The process runs until it ends: once started it keeps taking steps, and *)
(* each call of the harness returns.  The second is an assumption on the   *)
(* harness: FileHarness and SocketHarness keep it by their timeouts,       *)
(* StdinHarness does not for an input its pipe cannot hold (run            *)
(* stdin_blocked).                                                         *)
Fairness == WF_vars(OwnStep) /\ WF_vars(Execute)

SafetySpec == Init /\ [][Next]_vars
Spec == SafetySpec /\ Fairness

-----------------------------------------------------------------------------
(* Correctness.                                                            *)

Row   == [data : Inputs, picks : Nat, hits : Nat, edges : Nat]
Keys  == {Signature(s, i) : s \in CrashStatuses, i \in Inputs}
CrashRow == [sig : Keys, severity : Severities, input : Inputs, hits : Nat]
Stats == [execs : Nat, interesting : Nat, crashes : Nat, timeouts : Nat,
          edges : Nat, corpus : Nat]
Live  == [execs : Nat, interesting : Nat, crashes : Nat, unique : Nat,
          timeouts : Nat, corpus : Nat, edges : Nat]

DiskTypeOK ==
  /\ rows \in Seq(Row)
  /\ crashes \in Seq(CrashRow)
  /\ files \in Seq([sig : Keys, input : Inputs])

CountersTypeOK ==
  /\ tracker \in [seen : SUBSET Edges, total : Nat]
  /\ stats \in Stats /\ live \in Live /\ rewards \in Nat
  /\ recentFinds \in Seq(Nat) /\ recentCrashes \in Seq(Severities)
  /\ shutdown \in BOOLEAN
  /\ launches \in Nat /\ deaths \in Nat
  /\ mark \in [rows : Nat, crashes : Nat] /\ spent \in [execs : Nat, crashes : Nat]

(* what each stage of an iteration may rely on *)
StageOK ==
  /\ pc \in InLoop \union {"down", "done", "seed"}
  /\ pending \in Seq(Inputs) /\ (pc = "seed" <=> pending # <<>>)
  /\ input \in Inputs
  /\ pc \in InLoop \ {"loop"} => base \in DOMAIN rows
  /\ pc \in InLoop \ {"loop", "execute"} => result \in Results(input)
  /\ pc \in {"insert", "credit"} => result.status.kind = "ok"
  /\ pc \in {"record", "save"} => result.status.kind \in {"crash", "error"}

(* Types of the variables; the loop always has a seed to pick (the sleep   *)
(* on an empty corpus is never reached) and a parent to credit.            *)
TypeOK ==
  /\ DiskTypeOK /\ CountersTypeOK /\ StageOK
  /\ pc \in InLoop => rows # <<>>

OneWhile(stage) == IF pc = stage THEN 1 ELSE 0

InputsOf(table) == {table[k].data : k \in DOMAIN table}
EdgesOf(data)   == UNION {Covers[i] : i \in data}

(* "Inputs that open new edges go into the corpus" (README.md:80): an edge *)
(* the tracker counts as seen is run through by some input of the corpus,  *)
(* except while the input that has just reached it is on its way there.    *)
(* The tracker is updated before the row is inserted, an equal input may   *)
(* be there already, and the process may end in between.                   *)
SeenEdgesAreInCorpus ==
  tracker.seen \subseteq EdgesOf(InputsOf(rows) \union
                                 (IF pc = "insert" THEN {input} ELSE {}))

(* The seeds this process found, as against those it bootstrapped from and *)
(* those an earlier process left.                                          *)
Found == {k \in DOMAIN rows : k > mark.rows /\ rows[k].edges > 0}

(* "Inputs that do not are discarded" (README.md:17): each seed found by a *)
(* process runs through an edge that no earlier find of it ran through,    *)
(* and the edge counts stored with the finds, which decide how often each  *)
(* is picked, grow strictly from find to find.                             *)
KeptSeedsAddCoverage ==
  \A k, m \in Found : m < k =>
    /\ ~ (Covers[rows[k].data] \subseteq
            EdgesOf({rows[j].data : j \in {f \in Found : f < k}}))
    /\ rows[m].edges < rows[k].edges

(* The reward of a seed: each find is credited to exactly one pick of one  *)
(* seed, in the store and in the mutation engine alike.  Only a process    *)
(* that ended between the insertion and the credit owes one.               *)
Total(table, field) == MapThenSumSet(LAMBDA k : table[k][field], DOMAIN table)

FindsAreCreditedOnce ==
  LET finds == Cardinality({k \in DOMAIN rows : rows[k].edges > 0})
      hits  == Total(rows, "hits") + OneWhile("credit")
  IN  /\ hits <= finds /\ finds <= hits + deaths
      /\ \A k \in DOMAIN rows : rows[k].hits <= rows[k].picks
      /\ pc \in InLoop => rewards + OneWhile("credit") = Cardinality(Found)

(* UNIQUE keys: no input is stored twice in the corpus, no signature twice *)
(* in the triage database, across every restart.                           *)
StoresHaveNoDuplicates ==
  /\ \A k, m \in DOMAIN rows : rows[k].data = rows[m].data => k = m
  /\ \A k, m \in DOMAIN crashes : crashes[k].sig = crashes[m].sig => k = m

(* "Only new unique crashes are written to disk" (README.md:88): a crash   *)
(* file holds the very input filed under its signature, and no signature   *)
(* has two files, whatever was interrupted and started again.              *)
CrashFilesAreFiled ==
  /\ \A f \in DOMAIN files : \E k \in DOMAIN crashes :
       files[f].sig = crashes[k].sig /\ files[f].input = crashes[k].input
  /\ \A f, g \in DOMAIN files : files[f].sig = files[g].sig => f = g

(* The row of a crash is committed before its file is written, and a later *)
(* crash of the same signature is a duplicate: a file that was not written *)
(* then never will be.  That happens at most once per process that ends    *)
(* early.                                                                  *)
Unsaved ==
  {k \in DOMAIN crashes : \A f \in DOMAIN files : files[f].sig # crashes[k].sig}

UnsavedCrashesAreRare ==
  Cardinality(Unsaved) <= deaths + OneWhile("save")

(* A duplicate crash leaves the severity of the row alone; that is right   *)
(* because crashes with one signature always have one severity, so none is *)
(* hidden under a row of a lesser one.                                     *)
DuplicatesShareSeverity ==
  pc = "record" => \A k \in DOMAIN crashes :
    crashes[k].sig = CurrentSignature => crashes[k].severity = Severity(result.status)

(* The figures add up over every process that worked on the directories:   *)
(* each execution was charged to one pick and is of one kind, each crash   *)
(* counted is one hit in the triage database; a process that ended early   *)
(* owes at most one of each.                                               *)
ExecutionsAreAccounted ==
  LET runs  == spent.execs + stats.execs + OneWhile("execute")
      hits  == Total(crashes, "hits") + OneWhile("record")
      picks == Total(rows, "picks")
      seen  == spent.crashes + stats.crashes
  IN  /\ runs <= picks /\ picks <= runs + deaths
      /\ hits <= seen /\ seen <= hits + deaths
      /\ stats.interesting + stats.crashes + stats.timeouts <= stats.execs

(* The stores and the counters agree after any sequence of processes: finds*)
(* with credits, executions with picks, crashes with hits and files, but   *)
(* for what each process that ended early left half done.                  *)
AccountsBalance ==
  FindsAreCreditedOnce /\ ExecutionsAreAccounted /\ UnsavedCrashesAreRare

(* --max-execs is a limit on executions, met exactly unless interrupted.   *)
BudgetIsExact ==
  MaxExecs > 0 =>
    /\ stats.execs + OneWhile("execute") <= MaxExecs
    /\ pc = "done" /\ ~shutdown => stats.execs = MaxExecs

(* What the dashboard would show if it were updated now.  corpus_size is   *)
(* set by the first find this process keeps and is 0 before, whatever the  *)
(* corpus holds.                                                           *)
Figures == [execs |-> stats.execs, interesting |-> stats.interesting,
            crashes |-> stats.crashes, unique |-> Len(crashes),
            timeouts |-> stats.timeouts, edges |-> tracker.total,
            corpus |-> IF Found = {} THEN 0 ELSE Len(rows)]

(* Each time the loop comes round, the dashboard's figures are of the last *)
(* multiple of LiveEvery executions: at the multiple itself they are those *)
(* of the stores and counters, one and all.  Until the next one they fall  *)
(* behind by no more than the executions since can account for, and no     *)
(* figure is ever ahead.                                                   *)
FiguresFollow ==
  /\ pc = "loop" => live.execs = stats.execs - (stats.execs % LiveEvery)
  /\ pc = "loop" /\ stats.execs > 0 /\ live.execs = stats.execs => live = Figures
  /\ \A f \in DOMAIN live : live[f] <= Figures[f]
  /\ stats.interesting + stats.crashes + stats.timeouts + live.execs
       <= live.interesting + live.crashes + live.timeouts + stats.execs
  /\ live.execs > 0 => Len(crashes) + live.crashes <= live.unique + stats.crashes
  /\ live.corpus > 0 => Len(rows) + live.interesting <= live.corpus + stats.interesting

(* The dashboard's lists hold the newest finds and crashes of this process,*)
(* oldest first, however many came before.  The finds credited so far are  *)
(* the last `rewards' rows.                                                *)
LastOf(list, n) == SubSeq(list, IF Len(list) > n THEN Len(list) - n + 1 ELSE 1, Len(list))

RecentListsShowNewest ==
  pc \in InLoop =>
    LET new   == SubSeq(crashes, mark.crashes + 1, Len(crashes) - OneWhile("save"))
        last  == Len(rows) - OneWhile("credit")
        finds == SubSeq(rows, last - rewards + 1, last)
    IN  /\ {k \in Found : k <= last} = (last - rewards + 1)..last
        /\ recentCrashes = LastOf([k \in DOMAIN new |-> new[k].severity], RecentCap)
        /\ recentFinds = LastOf([k \in DOMAIN finds |-> finds[k].edges], RecentCap)

(* Figures are copied every LiveEvery executions, lists at once: both are  *)
(* what they should be whatever the iterations in between did.             *)
DashboardFollows == FiguresFollow /\ RecentListsShowNewest

(* A seed of score 0 behind PickLimit seeds of a positive score is never   *)
(* picked again, in this process or a later one: scores fall with picks    *)
(* but never reach 0.  The exception is the parent of the find that put it *)
(* there, which is about to be credited.                                   *)
Starved ==
  {k \in DOMAIN rows :
     /\ rows[k].hits = 0 /\ rows[k].edges = 0
     /\ Cardinality({m \in DOMAIN rows : rows[m].hits > 0 \/ rows[m].edges > 0}) >= PickLimit}

StarvedSeedsStayStarved ==
  [][\A k \in Starved : (pc = "credit" /\ k = base)
                        \/ (k \in Starved' /\ rows'[k] = rows[k])]_vars

(* A campaign with a limit comes to an end, if its harness always returns; *)
(* over FileHarness it does (fuzz_loop_file, where the refinement includes *)
(* the fairness of Execute).                                               *)
Terminates ==
  MaxExecs > 0 => (pc \notin {"down", "done"} ~> pc \in {"down", "done"})
=============================================================================

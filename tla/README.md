# A verification project for Phaedra

Phaedra (`src/`) is a coverage-guided fuzzer written in Rust. A *campaign*
repeatedly picks a seed from a corpus, mutates it, runs a target program on the
result and learns from what the run did: new coverage makes the input a seed,
a crash is triaged and saved. This directory holds TLA+ models of its parts,
TLC runs that check them on small instances, and TLAPS proofs of what holds for
every instance.

Paths below are relative to `src/crates/` unless they start with `README`.

## 1. Inventory

| Component | Code | State | Operations | Correct when |
|---|---|---|---|---|
| campaign loop | `phaedra-core/src/lib.rs`, `stats.rs` | counters, current seed and input, the shutdown flag, the figures for the dashboard | bootstrap, pick, execute, handle a crash, handle a find, publish, stop | every execution and find is accounted for, limits are exact, nothing is lost by a restart except what was in flight |
| corpus store | `phaedra-corpus` | SQLite table of seeds with pick and hit counts | `add_seed`, `pick`, `record_pick`, `record_hit` | inputs are unique, credits match finds, selection follows the score |
| crash triage | `phaedra-core/src/{dedup,triage,crash}.rs` | SQLite table of signatures, crash files | `from_status`, `record`, `save_crash` | one row per signature, one file per row, severities are right |
| coverage | `phaedra-coverage` | shared bitmap, edges seen so far | `clear`, `read_map`, `is_interesting`; the runtime in the target marks edges | the bitmap of a run shows that run |
| harnesses | `phaedra-harness` | child process, its pipes, temporary file; connection to a server | `execute` | returns in time, with the coverage of this run, leaving nothing behind; notices a dead server |
| dashboard and commands | `phaedra-cli` | terminal mode, shutdown flags, tasks | `fuzz`, `compat`, `minimize`, `status`, ... | the program ends when asked and gives the terminal back |
| mutation engine | `phaedra-mutator/src/engine.rs` | strategy weights, cached distribution | `mutate`, `record_success` | weights stay positive, the distribution is the one of the weights |
| mutation strategies | `phaedra-mutator/src/strategies.rs` | none | eighteen edits | none panics, whatever it is given; both ends of a message are within reach; growth is bounded |
| schemas | `phaedra-schema` | none | parse, mutate by field, infer from a corpus | field offsets agree with the input |
| seed generation | `phaedra-llm` | cost table | ask a model, parse its reply, fall back | an unusable reply still leaves a corpus, what is usable of one is used |
| demo targets | `phaedra-targets` | none | parse | (programs to be fuzzed) |

How they interact. `run_campaign` owns everything and calls it in sequence. It
is concurrent with three things: the *target*, which shares the coverage bitmap
and two pipes with the harness; the *user*, through the ctrl-c task and the
dashboard; and the *past*, because the two databases, the crash files and the
temporary files survive the process, which may end at any `?`, panic or signal
and be started again on the same directories, which other processes may be
using at the same time: nothing locks them but SQLite, statement by statement.

What is hard, and hardly reached by the tests of the repository (which start
every component alone and on an empty directory):

* a target that outlives its timeout, and shares memory with the next run;
* a write to a pipe nobody drains, outside the timeout;
* the order of commits: coverage marked before the seed is stored, the triage
  row before the crash file, the pick before the execution;
* a restart between any two of them;
* two flags that both mean "shut down", and a key that is sometimes a signal;
* figures copied to the dashboard only every tenth execution;
* a seed query with a `LIMIT` over a score that can be 0;
* a server that outlives the call it dies in, and is missed by the next;
* two campaigns between the `SELECT` and the `INSERT` of a signature;
* replies of a language model that are cut off anywhere;
* ranges of random offsets at the lengths where they become empty.

`PROJECT.json` lists each at its line, with the properties that cover it.

## 2. Modules

```
Dedup ── Campaign ── MCCampaign
   │        └── FuzzLoop ── CampaignProofs (of Campaign and FuzzLoop)
   ├── Harness ──┘   └── MCFuzzLoop
   │      ├── MCHarness
   │      └── Harnesses ── HarnessesProofs
   └── SocketHarness ──┘ └── MCHarnesses

Seeds ── SharedStores ── SharedStoresProofs  MutationEngine ── MutationEngineProofs
            │  └── MCSharedStores               └── MCMutation
            └── implements Ledger            Strategies ── StrategiesProofs
                                                └── MCStrategies
Minimize ── MinimizeProofs
   └── MCMinimize                            Session ── SessionProofs

Schema ── SchemaInference ── SchemaMutator ── SchemaProofs
                                 └── MCSchema
```

**`Dedup`** has the execution statuses and the two functions of a status that
triage is built on. A key is a record with a distinct field for each prefix the
code prints; hashes are taken to be collision free.

**`Campaign`** is `run_campaign` with both stores, the tracker, the counters and
the dashboard's figures. One iteration is the sequence `Pick` (pick, record_pick
and mutate: the mutator may produce any input), `Execute`, then
`RecordNewCrash; SaveCrash` or `CountDuplicate` for a crash, `AddSeed` and
`CreditParent` for a find, and `Publish`. Each step ends with one commit to a
store, so that `Die` may come between any two; `Launch` starts the program again
on what is on disk. Within a step the code touches only its own memory, which no
other task reads except the dashboard, and that one under a lock. `rows` and
`crashes` are the tables in the order of their ids, `files` the crash
directory. What the harness returns is any member of `Results(input)`. The variables
`launches`, `deaths`, `mark` and `spent` belong to no code: they bound the
model and let the properties speak about several processes.

**`Harness`** is one call of `StdinHarness::execute` or `FileHarness::execute`
(variable `mode`) with the target running beside it: pipes with a capacity, the
bitmap, and `orphans`, the children no one killed. A child may stop at any
point, answer what it reads or not, and run through its edges in any order.
Writing a temporary file, spawning and waiting may fail. The shared segment is
taken to exist; without one there is no coverage and nothing to say.

**`SocketHarness`** is one call of `SocketHarness::execute` over TCP or UDP,
with and without an answer to read, and the server beside it, which runs on
between calls. A connection is what the other end did to it, and how much of
what was sent lies unread in buffers of a given size; a server that leaves with
data unread resets it. `silent` belongs to no code: it counts the calls that
gave `Ok` although the server is down.

**`Harnesses`** is `build_harness`: the process of a campaign has one of the
three, `Init` chooses which, and either the target or the server moves.

**`FuzzLoop`** composes campaign and spawning harness: `CallHarness` enters the
harness when the campaign is about to execute, `HarnessReturns` hands its result
to `Campaign!Executed`. The module `Campaign` is its abstract specification, with
the identity as refinement mapping: with FileHarness, every result of the real
harness is one of `Results(input)`, and every call ends.

**`Session`** is the `fuzz` (and `compat`) command: main task, dashboard loop,
campaign task with its wrapper, the two flags, raw mode and the keyboard, with
each of the three harnesses. The campaign begins and ends iterations; it reads
the Ctrl-C flag only between two of them, so not while a call of the harness is
under way.

**`MutationEngine`** is the part of the mutator that has state: strategy
weights, the cached distribution with its flag, the decay. `Mutate` is the whole
of `mutate` but for the bytes, `SchemaMutate` the inputs `run_campaign` makes
with a schema instead and credits to `ByteSubstitute`, `RecordSuccess` and
`NoSuccess` what it does once the input has run. Weights are counted in units
of `1.0 / One` and a decay rounds down, where the code has doubles; the counter
of decays is kept modulo its interval, all the code looks at.

**`Strategies`** has each function of `strategies.rs` as the set of the messages
it can return, so that a choice from an empty range, a panic in the code, is an
empty set. Its state machine mutates one message again and again, as a campaign
does that keeps every find; `Havoc` and `HavocEdit` are the loop of `havoc`.
Bytes have fewer bits and blocks are shorter than in the code (constants `Base`,
`BlockMax`, ...); the tables of interesting numbers are written as what their
entries are, 0, 1 and the ends of the ranges one, two and four bytes have.

**`Seeds`** is `parse_llm_response`. A reply is a sequence of symbols: brackets,
braces, commas, numbers, words, a member `"hex"` with its value, a member whose
text holds a bracket or a brace. That is all the three strategies tell apart.
`Decode` goes by bytes, as `decode_hex` does, with characters that have one, two
and three of them; its outcome is valid, invalid or a panic. `ReplyIsUsed` states
what the parser makes of a reply, with the cases in which it misses an object:
braces in strings, one brace opened after another, and objects outside the
brackets of an array.

**`SharedStores`** is several campaigns on one corpus database and one crash
directory, each statement of SQL a step: the bootstrap from `is_empty` to the
last `add_seed`, with the call to the language model and its bill between them,
and the recording of crashes, `SELECT`, then `UPDATE` or `INSERT`, then the
file. `InsertFails` is the `UNIQUE` error of the campaign that loses a race,
which ends it. What a campaign does between two crashes is `Campaign`'s matter.
`promised`, `launches` and `crashes` belong to no code.

**`Ledger`** is what a crash directory promises: a crash is counted once, in one
step, and the campaign whose crash was the first of its signature owes the
directory a file. `SharedStores` implements it with the refinement mapping
`count <- hits`, `held <-` the crash a campaign has met and not counted,
`owed <-` the one whose row it has inserted, `filed <-` the signatures with a
file. `Select` is a stutter, `Update` and `Insert` both are `Count`,
`InsertFails` and `Die` are `Lose`.

**`Minimize`** is `minimize_input`: the loop with its three ends, the five
passes, the count of failures in a row. The target is a function from inputs to
what a run may end with, so that one that crashes now and then is a target too.
A run that cannot be started counts as one that ends otherwise, as in the code.

**`Schema`**, **`SchemaInference`**, **`SchemaMutator`** are `phaedra-schema`:
sizes of fields in a message, validation and `schema_generate`; `infer_schema`
with its heuristics; `schema_mutate` with the search for mutable fields. They
are operators on messages over a few byte values; the state machine of
`SchemaMutator` applies `schema_mutate` again and again, to a message of the
schema, to samples of the corpus it was inferred from, and to seeds that do not
fit it, with every choice the random generator has. An integer may become any
number, so the values the code prefers need no mention; a bit flip of magic
bytes may become any other byte. Integers of eight bytes and little-endian ones
are left out. A field holds fields as the code's type does, and what the code
computes by recursion are functions on `Fields`: the fields that nest up to a
constant `Depth`, which is any number.

The `MC` modules give a small target: for each input, the statuses it can exit
with and the edges it covers. A definition named `Action_Something` and marked
*Mutant* is the action with a plausible mistake; `PROJECT.json` pairs each
checked property with the one that breaks it, as evidence that the property
notices.

## 3. Runs

Runs that pass:

| Run | Instance | Shows |
|---|---|---|
| `campaign` | 4 inputs, 3 edges, 3 executions, 1 launch, two signals, harness errors; lists of 1, figures every 2 executions, seed limit 2 | types and stages; equal signatures have equal severities; `--max-execs` is met exactly; the figures shown are those of the last multiple of their period, all of one moment, the corpus size included, and the lists end with the newest finds and crashes, oldest first; a starved seed stays starved; a limited campaign ends, if its harness returns |
| `harness` | 4 inputs (quick, slow, crashing, hanging) for the spawning harnesses; TCP and UDP, with and without answers, inputs of 0, 1 and 3 buffers, two the server may die of | complete coverage of every run, its own for FileHarness, with strays only from abandoned children for StdinHarness; files removed; a dead TCP server gives `Ok` once at most; `execute` returns |
| `fuzz_loop_file` | 3 inputs, 2 executions in each of 2 processes, the first ending anywhere | `FuzzLoop` with FileHarness implements `Campaign!Spec`, safety and liveness; what survives restarts: every edge seen has an input in the corpus; finds add coverage; credits match finds and picks match executions up to one per death; rows and files are unique; a crash without a file costs a death |
| `mutation` | 3 strategies, decay by half every second mutation, with and without a schema | no draw from stale weights; no weight below 1.0; without a schema no weight above a fixed ceiling |
| `strategies` | bytes of one bit, blocks of up to 2, havoc of 2 edits, messages of up to 5 bytes before an edit, with and without corpus and tokens | no range is empty; first and last byte are within reach of every edit; one call adds a bounded length; recombination takes the longest block shared, once |
| `minimize` | records of 1 to 5 bytes, 4 targets, one of them unpredictable; 12 iterations, limit of 5 failures | the result is the record with bytes removed or zeroed, and crashed; giving up on a predictable target means no cut at an end helps; it ends, if its runs do |
| `schema` | 3 byte values; 6 schema files; 194 corpora of 1, 2 and 4 samples; 3 mutations in a row | an inferred schema is valid and describes its corpus; the first mutation of a generated message, if it keeps the length, leaves the bytes of immutable fields alone; leading magic bytes survive; a group is mutated like its copies written out |
| `two_campaigns` | 2 processes, 3 starts, 3 crashes of 2 signatures; 11 replies, cut off anywhere | the crash directory implements `Ledger`; complete objects of a reply become seeds, nothing else does; a campaign fuzzes with all it set out to store; calls are billed once |
| `session` | the three harnesses, with and without `--tui`, 3 keys | clean exits; an ended campaign ends the program; a Ctrl-C signal ends it for good, unless a call of StdinHarness blocks for ever |

Runs that find what a document or comment of the repository says to be untrue
of the code:

| Run | Says | Does |
|---|---|---|
| `stdin_blocked` | `phaedra-harness/src/lib.rs:4`: waits up to `timeout` | `write_all` comes before the timeout and can block for ever |
| `fuzz_loop_stdin` | `phaedra-harness/src/lib.rs:26`: coverage of this execution; `README.md:17`: other inputs are discarded | a child abandoned by a timeout marks the bitmap of a later run, which is kept |
| `schema_groups` | `phaedra-schema/src/mutator.rs:324`: repeated fields are expanded; the test at line 482: immutable bytes stay | behind a sub-field of fixed size, one of variable size is measured at the wrong offset; the second copy is looked for elsewhere and its immutable byte is mutated |

More disagreements need no run, they are plain in the code:

* the dashboard's corpus size, "real-time" in `README.md:191`, is 0 until this
  process keeps a find (`stats.corpus_size` is assigned nowhere else);
* `q`, "quit" in the help bar (`phaedra-cli/src/tui.rs:270`), closes the
  dashboard and leaves the campaign running, which reads a flag of its own; and
  Ctrl-C, "stop campaign", is a key `run_tui` ignores while the terminal is in
  raw mode;
* `decode_hex` panics on hex text with a character of several bytes across one
  of its slices (`ReplyPanics`), though `phaedra-llm/src/lib.rs:8` says that
  malformed output does not abort the campaign;
* `record` does not count a crash whose signature another process inserted
  after its `SELECT`, it fails (`InsertFails`), against the comment at
  `phaedra-core/src/triage.rs:86`;
* `phaedra-harness/src/lib.rs:7` says that all three harnesses read coverage
  back: over UDP none is read, and `build_harness` gives no socket harness any
  shared memory.

Bounds. Two processes in a row are enough for every property that speaks of "an
earlier process", since all it leaves is the state of the stores, and the
properties about one process hold whatever those are. Two executions reach every
pair of steps (find then duplicate, crash then duplicate, two crashes of an
input); three overflow a list of one twice and leave the last execution
unpublished. The constants 50, 10 and 5 of the code (`LIMIT`, publishing, list
length) become 2, 2 and 1, small enough to be exceeded. One pipe buffer is the
unit of input length; the input of `stdin_blocked` exceeds both pipes and what
the target holds.

In `harness` an input of three buffers cannot be written before the server
reads, and a second input the server dies of lets one die late, of what it was
sent by an earlier call. Three starts let a process come back while the other
one runs; three crashes are two that race for a signature and one that finds
the row. The replies have every bracket and brace in a string as well as
outside; cutting them off anywhere gives the broken ones. In `strategies` a
message outgrows the blocks (2) and the four bytes of the widest number, the
lengths where guards and fallbacks change over (0, 1, 2, 4) are all met, and a
message shares blocks of equal length with another in several places. Limits
of `two_campaigns` on starts and crashes end its behaviours, so deadlock is not
checked there.

The run `schema` has groups whose fields of variable size come first, for which
the two ways to compute an offset agree; `schema_groups` has the other kind.
Their groups do not nest (`Depth` is 1), which the theorems on them do not need.
Three mutations corrupt a length, then what is found by it, then a field behind
both. Samples of 0 to 8 bytes reach every case of the heuristics (lengths 0, 1,
2, 3, 7, 8), with `MagicLimit` 2 in place of 8; a corpus of four samples, one
unlike the others, gives shares on both sides of 60% and 70%. `mutation` has
`WeightCap` well above the ceiling, so that the cap is not what holds weights
down. In `minimize` the limit of failures is one round of the five passes, the
least for which giving up can mean anything; the 50 of the code is ten rounds.

Fairness. `Campaign!Spec` asks that a process that can take a step of its own
takes one, and that the harness returns, so `Terminates` is a claim about
harnesses that do. `FuzzLoop` derives the second, for FileHarness, from the
first and the clock (the timeout fires). `Harness!HSpec`
asks nothing of the target, which may hang, and nothing of errors, which need
not happen; `Harnesses!Spec` asks the same, and nothing of a server: each call
of the socket harness ends by a timeout if by nothing else. `StdinHarness`
returns under the same assumption only if the input fits into the pipe;
`HSpecLiveTarget` grants that the target goes on reading and answering, and it
may still not return.

`Session!Spec` asks that the tasks are scheduled, and of the harness only what
these results give: an iteration, once begun, ends (`IterationEnds` is fair)
with FileHarness and with SocketHarness. With `StdinHarness`, the default, it
need not: `write_all` (`phaedra-harness/src/lib.rs:75`) is awaited before the
timeout, and the run `stdin_blocked` shows it blocked for ever. Then the flag is
never read again, and since `ctrl_c` (`phaedra-core/src/lib.rs:190`) has replaced
the default action of the signal, Ctrl-C does not end the program.
`CtrlCEndsProgram` therefore assumes `StdinReturns`, that no call of
StdinHarness lasts for ever, which is vacuous with the other two harnesses. (A
Ctrl-C at the terminal reaches the target too and may free the call by killing
it; the model does not count on that.) Nothing is asked of the start, which may
wait for a language model, or of the user: no property relies on a key being
pressed.

`Minimize!Spec` asks that its one task goes on and that each run of the target
ends, as it does for FileHarness by its timeout, and for `StdinHarness`, the
default, with inputs its pipe holds. `MinimizingEnds` says that the loop then
ends; it says nothing of a run that does not.

Deadlock is checked in every run but `stdin_blocked`, where being stuck is the
point, and those whose bounds end a behaviour: `two_campaigns` and the two
schema runs, which stop after `MaxRounds` mutations.

## 4. Proofs

Every theorem holds for all values of the constants that meet the assumption
named in its module (`DedupAssumption`, `CampaignAssumption`, ...), which TLC
evaluates in each run. The assumptions say no more than that sets are sets of
the right things, that limits are natural numbers and not 0 where the code has
a literal, and, for the corpora of `Strategies` and the records of `Minimize`,
that they are finite sets of finite sequences; a reply of `SharedStores` is a
sequence of its own symbols, and a schema file of `SchemaMutator` is valid, as
the code makes sure when it loads one.
Bounds of a model appear only as such: no proof uses that one is small.

Below, invariants are named by their definitions; the strengthenings that no run
checks are in the proof modules. `SafetySpec` is `Spec` without its fairness.

The theorems of the library on induction take an operator, which these provers
cannot give them. Induction is done on sets instead: what holds of the empty
set and of a set with one more element holds of each finite set
(`InductionOnSubsets`), what holds of 0 and of the next number holds of all, by
the least number of which it does not hold; and for fields by their depth
(`FieldInduction`). A function defined by recursion is shown to exist first,
then to follow its recursion.

**`CampaignProofs`** (any inputs, edges, signals, target, limits, number of
restarts). On the loop:

* `TypeCorrect`: `SafetySpec => []TypeOK`, inductive as it stands, because
  `StageOK` says what each stage of an iteration relies on: the parent of the
  input is a row, the result belongs to the input, seeding ends with a corpus
  that is not empty. All that follows is by induction relative to it.
* `CorpusCoversSeenEdges`: the exception in `SeenEdgesAreInCorpus`, the input
  on its way to the corpus, is what makes it inductive.
* `BudgetIsMet`: `BudgetIsExact`, by a look at the one test of the limit.
* `FiguresAreFollowed` and `DashboardIsRight`. At the top of the loop the
  figures shown are those at the last multiple of `LiveEvery`: `FiguresInv` says
  that the executions at the last copy are such a multiple and that fewer than
  `LiveEvery` came since (`LastMultiple`, a lemma on division, makes it
  inductive), that a copy of this execution is exact (`CopyIsCurrent`), that no
  figure is ahead of its counter (`CopyIsBehind`), and that the counters have
  grown since by no more than the executions, and crash rows by no more than the
  crashes (`LagIsAccounted`). `CorpusInv` is the same for the corpus size, which
  is 0 until this process keeps a find and then grows with its finds; it needs
  `ListsInv`. `ListsInv` says that each list is the end of a column of a table,
  and that the finds of this process are the last rows; `NewestIsLastOf` turns
  that into the claim of `RecentListsShowNewest`: the newest entries, oldest
  first.

On what is left on disk:

* `StoresAreUnique`: a row is only appended after a look for its key, and
  counting a pick or a hit changes no key.
* `CrashFilesMatchRows` and `DuplicatesAreOfOneSeverity`. Neither property is
  inductive. `TriageInv` adds `SaveIsDue` (between inserting the row and writing
  the file, the row is the one of this crash and has no file yet: without it a
  second file for a signature is conceivable) and `RowsAreOfOneCrash` (signature
  and severity of a row come from one status: with `SignatureFixesSeverity`,
  that severity is a function of the signature, a duplicate agrees with its
  row).
* `EveryFindAddsCoverage`: what this process has kept is within what its tracker
  has seen, so a find adds an edge that none before it has.
* `StarvationIsForGood`: an action property. The rows ahead of a starved one
  keep their positive scores, since neither a pick nor a hit makes one 0.
* `FewCrashesAreUnsaved` and `RewardsFollowFinds`: parts of the accounts that
  are counts; the second also bounds the hits of each row by its picks.
* `AccountsAreBalanced`: sums of `hits`, `picks` and `hit_count` over the
  tables. `Total` is a fold; what it gives for a table with a row appended or
  changed follows by `InductionOnSubsets`.

On the loop with its harness, module `FuzzLoop` (any child, pipe, timeout and
failure of FileHarness):

* `FileLoopImplementsCampaign`: the safety half of the refinement the run
  `fuzz_loop_file` checks. `FInv` says that a call is under way only while the
  campaign waits for it and for the input it picked (`CallInv`), that the bitmap
  and what the child has yet to mark are together the edges of that input and no
  orphan is there to mark others (`ChildInv`), and that what is about to be
  returned is one of `Results(input)` (`ResultInv`). Then `HarnessReturns` is
  `Execute`, a failed call is `HarnessFails`, and every other step of
  the harness a stutter. The fairness half stays with TLC.
* `FileLoopCoversSeenEdges` and `FileLoopKeepsPromises`: hence the other
  invariants of `Campaign`, and `StarvedSeedsStayStarved`, hold of the two
  together.

**`HarnessesProofs`** (any target, pipe and buffer size, server):

* `HarnessesTypeOK`, by `SpawnShape` and `SocketShape`: `TypeOK` with the shape
  of records, and empty pipes between calls, which an invariant of each step
  needs.
* `HarnessCoverageIsRight`, by `BitmapInv`: at each point of a call the edges of
  its input are in the bitmap or yet to be marked by the child, and what else is
  in the bitmap comes from orphans, of which FileHarness has none.
* `HarnessRemovesTempFiles`, and `SocketDeathIsNoticed`, by `DeathInv`: over TCP
  a call that has connected began with a server that was up, so nothing had been
  missed by then.

**`SharedStoresProofs`** (any number of campaigns and signatures, any replies):

* `StoresTypeCorrect` and `SavesAreAlwaysDue`. The claim of `TypeOK` is that no
  signature has two files, that of `SavesAreDue` that a row to update is there
  and a file to write is not, nor about to be written by another campaign. The
  inductive invariant `IInv` has both, since without the second a second file is
  conceivable, and `LocalsAreFunctions` (the domains of a campaign's memory,
  which `EXCEPT` needs).
* `RecordingRefinesLedger`: `Spec => LedgerSpec`. `StepRefines` has one lemma
  for each kind of step: the bootstrap and `Select` stutter, the end of a
  process is `Lose`, `Update` and `Insert` are `Count` because `SavesAreDue` says
  which of them meets a row, `SaveCrash` is `File` because no file was there.
* `CorpusIsFilledWhole`: `BootstrapIsWhole`. `BInv` adds what is on the way: a
  seed a campaign set out to store is in the corpus or in `todo`, and each start
  is good for one call, billed or yet to be (`CallsAreStarts`, on the
  cardinality of the campaigns that may still be billed).
* `RepliesAreUsed`: `ReplyIsUsed`, of any reply. The work is in the lemmas on
  `parse_llm_response`: the strategies for arrays find all objects between the
  brackets (`ArrayIsObjects`); the scan for braces finds parts of the reply
  (`ScanFindsParts`) and, unless braces mislead, every object, since the next
  closing brace is the object's (`FirstCloseEnds`, `ScanFindsObjects`);
  `ParseGives` puts the three together.

**`MutationEngineProofs`** (any set of strategies, rate and interval of decay):

* `EngineTypeCorrect` and `CacheIsCoherent`.
* `NoStarvation`. The invariant behind it, `SurplusInv`, bounds a weight by what
  a decay can leave plus 1.0 for every mutation since. `LeftByDecay` is the
  fixed point of "add an interval's worth of credits, then decay", the limit of
  a geometric sum, and the lemmas on division show that a decay leads back below
  it.

**`StrategiesProofs`** (bytes of 1, 2, 3 and 8 bits, blocks, insertions,
messages, corpora and dictionaries of any size). There is a lemma for each of
the seventeen strategies beside havoc: it has an outcome, its outcomes are
messages of bounded length (`IsSound`), and an edit in place, a deletion or an
insertion of bytes reaches both ends (`ChangesEnds`, `EndsAreDeleted`,
`ReachesBehind`). `Base` is 256 in the code; 2, 4 and 8 are for the runs.

* `StrategiesNeverPanic`: `NoStrategyPanics`, since the message is a sequence of
  bytes in every state.
* `CallsGrowBounded`: `GrowthIsBounded` is not inductive while havoc is at work;
  `IndInv` counts the edits it has made.
* `EndsAreReached`: `BothEndsAreReached`.
* `RecombinationIsLongest`: `RecombinesAtLongestMatch`. `recombine` keeps the
  best pair of offsets while it goes through all of them, in the model a fold.
  `BestMatchIsBest` proves with `InductionOnSubsets` that none is missed:
  `IsBest` is the invariant of the loop, `PairsAreNumbered` says that each pair
  has its turn (quotient and remainder name it), and `AgreementIsLongest` that
  a pair agrees on no more than was measured.

**`SchemaProofs`** (any number of byte values, schema files nested to any depth,
any corpora and seeds, any number of mutations). `FieldRecursion` gives each of
the recursive functions of `phaedra-schema` by its equation. The invariant `Inv`
is inductive for the first three theorems; it says that messages are sequences
of bytes, that the fields are fields, inferred if there are samples, and that
the seed's leading bytes are still there.

* `TypeCorrect`: `schema_mutate` leaves a message, one that is not empty once it
  was filled up. Each type of field has its lemma: sizes are numbers whatever
  bytes they are read from, and each place mutated lies within the message.
* `MagicBytesSurvive`: `MagicSurvives`, the first half of `LayoutIsStable`. The
  fields in front have the same sizes in any message, so no place found begins
  before their end, and a mutation changes nothing before its place (`Keeps`).
* `InferenceSound`: `InferenceIsSound`, by the cases of `infer_schema`. The
  field behind a length prefix ends where the prefix says, so seven samples of
  ten fit because that is what made the code choose one.
* `LayoutStays`: `LayoutIsStable`, whose second half says that a repeated field
  is mutated like its copies written out. It has a condition, `AreRegular`: in
  each repeated field of the schema files only the first sub-field has a size
  that varies. Without it the claim is false, as the run `schema_groups` shows:
  `collect_mutable` adds up sizes all measured where the copy begins. Schemas
  that were inferred have no repeated fields and need no condition.
* `ImmutableSpared`: `ImmutableFieldsAreSpared`, under the same condition and for
  the same reason. By induction along a row and into the fields, what
  `schema_generate` writes for a field has, read back at its place, the size
  the field was written with (`SizesHold`). So the places mutated are those of
  the mutable fields, and a mutation that keeps the length changes nothing
  before its field (`Keeps`) and nothing behind it (`Spares`).

**`MinimizeProofs`** (records of any length, any target and limit of failures
from five on where it matters):

* `MinimizeTypeOK`; `RunIsOfThisPass` says that what is run is what the pass
  makes of the current input.
* `MinimizedIsReal`: being thinned is transitive, and each pass thins.
* `GivingUpIsJustified`: by `FailedCutsAreKnown`, the passes of the last
  failures in a row, up to five, cannot crash a predictable target on the
  current input.

**`SessionProofs`** (any number of keys, any harnesses): `SessionTypeOK`, in
which tasks and raw mode agree at each step; `ExitsAreClean`; and
`TerminalIsOnlyLostByFailure`, a program that ended in raw mode did so by a
failure of the dashboard.

Only model-checked: liveness (`Terminates`, `ExecuteReturns`,
`CampaignEndsProgram`, `CtrlCEndsProgram`, `MinimizingEnds` and the fairness
half of `Campaign!Spec`), which the prover cannot do. Every invariant that a
passing run checks is stated by a theorem, and so is every action property.

## 5. Not modelled

The 30-second log line; read-only queries of the stores; HTTP to model providers
and the envelopes of their replies; prices of calls; reports and export;
configuration; the demo targets, which are programs to be fuzzed; the
runtime's 8-bit counters (a slot is marked or not); `set_decay`,
`reset_weights` and `generate_seeds`, which no campaign calls. A hash is never
equal for two inputs; a killed child runs no further; a file that was written
can be removed; SQLite makes each statement one step.

## 6. Plan

Modules to come:

1. `SancovCounter`: 8-bit counters of the runtime under concurrent threads, and
   what the tracker makes of a counter that wraps to 0.
2. `Config`: how options of the command line and of a file are merged, where a
   default of one can hide a value of the other.

Proof to come: the refinement of campaigns with `SocketHarness`, for which
`Campaign` would need results with no coverage only.

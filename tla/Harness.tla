------------------------------- MODULE Harness ------------------------------
(***************************************************************************)
(* The harnesses that spawn the target: StdinHarness and FileHarness of    *)
(* phaedra-harness, with the child process, its pipes and the shared       *)
(* memory bitmap.  One call of execute clears the bitmap, spawns the       *)
(* target, feeds it, waits at most `timeout' and reads the bitmap back.    *)
(*                                                                         *)
(* The two differ in what they do about a child that outlives its timeout: *)
(* FileHarness asks for kill_on_drop, StdinHarness does not, so that its   *)
(* child runs on as an orphan, attached to the same bitmap.  A killed      *)
(* child is taken to run no further.                                       *)
(***************************************************************************)
EXTENDS Dedup, FiniteSets

CONSTANTS
  Modes,    \* the harnesses to consider: of "stdin" and "file"
  Edges,    \* slots of the coverage bitmap
  Exits,    \* Exits[i]: statuses the target exits with on i; {} if it hangs
  Covers,   \* Covers[i]: the edges it runs through on i
  Size,     \* Size[i]: length of i in fillings of a pipe buffer, rounded up
  PipeCap   \* what a pipe buffer holds, in the same unit

ASSUME HarnessAssumption ==
  /\ Modes \subseteq {"stdin", "file"}
  /\ Exits \in [Inputs -> SUBSET ExitStatuses]
  /\ Covers \in [Inputs -> SUBSET Edges]
  /\ Size \in [Inputs -> Nat]
  /\ PipeCap \in Nat \ {0}

VARIABLES
  mode,     \* the harness this is; it never changes
  hpc,      \* where the call of execute stands
  hinput,   \* the input of the call
  hresult,  \* its ExecutionResult
  shm,      \* slots of the bitmap that are not zero
  child,    \* the child of the call
  pipes,    \* stdin of the child: sent and unread; stdout: owed and unread
  orphans,  \* inputs whose child was left running by an earlier call
  temps     \* temporary input files that exist

hvars == <<mode, hpc, hinput, hresult, shm, child, pipes, orphans, temps>>

NoChild   == [state |-> "none", todo |-> {}, exit |-> Ok]
NoPipes   == [sent |-> 0, in |-> 0, owed |-> 0, out |-> 0]
Child(i)  == [state |-> "running", todo |-> Covers[i], exit |-> Ok]
NoOutcome == [status |-> Ok, cov |-> {}]

-----------------------------------------------------------------------------
HInit ==
  /\ mode \in Modes /\ hpc = "idle" /\ hinput \in Inputs /\ hresult = NoOutcome
  /\ shm = {} /\ child = NoChild /\ pipes = NoPipes
  /\ orphans = {} /\ temps = 0

(* Mutant: the bitmap is not cleared. *)
Call_KeepsMap(i) ==
  /\ hpc = "idle"
  /\ hinput' = i
  /\ temps' = IF mode = "file" THEN temps + 1 ELSE temps
  /\ hpc' = "spawn"
  /\ UNCHANGED <<mode, hresult, shm, child, pipes, orphans>>

(* execute(i): FileHarness writes its temporary file, then the bitmap is   *)
(* cleared.                                                                *)
Call(i) ==
  /\ hpc = "idle"
  /\ hinput' = i
  /\ temps' = IF mode = "file" THEN temps + 1 ELSE temps
  /\ shm' = {}
  /\ hpc' = "spawn"
  /\ UNCHANGED <<mode, hresult, child, pipes, orphans>>

(* Writing the temporary file fails, perhaps after creating it: Err. *)
CallFails(i) ==
  /\ hpc = "idle" /\ mode = "file"
  /\ hinput' = i
  /\ temps' \in {temps, temps + 1}
  /\ hpc' = "failed"
  /\ UNCHANGED <<mode, hresult, shm, child, pipes, orphans>>

(* the target is started on the input *)
Spawn ==
  /\ hpc = "spawn"
  /\ child' = Child(hinput)
  /\ pipes' = NoPipes
  /\ hpc' = IF mode = "stdin" THEN "write" ELSE "wait"
  /\ UNCHANGED <<mode, hinput, hresult, shm, orphans, temps>>

(* What execute leaves behind when it returns r; the removal of the        *)
(* temporary file, whose error the code ignores, is taken to succeed.      *)
Give(r) ==
  /\ hresult' = r
  /\ child' = NoChild /\ pipes' = NoPipes
  /\ temps' = IF mode = "file" THEN temps - 1 ELSE temps
  /\ hpc' = "return"
  /\ UNCHANGED <<mode, hinput, shm>>

(* Mutant: the handle of the child is kept. *)
Fail_KeepsChild ==
  /\ hpc' = "failed"
  /\ UNCHANGED <<mode, hinput, hresult, shm, child, pipes, orphans, temps>>

(* execute returns Err, which ends the campaign. *)
Fail ==
  /\ hpc' = "failed"
  /\ child' = NoChild /\ pipes' = NoPipes
  /\ UNCHANGED <<mode, hinput, hresult, shm, orphans, temps>>

(* StdinHarness propagates the error, FileHarness makes it a result. *)
SpawnFails ==
  /\ hpc = "spawn"
  /\ IF mode = "stdin"
       THEN Fail
       ELSE \E m \in Messages :
              Give([status |-> Error(m), cov |-> {}]) /\ UNCHANGED orphans

(* stdin.write_all, with no timeout around it and nobody reading stdout *)
WriteInput ==
  /\ hpc = "write" /\ child.state = "running"
  /\ pipes.sent < Size[hinput] /\ pipes.in < PipeCap
  /\ pipes' = [pipes EXCEPT !.sent = @ + 1, !.in = @ + 1]
  /\ UNCHANGED <<mode, hpc, hinput, hresult, shm, child, orphans, temps>>

(* all is written; dropping the handle closes the pipe *)
CloseStdin ==
  /\ hpc = "write" /\ pipes.sent = Size[hinput]
  /\ hpc' = "wait"
  /\ UNCHANGED <<mode, hinput, hresult, shm, child, pipes, orphans, temps>>

(* the child is gone before it was sent everything *)
BrokenPipe ==
  /\ hpc = "write" /\ child.state = "exited" /\ pipes.sent < Size[hinput]
  /\ Fail

(* wait_with_output ends in time: the bitmap is read *)
Collect ==
  /\ hpc = "wait" /\ child.state = "exited"
  /\ Give([status |-> child.exit, cov |-> shm])
  /\ UNCHANGED orphans

(* Mutant: no harness kills its child. *)
DropChild_NeverKills ==
  orphans' = IF child.state = "running" THEN orphans \union {hinput} ELSE orphans

(* Dropping the child kills it under kill_on_drop and abandons it else. *)
DropChild ==
  orphans' = IF mode = "stdin" /\ child.state = "running"
               THEN orphans \union {hinput} ELSE orphans

(* Mutant: it returns before the temporary file is removed. *)
TimeOut_LeavesFile ==
  /\ hpc = "wait"
  /\ hresult' = [status |-> Timeout, cov |-> {}]
  /\ child' = NoChild /\ pipes' = NoPipes
  /\ hpc' = "return"
  /\ UNCHANGED <<mode, hinput, shm, temps>>
  /\ DropChild

(* Mutant: the wait has no timeout around it. *)
TimeOut_OnceExited ==
  /\ hpc = "wait" /\ child.state = "exited"
  /\ Give([status |-> Timeout, cov |-> {}])
  /\ DropChild

(* wait_with_output does not end in time *)
TimeOut ==
  /\ hpc = "wait"
  /\ Give([status |-> Timeout, cov |-> {}])
  /\ DropChild

(* wait_with_output fails *)
WaitFails ==
  /\ hpc = "wait"
  /\ \E m \in Messages : Give([status |-> Error(m), cov |-> {}])
  /\ DropChild

(* The caller takes the result. *)
Return ==
  /\ hpc = "return"
  /\ hpc' = "idle"
  /\ hresult' = NoOutcome
  /\ UNCHANGED <<mode, hinput, shm, child, pipes, orphans, temps>>

-----------------------------------------------------------------------------
(* The target: it runs through its edges and may read its input, answering *)
(* each piece on stdout, or not, before it reads the next.  Only           *)
(* wait_with_output drains its stdout.                                     *)

ChildRuns ==
  /\ child.state = "running"
  /\ \E e \in child.todo :
       /\ shm' = shm \union {e}
       /\ child' = [child EXCEPT !.todo = @ \ {e}]
  /\ UNCHANGED <<mode, hpc, hinput, hresult, pipes, orphans, temps>>

ChildReads ==
  /\ child.state = "running" /\ pipes.in > 0 /\ pipes.owed = 0
  /\ \E answer \in {0, 1} : pipes' = [pipes EXCEPT !.in = @ - 1, !.owed = answer]
  /\ UNCHANGED <<mode, hpc, hinput, hresult, shm, child, orphans, temps>>

ChildEchoes ==
  /\ child.state = "running" /\ pipes.owed > 0
  /\ \/ hpc = "wait" /\ pipes' = [pipes EXCEPT !.owed = @ - 1, !.out = 0]
     \/ /\ hpc = "write" /\ pipes.out < PipeCap
        /\ pipes' = [pipes EXCEPT !.owed = @ - 1, !.out = @ + 1]
  /\ UNCHANGED <<mode, hpc, hinput, hresult, shm, child, orphans, temps>>

ChildExits ==
  /\ child.state = "running" /\ child.todo = {} /\ pipes.owed = 0
  /\ \E s \in Exits[hinput] : child' = [child EXCEPT !.state = "exited", !.exit = s]
  /\ UNCHANGED <<mode, hpc, hinput, hresult, shm, pipes, orphans, temps>>

EdgesOfOrphans == UNION {Covers[i] : i \in orphans}

(* An orphan keeps running through the edges of its input, in a loop if it *)
(* hangs; one that has exited takes no more such steps.                    *)
OrphanRuns ==
  /\ \E e \in EdgesOfOrphans : shm' = shm \union {e}
  /\ UNCHANGED <<mode, hpc, hinput, hresult, child, pipes, orphans, temps>>

-----------------------------------------------------------------------------
HarnessStep ==
  \/ Spawn \/ SpawnFails
  \/ WriteInput \/ CloseStdin \/ BrokenPipe
  \/ Collect \/ TimeOut \/ WaitFails

ChildStep == ChildRuns \/ ChildReads \/ ChildEchoes \/ ChildExits

Failed == hpc = "failed" /\ UNCHANGED hvars

HNext ==
  \/ HarnessStep \/ ChildStep \/ OrphanRuns
  \/ \E i \in Inputs : Call(i) \/ CallFails(i)
  \/ Return
  \/ Failed

(* The harness takes its next step when it can, and the clock runs; a      *)
(* target may stop at any point, and no error is sure to happen.           *)
Progress == Spawn \/ WriteInput \/ CloseStdin \/ BrokenPipe \/ Collect \/ TimeOut

HSpec == HInit /\ [][HNext]_hvars /\ WF_hvars(Progress)

(* The same with a target that never stops reading and answering. *)
HSpecLiveTarget == HSpec /\ WF_hvars(ChildReads \/ ChildEchoes)

-----------------------------------------------------------------------------
(* Correctness.                                                            *)

Outcomes == [status : ExitStatuses \union {Timeout} \union {Error(m) : m \in Messages},
             cov : SUBSET Edges]

(* Types; there is a child exactly while a call feeds it or waits for it,  *)
(* its pipes never hold more than they can, and only a harness that writes *)
(* files has any.                                                          *)
HTypeOK ==
  /\ mode \in Modes
  /\ hpc \in {"idle", "spawn", "write", "wait", "return", "failed"}
  /\ hinput \in Inputs /\ hresult \in Outcomes
  /\ shm \subseteq Edges /\ orphans \subseteq Inputs
  /\ child.state \in {"none", "running", "exited"} /\ child.todo \subseteq Edges
  /\ child.exit \in ExitStatuses
  /\ child.state = "none" <=> hpc \notin {"write", "wait"}
  /\ \A f \in {"in", "out"} : pipes[f] \in 0..PipeCap
  /\ pipes.sent \in 0..Size[hinput] /\ pipes.owed \in {0, 1}
  /\ temps \in Nat /\ (mode = "stdin" => temps = 0)

Finished == mode \in Modes /\ hpc = "return" /\ hresult.status \in ExitStatuses

(* "Coverage bitmap from this execution" (phaedra-harness/src/lib.rs:26):  *)
(* the bitmap FileHarness returns with a finished run shows edges of that  *)
(* run only.  What else StdinHarness shows was written by a child that an  *)
(* earlier timeout, or failure to wait, left running.                      *)
CoverageIsOwn ==
  Finished =>
    hresult.cov \subseteq
      Covers[hinput] \union (IF mode = "file" THEN {} ELSE EdgesOfOrphans)

(* It shows every edge of that run: clearing the bitmap for a run never    *)
(* wipes what the run has written.                                         *)
CoverageIsComplete == Finished => Covers[hinput] \subseteq hresult.cov

(* What a finished run is said to have covered is what it did.             *)
CoverageIsRight == CoverageIsOwn /\ CoverageIsComplete

(* FileHarness leaves no temporary file behind, whichever way a call ends, *)
(* unless it could not write it and the campaign ends with that.           *)
TempFilesAreRemoved ==
  hpc # "failed" =>
    temps = IF mode = "file" /\ hpc \in {"spawn", "wait"} THEN 1 ELSE 0

(* "waits up to `timeout' for exit" (phaedra-harness/src/lib.rs:4-5): a    *)
(* call of execute returns, even if the target hangs.  The same is said of *)
(* a server that is slow, silent or dead (see module Harnesses).           *)
ExecuteReturns ==
  hpc \notin {"idle", "return", "failed"} ~> hpc \in {"return", "failed"}
=============================================================================

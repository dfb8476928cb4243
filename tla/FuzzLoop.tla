------------------------------ MODULE FuzzLoop ------------------------------
(***************************************************************************)
(* The campaign of module Campaign driving a harness of module Harness:    *)
(* what run_campaign is told about an execution is what the harness read   *)
(* from the shared bitmap, not what the target did.                        *)
(*                                                                         *)
(* With FileHarness this implements module Campaign.  With StdinHarness it *)
(* does not: the edges of a child left over from a timeout are credited to *)
(* the inputs run after it.                                                *)
(***************************************************************************)
EXTENDS Campaign

CONSTANTS Modes, Size, PipeCap  \* see module Harness

VARIABLES mode, hpc, hinput, hresult, shm, child, pipes, orphans, temps

H == INSTANCE Harness

harness == <<mode, hpc, hinput, hresult, shm, child, pipes, orphans, temps>>
allvars == <<vars, harness>>

FInit == Init /\ H!HInit /\ hinput = Bootstrap

(* A new process makes a segment of its own (shmget IPC_PRIVATE), to which *)
(* no child of an earlier process is attached; temporary files stay.       *)
NewHarness ==
  /\ hpc' = "idle" /\ hinput' = Bootstrap /\ hresult' = NoResult
  /\ shm' = {} /\ child' = H!NoChild /\ pipes' = H!NoPipes
  /\ orphans' = {}
  /\ UNCHANGED <<mode, temps>>

CampaignMoves ==
  /\ OwnStep \/ CtrlC \/ Ended
  /\ UNCHANGED harness

ProcessMoves ==
  /\ Launch \/ Die
  /\ NewHarness

CallHarness ==
  /\ pc = "execute"
  /\ H!Call(input) \/ H!CallFails(input)
  /\ UNCHANGED vars

(* The call of execute goes on: the harness or the target takes a step. *)
HarnessMoves ==
  /\ H!HarnessStep
  /\ UNCHANGED vars

TargetMoves ==
  /\ H!ChildStep \/ H!OrphanRuns
  /\ UNCHANGED vars

(* execute returns its result, or an error the campaign ends with *)
HarnessReturns ==
  /\ H!Return
  /\ Executed(hresult)

HarnessErrs ==
  /\ hpc = "failed"
  /\ Die
  /\ NewHarness

FNext ==
  \/ CampaignMoves \/ ProcessMoves
  \/ CallHarness \/ HarnessMoves \/ TargetMoves \/ HarnessReturns \/ HarnessErrs

(* The process keeps running; nothing is assumed of the target, and no     *)
(* error is sure to happen.                                                *)
ExecuteGoesOn ==
  \/ pc = "execute" /\ H!Call(input) /\ UNCHANGED vars
  \/ H!Progress /\ UNCHANGED vars
  \/ HarnessReturns \/ HarnessErrs

FSpec ==
  /\ FInit /\ [][FNext]_allvars
  /\ WF_allvars(CampaignMoves)
  /\ WF_allvars(ExecuteGoesOn)
=============================================================================

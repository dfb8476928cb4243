-------------------------- MODULE HarnessesProofs ---------------------------
(***************************************************************************)
(* Proofs about the harnesses: modules Harness and SocketHarness, and the  *)
(* choice of one of them in module Harnesses, for every target, server,    *)
(* input, size of buffer and kind of harness.                              *)
(***************************************************************************)
EXTENDS Harnesses, TLAPS

-----------------------------------------------------------------------------
(* The inductive invariants.                                               *)

PipesType == [sent : Nat, in : Nat, owed : Nat, out : Nat]

(* Types of the harnesses that spawn the target, with the shape of the     *)
(* records; between two calls there is no child and its pipes are empty.   *)
SpawnShape ==
  /\ HTypeOK
  /\ child \in [state : {"none", "running", "exited"}, todo : SUBSET Edges,
                exit : ExitStatuses]
  /\ pipes \in PipesType
  /\ child.state = "none" => pipes = NoPipes
  /\ hpc = "write" => mode = "stdin"

(* What is in the bitmap, what the child has still to write to it, and     *)
(* whose edges they are, at each point of a call.                          *)
BitmapInv ==
  /\ mode = "file" => orphans = {}
  /\ hpc = "spawn" => shm \subseteq EdgesOfOrphans
  /\ hpc \in {"write", "wait"} =>
       /\ child.todo \subseteq Covers[hinput]
       /\ Covers[hinput] \subseteq shm \union child.todo
       /\ shm \subseteq Covers[hinput] \union EdgesOfOrphans
       /\ child.state = "exited" => child.todo = {}
  /\ CoverageIsRight

SpawnInv == SpawnShape /\ TempFilesAreRemoved /\ BitmapInv

(* Types of the socket harness, with the shape of a connection. *)
SocketShape ==
  /\ S!STypeOK
  /\ conn \in [peer : {"none", "open", "left", "reset"}, sent : Nat, unread : Nat]
  /\ conn.peer = "none" => conn = S!NoConn

(* Over TCP nothing was missed of a server that runs, nor before the end   *)
(* of a call that has got as far as to be connected.                       *)
DeathInv ==
  mode = "tcp" =>
    /\ silent \in {0, 1}
    /\ server = "up" \/ hpc \in {"send", "recv"} => silent = 0

SocketInv == SocketShape /\ DeathInv

HarnessesInv ==
  /\ mode \in Modes \/ mode \in Protocols
  /\ mode \in Modes => SpawnInv
  /\ mode \in Protocols => SocketInv /\ NoTarget

-----------------------------------------------------------------------------
(* The harnesses that spawn the target.                                    *)

(* A result is one of three kinds: the target ended, or it did not in      *)
(* time, or waiting for it failed.                                         *)
LEMMA StatusesDiffer ==
  /\ Timeout \notin ExitStatuses
  /\ \A m \in Messages : Error(m) \notin ExitStatuses
  /\ Ok \in ExitStatuses
BY DEF Timeout, Error, ExitStatuses, Ok, Crash

(* Timeouts and failures to wait may only add to the orphans, and never    *)
(* under FileHarness.                                                      *)
LEMMA DropChildAdds ==
  ASSUME SpawnShape, DropChild
  PROVE  /\ orphans \subseteq orphans' /\ orphans' \subseteq Inputs
         /\ mode = "file" => orphans' = orphans
BY DEF DropChild, SpawnShape, HTypeOK

(* What a call returns with is well typed, and its pipes and its temporary *)
(* file are gone.                                                          *)
LEMMA GiveKeepsShape ==
  ASSUME SpawnShape, TempFilesAreRemoved, NEW r \in Outcomes, Give(r),
         hpc \in {"spawn", "wait"}, orphans' \subseteq Inputs
  PROVE  SpawnShape' /\ TempFilesAreRemoved'
<1> USE HarnessAssumption DEF Give
<1>1. /\ mode' = mode /\ hpc' = "return" /\ hinput' = hinput /\ hresult' = r
      /\ shm' = shm /\ child' = NoChild /\ pipes' = NoPipes
  OBVIOUS
<1>2. child' \in [state : {"none", "running", "exited"}, todo : SUBSET Edges,
                  exit : ExitStatuses]
  BY <1>1, StatusesDiffer DEF NoChild
<1>3. /\ pipes' \in PipesType
      /\ \A f \in {"in", "out"} : pipes'[f] \in 0..PipeCap
      /\ pipes'.sent \in 0..Size[hinput'] /\ pipes'.owed \in {0, 1}
  BY <1>1 DEF NoPipes, PipesType, SpawnShape, HTypeOK
<1>4. /\ temps' \in Nat /\ (mode' = "stdin" => temps' = 0)
      /\ temps' = 0
  BY DEF SpawnShape, HTypeOK, TempFilesAreRemoved, HarnessAssumption
<1>5. HTypeOK'
  BY <1>1, <1>2, <1>3, <1>4 DEF SpawnShape, HTypeOK, NoChild
<1> QED
  BY <1>1, <1>2, <1>3, <1>4, <1>5 DEF SpawnShape, TempFilesAreRemoved

(* A call that fails leaves no child; that its temporary file may stay is  *)
(* of no account, the campaign ends.                                       *)
LEMMA FailKeepsShape ==
  ASSUME SpawnShape, Fail
  PROVE  SpawnShape' /\ TempFilesAreRemoved'
<1>1. child' \in [state : {"none", "running", "exited"}, todo : SUBSET Edges,
                  exit : ExitStatuses]
  BY StatusesDiffer DEF Fail, NoChild
<1>2. HTypeOK'
  BY <1>1, HarnessAssumption DEF Fail, SpawnShape, HTypeOK, NoChild, NoPipes
<1> QED
  BY <1>1, <1>2 DEF Fail, SpawnShape, TempFilesAreRemoved, PipesType, NoPipes, NoChild

(* The outcomes the harness makes up itself. *)
LEMMA OutcomesType ==
  /\ NoOutcome \in Outcomes
  /\ [status |-> Timeout, cov |-> {}] \in Outcomes
  /\ \A m \in Messages : [status |-> Error(m), cov |-> {}] \in Outcomes
BY StatusesDiffer DEF Outcomes, NoOutcome

(* Each step of a call keeps the types and the account of the temporary    *)
(* files.                                                                  *)
LEMMA HarnessStepKeepsShape ==
  ASSUME SpawnShape, TempFilesAreRemoved, HarnessStep
  PROVE  SpawnShape' /\ TempFilesAreRemoved'
<1> USE HarnessAssumption, OutcomesType
<1>1. CASE Spawn
  <2>1. Child(hinput) \in [state : {"none", "running", "exited"}, todo : SUBSET Edges,
                           exit : ExitStatuses]
    BY StatusesDiffer DEF Child, SpawnShape, HTypeOK
  <2>2. HTypeOK'
    BY <1>1, <2>1 DEF Spawn, Child, SpawnShape, HTypeOK, NoPipes
  <2> QED
    BY <1>1, <2>1, <2>2
       DEF Spawn, Child, SpawnShape, HTypeOK, NoPipes, TempFilesAreRemoved
<1>2. CASE SpawnFails
  <2>1. CASE mode = "stdin"
    BY <1>2, <2>1, FailKeepsShape DEF SpawnFails
  <2>2. CASE mode # "stdin"
    <3>1. PICK m \in Messages : Give([status |-> Error(m), cov |-> {}]) /\ UNCHANGED orphans
      BY <1>2, <2>2 DEF SpawnFails
    <3>2. hpc = "spawn" /\ orphans' \subseteq Inputs
      BY <1>2, <3>1 DEF SpawnFails, SpawnShape, HTypeOK
    <3> QED
      BY <3>1, <3>2, GiveKeepsShape
  <2> QED
    BY <2>1, <2>2
<1>3. CASE WriteInput
  <2>1. /\ pipes' \in PipesType
        /\ pipes'.sent = pipes.sent + 1 /\ pipes'.in = pipes.in + 1
        /\ pipes'.out = pipes.out /\ pipes'.owed = pipes.owed
    <3>1. pipes' = [sent |-> pipes.sent + 1, in |-> pipes.in + 1,
                    owed |-> pipes.owed, out |-> pipes.out]
      BY <1>3 DEF WriteInput, SpawnShape, PipesType
    <3> QED
      BY <3>1 DEF SpawnShape, PipesType
  <2>2. Size[hinput] \in Nat
    BY DEF SpawnShape, HTypeOK
  <2>3. HTypeOK'
    BY <1>3, <2>1, <2>2 DEF WriteInput, SpawnShape, PipesType, HTypeOK
  <2> QED
    BY <1>3, <2>1, <2>3 DEF WriteInput, SpawnShape, HTypeOK, TempFilesAreRemoved
<1>4. CASE CloseStdin
  BY <1>4 DEF CloseStdin, SpawnShape, HTypeOK, TempFilesAreRemoved
<1>5. CASE BrokenPipe
  BY <1>5, FailKeepsShape DEF BrokenPipe
<1>6. CASE Collect
  <2>1. [status |-> child.exit, cov |-> shm] \in Outcomes
    BY DEF SpawnShape, HTypeOK, Outcomes
  <2>2. hpc = "wait" /\ orphans' \subseteq Inputs
    BY <1>6 DEF Collect, SpawnShape, HTypeOK
  <2> QED
    BY <1>6, <2>1, <2>2, GiveKeepsShape DEF Collect
<1>7. CASE TimeOut
  BY <1>7, GiveKeepsShape, DropChildAdds DEF TimeOut
<1>8. CASE WaitFails
  BY <1>8, GiveKeepsShape, DropChildAdds DEF WaitFails
<1> QED
  BY <1>1, <1>2, <1>3, <1>4, <1>5, <1>6, <1>7, <1>8 DEF HarnessStep

(* So does each step of the target, of an orphan and of the caller. *)
LEMMA OtherStepsKeepShape ==
  ASSUME SpawnShape, TempFilesAreRemoved,
         \/ ChildStep \/ OrphanRuns \/ Return \/ Failed
         \/ \E i \in Inputs : Call(i) \/ CallFails(i)
  PROVE  SpawnShape' /\ TempFilesAreRemoved'
<1>1. CASE ChildRuns
  <2>1. PICK e \in child.todo : /\ shm' = shm \union {e}
                                /\ child' = [child EXCEPT !.todo = @ \ {e}]
    BY <1>1 DEF ChildRuns
  <2>2. /\ child' \in [state : {"none", "running", "exited"}, todo : SUBSET Edges,
                       exit : ExitStatuses]
        /\ child'.state = child.state /\ shm' \subseteq Edges
    BY <2>1 DEF SpawnShape, HTypeOK
  <2> QED
    BY <1>1, <2>2 DEF ChildRuns, SpawnShape, HTypeOK, TempFilesAreRemoved
<1>2. CASE ChildReads
  <2>1. PICK answer \in {0, 1} :
          pipes' = [pipes EXCEPT !.in = @ - 1, !.owed = answer]
    BY <1>2 DEF ChildReads
  <2>2. /\ pipes.in > 0
        /\ UNCHANGED <<mode, hpc, hinput, hresult, shm, child, orphans, temps>>
    BY <1>2 DEF ChildReads
  <2>3. pipes' = [sent |-> pipes.sent, in |-> pipes.in - 1, owed |-> answer,
                  out |-> pipes.out]
    BY <2>1 DEF SpawnShape, PipesType
  <2>4. /\ pipes' \in PipesType
        /\ pipes'.sent = pipes.sent /\ pipes'.in = pipes.in - 1
        /\ pipes'.out = pipes.out /\ pipes'.owed = answer
    BY <2>2, <2>3 DEF SpawnShape, PipesType
  <2>5. child.state # "none"
    BY <1>2 DEF ChildReads
  <2>6. \A f \in {"in", "out"} : pipes'[f] \in 0..PipeCap
    BY <2>2, <2>4, HarnessAssumption DEF SpawnShape, PipesType, HTypeOK
  <2>7. HTypeOK'
    BY <2>2, <2>4, <2>6 DEF SpawnShape, HTypeOK
  <2> QED
    BY <2>2, <2>4, <2>5, <2>7 DEF SpawnShape, HTypeOK, TempFilesAreRemoved
<1>3. CASE ChildEchoes
  <2>1. pipes.owed > 0 /\ pipes.owed - 1 \in Nat
    BY <1>3 DEF ChildEchoes, SpawnShape, PipesType
  <2>2. PICK n \in 0..PipeCap : pipes' = [pipes EXCEPT !.owed = @ - 1, !.out = n]
    <3>1. CASE hpc = "wait" /\ pipes' = [pipes EXCEPT !.owed = @ - 1, !.out = 0]
      <4>1. 0 \in 0..PipeCap
        BY HarnessAssumption
      <4> QED
        BY <3>1, <4>1
    <3>2. CASE /\ pipes.out < PipeCap
               /\ pipes' = [pipes EXCEPT !.owed = @ - 1, !.out = @ + 1]
      <4>1. pipes.out + 1 \in 0..PipeCap
        BY <3>2, HarnessAssumption DEF SpawnShape, PipesType
      <4> QED
        BY <3>2, <4>1
    <3> QED
      BY <1>3, <3>1, <3>2 DEF ChildEchoes
  <2>3. pipes' = [sent |-> pipes.sent, in |-> pipes.in, owed |-> pipes.owed - 1,
                  out |-> n]
    BY <2>2 DEF SpawnShape, PipesType
  <2>4. /\ pipes' \in PipesType
        /\ pipes'.sent = pipes.sent /\ pipes'.in = pipes.in
        /\ pipes'.owed = pipes.owed - 1 /\ pipes'.out = n
    BY <2>1, <2>3, HarnessAssumption DEF SpawnShape, PipesType
  <2>5. pipes'.owed \in {0, 1}
    BY <2>1, <2>4 DEF SpawnShape, PipesType, HTypeOK
  <2> QED
    BY <1>3, <2>4, <2>5 DEF ChildEchoes, SpawnShape, HTypeOK, TempFilesAreRemoved
<1>4. CASE ChildExits
  <2>1. PICK s \in Exits[hinput] :
          child' = [child EXCEPT !.state = "exited", !.exit = s]
    BY <1>4 DEF ChildExits
  <2>2. s \in ExitStatuses
    BY HarnessAssumption DEF SpawnShape, HTypeOK
  <2>3. /\ child' \in [state : {"none", "running", "exited"}, todo : SUBSET Edges,
                       exit : ExitStatuses]
        /\ child'.state = "exited" /\ child.state = "running"
    BY <1>4, <2>1, <2>2 DEF ChildExits, SpawnShape
  <2> QED
    BY <1>4, <2>3 DEF ChildExits, SpawnShape, HTypeOK, TempFilesAreRemoved
<1>5. CASE OrphanRuns
  <2>1. shm' \subseteq Edges
    BY <1>5, HarnessAssumption DEF OrphanRuns, EdgesOfOrphans, SpawnShape, HTypeOK
  <2> QED
    BY <1>5, <2>1 DEF OrphanRuns, SpawnShape, HTypeOK, TempFilesAreRemoved
<1>6. CASE Return
  BY <1>6, OutcomesType DEF Return, SpawnShape, HTypeOK, TempFilesAreRemoved
<1>7. CASE Failed
  BY <1>7 DEF Failed, hvars, SpawnShape, HTypeOK, TempFilesAreRemoved
<1>8. ASSUME NEW i \in Inputs, Call(i) \/ CallFails(i)
      PROVE  SpawnShape' /\ TempFilesAreRemoved'
  <2>1. /\ hpc = "idle" /\ hpc' \in {"spawn", "failed"} /\ hinput' = i
        /\ UNCHANGED <<mode, hresult, child, pipes, orphans>>
        /\ shm' \in {shm, {}}
    BY <1>8 DEF Call, CallFails
  <2>2. pipes = NoPipes /\ child.state = "none"
    BY <2>1 DEF SpawnShape, HTypeOK
  <2>3. /\ temps' \in Nat /\ (mode = "stdin" => temps' = 0)
        /\ hpc' = "spawn" => temps' = IF mode = "file" THEN 1 ELSE 0
    BY <1>8, <2>1 DEF Call, CallFails, SpawnShape, HTypeOK, TempFilesAreRemoved
  <2>4. HTypeOK'
    BY <2>1, <2>2, <2>3, HarnessAssumption DEF SpawnShape, HTypeOK, NoPipes
  <2> QED
    BY <2>1, <2>2, <2>3, <2>4 DEF SpawnShape, TempFilesAreRemoved
<1> QED
  BY <1>1, <1>2, <1>3, <1>4, <1>5, <1>6, <1>7, <1>8 DEF ChildStep

(* Each step of a call keeps what is known of the bitmap: a finished run   *)
(* shows its own edges, all of them, and under FileHarness no other.       *)
LEMMA HarnessStepKeepsBitmap ==
  ASSUME SpawnShape, BitmapInv, HarnessStep
  PROVE  BitmapInv'
<1> USE DEF BitmapInv, CoverageIsRight, CoverageIsOwn, CoverageIsComplete, Finished,
            EdgesOfOrphans
<1>1. CASE Spawn
  BY <1>1 DEF Spawn, Child
<1>2. CASE SpawnFails
  BY <1>2, StatusesDiffer DEF SpawnFails, Fail, Give
<1>3. CASE WriteInput
  BY <1>3 DEF WriteInput
<1>4. CASE CloseStdin
  BY <1>4 DEF CloseStdin
<1>5. CASE BrokenPipe
  BY <1>5 DEF BrokenPipe, Fail
<1>6. CASE Collect
  BY <1>6 DEF Collect, Give
<1>7. CASE TimeOut
  BY <1>7, StatusesDiffer, DropChildAdds DEF TimeOut, Give
<1>8. CASE WaitFails
  BY <1>8, StatusesDiffer, DropChildAdds DEF WaitFails, Give
<1> QED
  BY <1>1, <1>2, <1>3, <1>4, <1>5, <1>6, <1>7, <1>8 DEF HarnessStep

(* So does each step of the target, of an orphan and of the caller. *)
LEMMA OtherStepsKeepBitmap ==
  ASSUME SpawnShape, BitmapInv,
         \/ ChildStep \/ OrphanRuns \/ Return \/ Failed
         \/ \E i \in Inputs : Call(i) \/ CallFails(i)
  PROVE  BitmapInv'
<1> USE DEF BitmapInv, CoverageIsRight, CoverageIsOwn, CoverageIsComplete, Finished,
            EdgesOfOrphans
<1>1. CASE ChildRuns
  <2>1. PICK e \in child.todo : /\ shm' = shm \union {e}
                                /\ child' = [child EXCEPT !.todo = @ \ {e}]
    BY <1>1 DEF ChildRuns
  <2>2. /\ child'.todo = child.todo \ {e} /\ child'.state = "running"
        /\ hpc \in {"write", "wait"}
    BY <1>1, <2>1 DEF ChildRuns, SpawnShape, HTypeOK
  <2>3. UNCHANGED <<mode, hpc, hinput, hresult, orphans>>
    BY <1>1 DEF ChildRuns
  <2> QED
    BY <2>1, <2>2, <2>3
<1>2. CASE ChildReads \/ ChildEchoes
  BY <1>2 DEF ChildReads, ChildEchoes
<1>3. CASE ChildExits
  <2>1. /\ child'.todo = child.todo /\ child.todo = {}
        /\ UNCHANGED <<mode, hpc, hinput, hresult, shm, orphans>>
    BY <1>3 DEF ChildExits, SpawnShape
  <2> QED
    BY <2>1
<1>4. CASE OrphanRuns
  BY <1>4 DEF OrphanRuns
<1>5. CASE Return
  BY <1>5 DEF Return
<1>6. CASE Failed
  BY <1>6 DEF Failed, hvars
<1>7. CASE \E i \in Inputs : Call(i) \/ CallFails(i)
  BY <1>7 DEF Call, CallFails
<1> QED
  BY <1>1, <1>2, <1>3, <1>4, <1>5, <1>6, <1>7 DEF ChildStep

(* The invariant of a spawning harness holds at first and is kept. *)
LEMMA SpawnInvInit ==
  ASSUME HInit
  PROVE  SpawnInv
<1>1. HTypeOK
  BY HarnessAssumption, OutcomesType, StatusesDiffer DEF HInit, HTypeOK, NoChild, NoPipes
<1>2. SpawnShape
  BY <1>1, StatusesDiffer DEF HInit, SpawnShape, PipesType, NoChild, NoPipes
<1>3. TempFilesAreRemoved
  BY DEF HInit, TempFilesAreRemoved
<1>4. BitmapInv
  BY DEF HInit, BitmapInv, CoverageIsRight, CoverageIsOwn, CoverageIsComplete, Finished
<1> QED
  BY <1>2, <1>3, <1>4 DEF SpawnInv

LEMMA SpawnInvStep ==
  ASSUME SpawnInv, HNext
  PROVE  SpawnInv'
<1>1. SpawnShape' /\ TempFilesAreRemoved'
  BY HarnessStepKeepsShape, OtherStepsKeepShape DEF SpawnInv, HNext
<1>2. BitmapInv'
  BY HarnessStepKeepsBitmap, OtherStepsKeepBitmap DEF SpawnInv, HNext
<1> QED
  BY <1>1, <1>2 DEF SpawnInv

-----------------------------------------------------------------------------
(* The socket harness and its server.                                      *)

SocketStatuses == {Ok, Timeout, Crash(NoSignal)} \union {Error(m) : m \in Messages}

(* What a server does to a connection it leaves. *)
LEMMA LeftConnection ==
  ASSUME SocketShape
  PROVE  /\ S!Left \in [peer : {"none", "open", "left", "reset"}, sent : Nat, unread : Nat]
         /\ S!Left.peer # "open" /\ (S!Left.peer = "none" <=> conn.peer = "none")
         /\ S!Left.sent = conn.sent /\ S!Left.unread = conn.unread
         /\ conn.peer = "none" => S!Left = conn
BY DEF SocketShape, S!Left, S!Connected

(* What a call of the socket harness returns with is well typed, and its   *)
(* connection is gone.                                                     *)
LEMMA SGiveKeepsShape ==
  ASSUME SocketShape, NEW status \in SocketStatuses, S!SGive(status),
         work' \subseteq Inputs, server = "down" => work' = {}
  PROVE  SocketShape'
<1>1. /\ mode' = mode /\ reads' = reads /\ hinput' = hinput /\ server' = server
      /\ hpc' = "return" /\ conn' = S!NoConn
      /\ hresult' = [status |-> status, cov |-> {}]
      /\ silent' \in 0..2
  BY DEF S!SGive, SocketShape, S!STypeOK
<1>2. /\ conn' \in [peer : {"none", "open", "left", "reset"}, sent : Nat, unread : Nat]
      /\ conn'.peer = "none" /\ conn'.sent = 0 /\ conn'.unread = 0
  BY <1>1 DEF S!NoConn
<1>3. Length[hinput] \in Nat /\ SocketCap \in Nat
  BY SocketAssumption DEF SocketShape, S!STypeOK
<1>4. /\ hresult'.cov = {}
      /\ hresult'.status \in {S!Ok, S!Timeout, S!Crash(S!NoSignal)}
                               \union {S!Error(m) : m \in Messages}
  BY <1>1 DEF SocketStatuses, S!Ok, S!Timeout, S!Crash, S!NoSignal, S!Error,
              Ok, Timeout, Crash, NoSignal, Error
<1>5. S!STypeOK'
  BY <1>1, <1>2, <1>3, <1>4 DEF SocketShape, S!STypeOK
<1> QED
  BY <1>1, <1>2, <1>5 DEF SocketShape

(* Each step of a call keeps the types. *)
LEMMA SocketStepKeepsShape ==
  ASSUME SocketShape, S!SocketStep
  PROVE  SocketShape'
<1> DEFINE Conns == [peer : {"none", "open", "left", "reset"}, sent : Nat, unread : Nat]
<1>1. /\ work \subseteq Inputs /\ hinput \in Inputs
      /\ server = "down" => work = {}
      /\ Length[hinput] \in Nat /\ SocketCap \in Nat \ {0}
  BY SocketAssumption DEF SocketShape, S!STypeOK
<1>2. /\ {Ok, Timeout, Crash(NoSignal)} \subseteq SocketStatuses
      /\ \A m \in Messages : Error(m) \in SocketStatuses
  BY DEF SocketStatuses
<1>3. ASSUME NEW status \in SocketStatuses, S!SGive(status), UNCHANGED work
      PROVE  SocketShape'
  BY <1>1, <1>3, SGiveKeepsShape
<1>4. CASE S!Connect
  <2>1. conn' \in Conns /\ conn'.peer = "open" /\ conn'.sent = 0 /\ conn'.unread = 0
    BY <1>4 DEF S!Connect, S!NewConn, S!NoConn
  <2>2. /\ mode' = mode /\ reads' = reads /\ hinput' = hinput /\ hresult' = hresult
        /\ server' = server /\ server = "up" /\ silent' = silent
        /\ hpc = "connect" /\ hpc' = "send" /\ work' \subseteq Inputs
    BY <1>1, <1>4 DEF S!Connect
  <2>3. S!STypeOK'
    BY <1>1, <2>1, <2>2 DEF SocketShape, S!STypeOK
  <2> QED
    BY <2>1, <2>3 DEF SocketShape
<1>5. CASE S!ConnectFails \/ S!SocketTimesOut \/ S!SendFails \/ S!Received
           \/ S!ReceiveFails \/ S!ReceiveFrom
  BY <1>2, <1>3, <1>5
     DEF S!ConnectFails, S!SocketTimesOut, S!SendFails, S!Received, S!ReceiveFails,
         S!ReceiveFrom, S!GivesError, S!Timeout, S!Ok, S!Crash, S!NoSignal, S!Error,
         Timeout, Ok, Crash, NoSignal, Error
<1>6. CASE S!SendPiece
  <2>1. /\ hpc = "send" /\ conn.sent < Length[hinput]
        /\ UNCHANGED <<mode, reads, hpc, hinput, hresult, server, work, silent>>
    BY <1>6 DEF S!SendPiece
  <2> DEFINE Moved == /\ conn' \in Conns /\ conn'.sent = conn.sent + 1
                      /\ conn'.unread \in 0..SocketCap /\ conn'.peer # "none"
                      /\ conn'.peer = "open" => conn.peer = "open"
  <2>2. Moved
    <3>1. CASE /\ conn.peer = "open" /\ conn.unread < SocketCap
               /\ conn' = [conn EXCEPT !.sent = @ + 1, !.unread = @ + 1]
      <4>1. conn' = [peer |-> "open", sent |-> conn.sent + 1, unread |-> conn.unread + 1]
        BY <3>1 DEF SocketShape
      <4> QED
        BY <1>1, <3>1, <4>1 DEF SocketShape
    <3>2. ASSUME conn.peer = "left", NEW p \in {"left", "reset"},
                 conn' = [conn EXCEPT !.sent = @ + 1, !.peer = p]
          PROVE  Moved
      <4>1. conn' = [peer |-> p, sent |-> conn.sent + 1, unread |-> conn.unread]
        BY <3>2 DEF SocketShape
      <4> QED
        BY <1>1, <3>2, <4>1 DEF SocketShape, S!STypeOK
    <3> QED
      BY <1>6, <3>1, <3>2 DEF S!SendPiece
  <2>3. S!STypeOK'
    BY <1>1, <2>1, <2>2 DEF SocketShape, S!STypeOK
  <2> QED
    BY <2>2, <2>3 DEF SocketShape
<1>7. CASE S!Sent
  <2>1. CASE reads
    BY <1>7, <2>1 DEF S!Sent, SocketShape, S!STypeOK
  <2>2. CASE ~reads
    BY <1>2, <1>3, <1>7, <2>2 DEF S!Sent, S!Ok, Ok
  <2> QED
    BY <2>1, <2>2
<1>8. CASE S!Bind
  <2>1. CASE S!GivesError
    BY <1>2, <1>3, <2>1 DEF S!GivesError, S!Error, Error
  <2>2. CASE ~S!GivesError
    BY <1>8, <2>2 DEF S!Bind, SocketShape, S!STypeOK
  <2> QED
    BY <2>1, <2>2
<1>9. CASE S!SendTo
  <2>1. CASE S!GivesError
    BY <1>2, <1>3, <2>1 DEF S!GivesError, S!Error, Error
  <2>2. CASE ~S!GivesError
    <3>1. work' \subseteq Inputs /\ (server = "down" => work' = {})
      BY <1>1, <1>9, <2>2 DEF S!SendTo
    <3>2. CASE reads
      BY <1>9, <2>2, <3>1, <3>2 DEF S!SendTo, SocketShape, S!STypeOK
    <3>3. CASE ~reads
      BY <1>2, <1>9, <2>2, <3>1, <3>3, SGiveKeepsShape DEF S!SendTo, S!Ok, Ok
    <3> QED
      BY <3>2, <3>3
  <2> QED
    BY <2>1, <2>2
<1> QED
  BY <1>4, <1>5, <1>6, <1>7, <1>8, <1>9 DEF S!SocketStep

(* So does each step of the server and of the caller. *)
LEMMA ServerStepKeepsShape ==
  ASSUME SocketShape, S!ServerStep \/ S!SReturn \/ \E i \in Inputs : S!SCall(i)
  PROVE  SocketShape'
<1> DEFINE Conns == [peer : {"none", "open", "left", "reset"}, sent : Nat, unread : Nat]
<1>1. CASE S!ServerReads
  <2>1. /\ conn.peer = "open" /\ conn.unread > 0
        /\ conn' = [conn EXCEPT !.unread = @ - 1]
        /\ UNCHANGED <<mode, reads, hpc, hinput, hresult, server, work, silent>>
    BY <1>1 DEF S!ServerReads, S!Connected
  <2>2. conn' = [peer |-> "open", sent |-> conn.sent, unread |-> conn.unread - 1]
    BY <2>1 DEF SocketShape
  <2>3. /\ conn' \in Conns /\ conn'.peer = "open" /\ conn'.sent = conn.sent
        /\ conn'.unread = conn.unread - 1
    BY <2>1, <2>2 DEF SocketShape
  <2>4. conn'.unread \in 0..SocketCap
    BY <2>1, <2>3, SocketAssumption DEF SocketShape, S!STypeOK
  <2>5. S!STypeOK'
    BY <2>1, <2>3, <2>4 DEF SocketShape, S!STypeOK
  <2> QED
    BY <2>3, <2>5 DEF SocketShape
<1>2. CASE S!ServerStarts
  BY <1>2 DEF S!ServerStarts, SocketShape, S!STypeOK
<1>3. ASSUME NEW i \in Inputs, S!ServerFinishes(i) \/ S!ServerDies(i)
      PROVE  SocketShape'
  <2>1. /\ UNCHANGED <<mode, reads, hpc, hinput, hresult>>
        /\ conn' \in {conn, S!Left} /\ work' \subseteq work
        /\ \/ server' = server /\ silent' = silent
           \/ server' = "down" /\ silent' = 0 /\ work' = {} /\ conn' = S!Left
    BY <1>3 DEF S!ServerFinishes, S!ServerDies
  <2>2. S!STypeOK'
    BY <2>1, LeftConnection DEF SocketShape, S!STypeOK
  <2> QED
    BY <2>1, <2>2, LeftConnection DEF SocketShape
<1>4. CASE S!SReturn
  BY <1>4 DEF S!SReturn, SocketShape, S!STypeOK, S!NoOutcome, S!Ok
<1>5. ASSUME NEW i \in Inputs, S!SCall(i)
      PROVE  SocketShape'
  <2>1. /\ hpc = "idle" /\ hinput' = i
        /\ hpc' = IF mode = "tcp" THEN "connect" ELSE "bind"
        /\ UNCHANGED <<mode, reads, hresult, conn, server, work, silent>>
    BY <1>5 DEF S!SCall
  <2>2. conn = S!NoConn /\ conn.peer = "none" /\ conn.sent = 0
    BY <2>1 DEF SocketShape, S!STypeOK, S!NoConn
  <2>3. Length[i] \in Nat
    BY SocketAssumption
  <2>4. S!STypeOK'
    BY <2>1, <2>2, <2>3 DEF SocketShape, S!STypeOK
  <2> QED
    BY <2>1, <2>2, <2>4 DEF SocketShape
<1> QED
  BY <1>1, <1>2, <1>3, <1>4, <1>5 DEF S!ServerStep

(* Over TCP no step misses the death of a server a second time. *)
LEMMA SocketStepKeepsDeath ==
  ASSUME SocketInv, S!SNext
  PROVE  DeathInv'
<1> USE DEF DeathInv
<1>1. SocketShape /\ S!STypeOK /\ DeathInv
  BY DEF SocketInv, SocketShape
<1>2. mode' = mode
  BY DEF S!SNext, S!SocketStep, S!ServerStep, S!Connect, S!ConnectFails,
         S!SocketTimesOut, S!SendPiece, S!SendFails, S!Sent, S!Received, S!ReceiveFails,
         S!Bind, S!SendTo, S!ReceiveFrom, S!GivesError, S!SGive, S!ServerReads,
         S!ServerStarts, S!ServerFinishes, S!ServerDies, S!SReturn, S!SCall
<1> SUFFICES ASSUME mode = "tcp"
             PROVE  /\ silent' \in {0, 1}
                    /\ server' = "up" \/ hpc' \in {"send", "recv"} => silent' = 0
  BY <1>2
<1>3. CASE S!SocketStep
  <2>1. CASE S!Connect
    BY <1>1, <2>1 DEF S!Connect
  <2>2. CASE S!ConnectFails \/ S!SocketTimesOut \/ S!SendFails \/ S!ReceiveFails
    BY <1>1, <2>2
       DEF S!ConnectFails, S!SocketTimesOut, S!SendFails, S!ReceiveFails, S!GivesError,
           S!SGive, S!Ok, S!Error, S!Timeout, S!Crash
  <2>3. CASE S!SendPiece
    BY <1>1, <2>3 DEF S!SendPiece
  <2>4. CASE S!Sent \/ S!Received
    BY <1>1, <2>4 DEF S!Sent, S!Received, S!SGive, S!STypeOK
  <2>5. CASE S!Bind \/ S!SendTo \/ S!ReceiveFrom
    BY <1>1, <2>5 DEF S!Bind, S!SendTo, S!ReceiveFrom, S!STypeOK
  <2> QED
    BY <1>3, <2>1, <2>2, <2>3, <2>4, <2>5 DEF S!SocketStep
<1>4. CASE S!ServerStep
  BY <1>1, <1>4
     DEF S!ServerStep, S!ServerReads, S!ServerStarts, S!ServerFinishes, S!ServerDies
<1>5. CASE S!SReturn \/ \E i \in Inputs : S!SCall(i)
  BY <1>1, <1>5 DEF S!SReturn, S!SCall
<1> QED
  BY <1>3, <1>4, <1>5 DEF S!SNext

(* The invariant of the socket harness holds at first and is kept. *)
LEMMA SocketInvInit ==
  ASSUME S!SInit
  PROVE  SocketInv
<1>1. /\ conn = [peer |-> "none", sent |-> 0, unread |-> 0]
      /\ hresult.status = S!Ok /\ hresult.cov = {}
  BY DEF S!SInit, S!NoConn, S!NoOutcome
<1>2. Length[hinput] \in Nat /\ SocketCap \in Nat
  BY SocketAssumption DEF S!SInit
<1>3. S!STypeOK
  BY <1>1, <1>2 DEF S!SInit, S!STypeOK
<1> QED
  BY <1>1, <1>3 DEF S!SInit, SocketInv, SocketShape, DeathInv, S!NoConn

LEMMA SocketInvStep ==
  ASSUME SocketInv, S!SNext
  PROVE  SocketInv'
BY SocketStepKeepsShape, ServerStepKeepsShape, SocketStepKeepsDeath DEF SocketInv, S!SNext

-----------------------------------------------------------------------------
(* The harness a campaign is given.                                        *)

LEMMA ModesAndProtocolsDiffer ==
  Modes \intersect Protocols = {}
BY HarnessAssumption, SocketAssumption

LEMMA HarnessesInvInit ==
  ASSUME Init
  PROVE  HarnessesInv
<1>1. CASE HInit /\ NoServer
  BY <1>1, SpawnInvInit, ModesAndProtocolsDiffer DEF HarnessesInv, HInit
<1>2. CASE S!SInit /\ NoTarget
  BY <1>2, SocketInvInit, ModesAndProtocolsDiffer DEF HarnessesInv, S!SInit
<1> QED
  BY <1>1, <1>2 DEF Init

LEMMA HarnessesInvStep ==
  ASSUME HarnessesInv, [Next]_allvars
  PROVE  HarnessesInv'
<1>1. CASE SpawningHarness
  <2>1. SpawnInv' /\ mode \in Modes
    BY <1>1, SpawnInvStep DEF SpawningHarness, HarnessesInv
  <2>2. mode' \in Modes
    BY <2>1 DEF SpawnInv, SpawnShape, HTypeOK
  <2> QED
    BY <2>1, <2>2, ModesAndProtocolsDiffer DEF HarnessesInv
<1>2. CASE SocketHarness
  <2>1. SocketInv' /\ mode \in Protocols /\ NoTarget'
    BY <1>2, SocketInvStep DEF SocketHarness, HarnessesInv, NoTarget, targetVars
  <2>2. mode' \in Protocols
    BY <2>1 DEF SocketInv, SocketShape, S!STypeOK
  <2> QED
    BY <2>1, <2>2, ModesAndProtocolsDiffer DEF HarnessesInv
<1>3. CASE UNCHANGED allvars
  <2>1. UNCHANGED hvars /\ UNCHANGED serverVars
    BY <1>3 DEF allvars
  <2>2. UNCHANGED <<mode, hpc, hinput, hresult, shm, child, pipes, orphans, temps,
                    reads, conn, server, work, silent>>
    BY <2>1 DEF hvars, serverVars
  <2>3. SpawnInv => SpawnInv'
    BY <2>2
       DEF SpawnInv, SpawnShape, HTypeOK, TempFilesAreRemoved, BitmapInv,
           CoverageIsRight, CoverageIsOwn, CoverageIsComplete, Finished, EdgesOfOrphans
  <2>4. SocketInv => SocketInv'
    BY <2>2 DEF SocketInv, SocketShape, S!STypeOK, DeathInv
  <2> QED
    BY <2>2, <2>3, <2>4 DEF HarnessesInv, NoTarget
<1> QED
  BY <1>1, <1>2, <1>3 DEF Next

LEMMA HarnessesInvariant ==
  Spec => []HarnessesInv
<1>1. Init => HarnessesInv
  BY HarnessesInvInit
<1>2. HarnessesInv /\ [Next]_allvars => HarnessesInv'
  BY HarnessesInvStep
<1> QED
  BY <1>1, <1>2, PTL DEF Spec

(* Every state of the harness a campaign is given is well typed: its child *)
(* or its connection exists exactly while a call uses it, and no buffer    *)
(* holds more than it can.                                                 *)
THEOREM HarnessesTypeOK ==
  Spec => []TypeOK
<1>1. HarnessesInv => TypeOK
  BY ModesAndProtocolsDiffer
     DEF HarnessesInv, TypeOK, SpawnInv, SpawnShape, SocketInv, SocketShape
<1> QED
  BY <1>1, HarnessesInvariant, PTL

(* What FileHarness says a finished run has covered is what that run did;  *)
(* what StdinHarness says is that, and edges of children that were left    *)
(* running (Harness::execute of phaedra-harness).                          *)
THEOREM HarnessCoverageIsRight ==
  Spec => []CoverageIsRight
<1>1. HarnessesInv => CoverageIsRight
  BY ModesAndProtocolsDiffer
     DEF HarnessesInv, SpawnInv, BitmapInv, CoverageIsRight, CoverageIsOwn,
         CoverageIsComplete, Finished
<1> QED
  BY <1>1, HarnessesInvariant, PTL

(* FileHarness leaves no temporary file behind, whichever way a call ends, *)
(* unless it could not write it; the other harnesses never have one.       *)
THEOREM HarnessRemovesTempFiles ==
  Spec => []TempFilesAreRemoved
<1>1. HarnessesInv => TempFilesAreRemoved
  BY SocketAssumption DEF HarnessesInv, SpawnInv, TempFilesAreRemoved, NoTarget
<1> QED
  BY <1>1, HarnessesInvariant, PTL

(* Over TCP at most one call of SocketHarness returns Ok while the server  *)
(* is down: a dead server is noticed by the next connection.               *)
THEOREM SocketDeathIsNoticed ==
  Spec => []DeathIsNoticed
<1>1. HarnessesInv => DeathIsNoticed
  <2>1. mode = "tcp" /\ mode \in Modes => FALSE
    BY HarnessAssumption
  <2> QED
    BY <2>1 DEF HarnessesInv, SocketInv, DeathInv, DeathIsNoticed
<1> QED
  BY <1>1, HarnessesInvariant, PTL
=============================================================================

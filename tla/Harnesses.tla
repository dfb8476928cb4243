----------------------------- MODULE Harnesses ------------------------------
(***************************************************************************)
(* The harness a campaign is given: build_harness makes a StdinHarness, a  *)
(* FileHarness or a SocketHarness, and the campaign drives it through the  *)
(* one operation of the trait, execute.  The process of a campaign has one *)
(* harness, so that either the target and its bitmap or the server moves.  *)
(***************************************************************************)
EXTENDS Harness

CONSTANTS Protocols, Fatal, Length, SocketCap, ReadBytes  \* see module SocketHarness

ASSUME SocketAssumption ==
  /\ Protocols \subseteq {"tcp", "udp"}
  /\ Fatal \subseteq Inputs
  /\ Length \in [Inputs -> Nat]
  /\ SocketCap \in Nat \ {0}
  /\ ReadBytes \subseteq BOOLEAN

VARIABLES reads, conn, server, work, silent

S == INSTANCE SocketHarness

targetVars == <<shm, child, pipes, orphans, temps>>
serverVars == <<reads, conn, server, work, silent>>
allvars    == <<hvars, serverVars>>

NoTarget == shm = {} /\ child = NoChild /\ pipes = NoPipes /\ orphans = {} /\ temps = 0
NoServer == reads = FALSE /\ conn = S!NoConn /\ server = "down" /\ work = {} /\ silent = 0

(* build_harness *)
Init == (HInit /\ NoServer) \/ (S!SInit /\ NoTarget)

SpawningHarness == mode \in Modes /\ HNext /\ UNCHANGED serverVars
SocketHarness   == mode \in Protocols /\ S!SNext /\ UNCHANGED targetVars

Next == SpawningHarness \/ SocketHarness

Spec ==
  /\ Init /\ [][Next]_allvars
  /\ WF_allvars(mode \in Modes /\ Progress /\ UNCHANGED serverVars)
  /\ WF_allvars(mode \in Protocols /\ S!SProgress /\ UNCHANGED targetVars)

-----------------------------------------------------------------------------
(* The types of the harness in use. *)
TypeOK == IF mode \in Modes THEN HTypeOK ELSE S!STypeOK

(* A server that dies is missed once at most over TCP: the call it dies in *)
(* may end with Ok (nothing is read back, the answer came first, or the    *)
(* stream just ends), and so may none after it.  The next call is refused, *)
(* and that Error is what the campaign records, as a crash of the input    *)
(* that came after the one the server died of                              *)
(* (phaedra-harness/src/lib.rs:161-175, 193-204, 216-228).                 *)
DeathIsNoticed == mode = "tcp" => silent <= 1
=============================================================================

---------------------------- MODULE SocketHarness ---------------------------
(***************************************************************************)
(* SocketHarness of phaedra-harness: a client of a server that is not part *)
(* of the program, which runs on between two calls of execute.  build_     *)
(* harness gives it no shared memory, so there is no coverage.             *)
(*                                                                         *)
(* The server is external.  It accepts connections, takes what it is sent, *)
(* answers and hangs up when it likes, may go on with an input after its   *)
(* client has left, dies of some inputs, and may be started again.  A      *)
(* connection it leaves with data unread is reset, any other is closed.    *)
(***************************************************************************)
EXTENDS Dedup, FiniteSets

CONSTANTS
  Protocols,  \* the protocols to consider: of "tcp" and "udp"
  Fatal,      \* inputs the server may die of
  Length,     \* Length[i]: of i in fillings of a socket buffer
  SocketCap,  \* what the buffers of a connection hold, in the same unit
  ReadBytes   \* the values of read_bytes > 0 to consider

VARIABLES
  mode,     \* the protocol; it never changes
  reads,    \* read_bytes > 0; it never changes
  hpc,      \* where the call of execute stands
  hinput,   \* the input of the call
  hresult,  \* its ExecutionResult
  conn,     \* the connection of the call
  server,   \* whether the server is running
  work,     \* inputs the server is not done with
  silent    \* observer: Ok results since the server is down, 2 for more

svars == <<mode, reads, hpc, hinput, hresult, conn, server, work, silent>>

(* peer: what the other end did to the connection, "left" without reset *)
NoConn    == [peer |-> "none", sent |-> 0, unread |-> 0]
NewConn   == [NoConn EXCEPT !.peer = "open"]
NoOutcome == [status |-> Ok, cov |-> {}]

SInit ==
  /\ mode \in Protocols /\ reads \in ReadBytes
  /\ hpc = "idle" /\ hinput \in Inputs /\ hresult = NoOutcome
  /\ conn = NoConn /\ server = "up" /\ work = {} /\ silent = 0

-----------------------------------------------------------------------------
(* The harness.                                                            *)

(* execute(i) *)
SCall(i) ==
  /\ hpc = "idle"
  /\ hinput' = i
  /\ hpc' = IF mode = "tcp" THEN "connect" ELSE "bind"
  /\ UNCHANGED <<mode, reads, hresult, conn, server, work, silent>>

(* execute returns a result and drops the connection; the server may go on *)
(* with what it was sent.                                                  *)
SGive(status) ==
  /\ hresult' = [status |-> status, cov |-> {}]
  /\ conn' = NoConn
  /\ silent' = IF status = Ok /\ server = "down" /\ silent < 2
                 THEN silent + 1 ELSE silent
  /\ hpc' = "return"
  /\ UNCHANGED <<mode, reads, hinput, server>>

GivesError == \E m \in Messages : SGive(Error(m)) /\ UNCHANGED work

Connect ==
  /\ hpc = "connect" /\ server = "up"
  /\ conn' = NewConn
  /\ work' = work \union {hinput}
  /\ hpc' = "send"
  /\ UNCHANGED <<mode, reads, hinput, hresult, server, silent>>

(* Mutant: a connection refused is no news. *)
ConnectFails_Quietly == hpc = "connect" /\ SGive(Ok) /\ UNCHANGED work

(* refused, or another error of the network *)
ConnectFails == hpc = "connect" /\ GivesError

(* any of the three timeouts before the answer; the one around the answer  *)
(* is not an error                                                         *)
SocketTimesOut ==
  /\ hpc \in {"connect", "send", "sendto"}
  /\ SGive(Timeout) /\ UNCHANGED work

(* write_all goes on while the buffers hold more; sending to a peer that   *)
(* has left makes it answer with a reset, sooner or later                  *)
SendPiece ==
  /\ hpc = "send" /\ conn.sent < Length[hinput]
  /\ \/ /\ conn.peer = "open" /\ conn.unread < SocketCap
        /\ conn' = [conn EXCEPT !.sent = @ + 1, !.unread = @ + 1]
     \/ /\ conn.peer = "left"
        /\ \E p \in {"left", "reset"} : conn' = [conn EXCEPT !.sent = @ + 1, !.peer = p]
  /\ UNCHANGED <<mode, reads, hpc, hinput, hresult, server, work, silent>>

(* "connection reset mid-write = crash" *)
SendFails ==
  /\ hpc = "send" /\ conn.sent < Length[hinput] /\ conn.peer = "reset"
  /\ SGive(Crash(NoSignal)) /\ UNCHANGED work

(* all is written; the error of shutdown is ignored *)
Sent ==
  /\ hpc = "send" /\ conn.sent = Length[hinput]
  /\ IF reads
       THEN /\ hpc' = "recv"
            /\ UNCHANGED <<mode, reads, hinput, hresult, conn, server, work, silent>>
       ELSE SGive(Ok) /\ UNCHANGED work

(* the answer, the end of the stream, or no answer in time: all the same *)
Received == hpc = "recv" /\ SGive(Ok) /\ UNCHANGED work

(* "Connection reset during read = crash" *)
ReceiveFails ==
  /\ hpc = "recv" /\ conn.peer = "reset"
  /\ SGive(Crash(NoSignal)) /\ UNCHANGED work

(* a socket of its own for each call, connected without a word to the peer *)
Bind ==
  /\ hpc = "bind"
  /\ \/ hpc' = "sendto" /\ UNCHANGED <<mode, reads, hinput, hresult, conn, server, work, silent>>
     \/ GivesError

(* The datagram arrives or is lost.  Without an answer to wait for execute *)
(* returns; with one, whatever happens until the timeout is ignored, a     *)
(* refused port included.                                                  *)
SendTo ==
  /\ hpc = "sendto"
  /\ \/ /\ \E arrives \in BOOLEAN :
             work' = IF arrives /\ server = "up" THEN work \union {hinput} ELSE work
        /\ IF reads
             THEN hpc' = "recvfrom"
                  /\ UNCHANGED <<mode, reads, hinput, hresult, conn, server, silent>>
             ELSE SGive(Ok)
     \/ GivesError

ReceiveFrom == hpc = "recvfrom" /\ SGive(Ok) /\ UNCHANGED work

SReturn ==
  /\ hpc = "return"
  /\ hpc' = "idle" /\ hresult' = NoOutcome
  /\ UNCHANGED <<mode, reads, hinput, conn, server, work, silent>>

-----------------------------------------------------------------------------
(* The server.                                                             *)

Connected == conn.peer = "open"

(* the connection once the server has left it *)
Left == IF ~Connected THEN conn
        ELSE [conn EXCEPT !.peer = IF conn.unread > 0 THEN "reset" ELSE "left"]

ServerReads ==
  /\ Connected /\ conn.unread > 0
  /\ conn' = [conn EXCEPT !.unread = @ - 1]
  /\ UNCHANGED <<mode, reads, hpc, hinput, hresult, server, work, silent>>

(* it is done with an input, which is the one of the connection if it      *)
(* hangs up                                                                *)
ServerFinishes(i) ==
  /\ i \in work
  /\ work' = work \ {i}
  /\ conn' = IF i = hinput THEN Left ELSE conn
  /\ UNCHANGED <<mode, reads, hpc, hinput, hresult, server, silent>>

ServerDies(i) ==
  /\ i \in work \intersect Fatal
  /\ server' = "down" /\ work' = {} /\ conn' = Left /\ silent' = 0
  /\ UNCHANGED <<mode, reads, hpc, hinput, hresult>>

ServerStarts ==
  /\ server = "down"
  /\ server' = "up" /\ silent' = 0
  /\ UNCHANGED <<mode, reads, hpc, hinput, hresult, conn, work>>

-----------------------------------------------------------------------------
SocketStep ==
  \/ Connect \/ ConnectFails \/ SocketTimesOut
  \/ SendPiece \/ SendFails \/ Sent
  \/ Received \/ ReceiveFails
  \/ Bind \/ SendTo \/ ReceiveFrom

ServerStep ==
  \/ ServerReads \/ ServerStarts
  \/ \E i \in Inputs : ServerFinishes(i) \/ ServerDies(i)

SNext ==
  \/ SocketStep \/ ServerStep \/ SReturn
  \/ \E i \in Inputs : SCall(i)

(* What is sure to happen: the next step of the harness, and the clock. *)
SProgress == SocketStep

STypeOK ==
  /\ mode \in Protocols /\ reads \in ReadBytes
  /\ hpc \in {"idle", "return"} \union
       IF mode = "tcp" THEN {"connect", "send", "recv"} ELSE {"bind", "sendto", "recvfrom"}
  /\ hinput \in Inputs
  /\ hresult.cov = {}
  /\ hresult.status \in {Ok, Timeout, Crash(NoSignal)} \union {Error(m) : m \in Messages}
  /\ conn.peer \in {"none", "open", "left", "reset"}
  /\ conn.peer = "none" <=> hpc \notin {"send", "recv"}
  /\ conn.sent \in 0..Length[hinput] /\ conn.unread \in 0..SocketCap
  /\ server \in {"up", "down"} /\ work \subseteq Inputs /\ silent \in 0..2
  /\ server = "down" => work = {} /\ conn.peer # "open"
=============================================================================

------------------------------- MODULE WsConn -------------------------------
(***************************************************************************)
(* One console connection: the goroutines that write to it and its end.    *)
(*                                                                         *)
(* The read loop answers control frames and client messages; the streaming *)
(* goroutines write what they have to show.  writeFrame keeps frames apart *)
(* with the mutex wmu, which its holder keeps while the socket blocks.     *)
(* When ReadMessage fails, handleWS cancels the context and then calls     *)
(* Close, itself a writeFrame.                                             *)
(***************************************************************************)
EXTENDS Naturals, Sequences

CONSTANTS
  Streams,    \* the goroutines that stream: of streamStats, of streamInstallLog
              \* and the two that copy the server's output
  MaxSends,   \* bound: frames of one streaming goroutine
  MaxFrames,  \* bound: frames from the client before its last
  Room,       \* frames the socket takes before the client has read any
  Reader,     \* the goroutine of handleWS
  NoOne

ASSUME ConnAssumption ==
  /\ MaxSends \in Nat /\ MaxFrames \in Nat /\ Room \in Nat \ {0}
  /\ Reader \notin Streams /\ NoOne \notin Streams \cup {Reader}

Goroutines == Streams \cup {Reader}
Opcodes == {"text", "pong", "close"}
Parts == [by : Goroutines, part : {"header", "payload"}, op : Opcodes]

VARIABLES
  pc,        \* what each goroutine does outside writeFrame
  wpc,       \* its step in writeFrame
  op,        \* the opcode of the frame it writes
  wmu,       \* who holds the mutex
  wire,      \* the parts of frames written to the connection
  unread,    \* frames in the socket that the client has not read
  broken,    \* the connection is closed or has failed
  cancelled, \* the session's context
  sends, frames

conn == <<wmu, wire, unread, broken>>
vars == <<pc, wpc, op, conn, cancelled, sends, frames>>

TypeOK ==
  /\ pc \in [Goroutines -> {"run", "leave", "cancel", "close", "end"}]
  /\ wpc \in [Goroutines -> {"out", "lock", "header", "payload"}]
  /\ op \in [Goroutines -> Opcodes]
  /\ wmu \in Goroutines \cup {NoOne}
  /\ wire \in Seq(Parts)
  /\ unread \in 0..Room
  /\ broken \in BOOLEAN /\ cancelled \in BOOLEAN
  /\ sends \in [Streams -> 0..MaxSends] /\ frames \in 0..MaxFrames

Init ==
  /\ pc = [g \in Goroutines |-> "run"]
  /\ wpc = [g \in Goroutines |-> "out"]
  /\ op = [g \in Goroutines |-> "text"]
  /\ wmu = NoOne
  /\ wire = <<>>
  /\ unread = 0
  /\ broken = FALSE
  /\ cancelled = FALSE
  /\ sends = [s \in Streams |-> 0]
  /\ frames = 0

-----------------------------------------------------------------------------
(* writeFrame *)

CallWrite(g, opcode) ==
  /\ wpc[g] = "out"
  /\ wpc' = [wpc EXCEPT ![g] = "lock"]
  /\ op' = [op EXCEPT ![g] = opcode]

Goto(g, step) == wpc' = [wpc EXCEPT ![g] = step]

(* Mutant: without the mutex.                                              *)
LockNot(g) ==
  /\ wpc[g] = "lock"
  /\ Goto(g, "header")
  /\ UNCHANGED <<pc, op, conn, cancelled, sends, frames>>

Lock(g) ==
  /\ wpc[g] = "lock"
  /\ wmu = NoOne
  /\ wmu' = g
  /\ Goto(g, "header")
  /\ UNCHANGED <<pc, op, wire, unread, broken, cancelled, sends, frames>>

Part(g, part) == [by |-> g, part |-> part, op |-> op[g]]

(* The header goes into the buffer; after an error the buffer takes no more. *)
PutHeader(g) ==
  /\ wpc[g] = "header"
  /\ IF broken
     THEN wmu' = NoOne /\ Goto(g, "out") /\ UNCHANGED wire
     ELSE wire' = Append(wire, Part(g, "header")) /\ Goto(g, "payload")
          /\ UNCHANGED wmu
  /\ UNCHANGED <<pc, op, unread, broken, cancelled, sends, frames>>

(* Mutant: an error returns before the mutex is given back.                *)
PutPayloadKeeps(g) ==
  /\ wpc[g] = "payload"
  /\ \/ broken /\ UNCHANGED <<wire, unread, wmu>>
     \/ ~broken /\ unread < Room /\ unread' = unread + 1 /\ wmu' = NoOne
        /\ wire' = Append(wire, Part(g, "payload"))
  /\ Goto(g, "out")
  /\ UNCHANGED <<pc, op, broken, cancelled, sends, frames>>

(* The payload and Flush, which waits for room in the socket.              *)
PutPayload(g) ==
  /\ wpc[g] = "payload"
  /\ \/ broken /\ UNCHANGED <<wire, unread>>
     \/ ~broken /\ unread < Room /\ unread' = unread + 1
        /\ wire' = Append(wire, Part(g, "payload"))
  /\ wmu' = NoOne
  /\ Goto(g, "out")
  /\ UNCHANGED <<pc, op, broken, cancelled, sends, frames>>

-----------------------------------------------------------------------------
(* The streaming goroutines: each sends until it sees the context done *)

(* Whether a docker command or a tick came before the cancellation or not. *)
StreamSend(s) ==
  /\ pc[s] = "run"
  /\ sends[s] < MaxSends
  /\ sends' = [sends EXCEPT ![s] = @ + 1]
  /\ CallWrite(s, "text")
  /\ UNCHANGED <<pc, conn, cancelled, frames>>

StreamEnd(s) ==
  /\ pc[s] = "run"
  /\ wpc[s] = "out"
  /\ cancelled
  /\ pc' = [pc EXCEPT ![s] = "end"]
  /\ UNCHANGED <<wpc, op, conn, cancelled, sends, frames>>

-----------------------------------------------------------------------------
(* handleWS: the read loop and what it defers *)

Reading == pc[Reader] = "run" /\ wpc[Reader] = "out"

(* A ping, or a message that is answered (or not).                         *)
ClientFrame ==
  /\ Reading
  /\ frames < MaxFrames
  /\ frames' = frames + 1
  /\ \/ CallWrite(Reader, "pong")
     \/ CallWrite(Reader, "text")
     \/ UNCHANGED <<wpc, op>>
  /\ UNCHANGED <<pc, conn, cancelled, sends>>

(* ReadMessage answers a close frame with one and returns io.EOF.          *)
ClientClose ==
  /\ Reading
  /\ CallWrite(Reader, "close")
  /\ pc' = [pc EXCEPT ![Reader] = "leave"]
  /\ UNCHANGED <<conn, cancelled, sends, frames>>

(* A transport error, a frame too large, an opcode it does not know.       *)
ReadError ==
  /\ Reading
  /\ pc' = [pc EXCEPT ![Reader] = "leave"]
  /\ UNCHANGED <<wpc, op, conn, cancelled, sends, frames>>

Cancel ==
  /\ pc[Reader] = "leave" /\ wpc[Reader] = "out"
  /\ cancelled' = TRUE
  /\ pc' = [pc EXCEPT ![Reader] = "cancel"]
  /\ UNCHANGED <<wpc, op, conn, sends, frames>>

(* Close: a close frame, then the connection.                              *)
CloseFrame ==
  /\ pc[Reader] = "cancel"
  /\ CallWrite(Reader, "close")
  /\ pc' = [pc EXCEPT ![Reader] = "close"]
  /\ UNCHANGED <<conn, cancelled, sends, frames>>

CloseConn ==
  /\ pc[Reader] = "close" /\ wpc[Reader] = "out"
  /\ broken' = TRUE
  /\ pc' = [pc EXCEPT ![Reader] = "end"]
  /\ UNCHANGED <<wpc, op, wmu, wire, unread, cancelled, sends, frames>>

-----------------------------------------------------------------------------
(* The client and the network *)

ClientReads ==
  /\ unread > 0
  /\ unread' = unread - 1
  /\ UNCHANGED <<pc, wpc, op, wmu, wire, broken, cancelled, sends, frames>>

ConnectionFails ==
  /\ ~broken
  /\ broken' = TRUE
  /\ UNCHANGED <<pc, wpc, op, wmu, wire, unread, cancelled, sends, frames>>

WriteStep(g) == Lock(g) \/ PutHeader(g) \/ PutPayload(g)
Leaving == Cancel \/ CloseFrame \/ CloseConn

Next ==
  \/ \E g \in Goroutines : WriteStep(g)
  \/ \E s \in Streams : StreamSend(s) \/ StreamEnd(s)
  \/ ClientFrame \/ ClientClose \/ ReadError \/ Leaving
  \/ ClientReads \/ ConnectionFails

(* Goroutines run.  Weak fairness is enough for the mutex, as each of them *)
(* wants it a bounded number of times.  Of the client nothing is assumed,  *)
(* neither that it reads nor that it goes away.                            *)
Fairness ==
  /\ \A g \in Goroutines : WF_vars(WriteStep(g))
  /\ \A s \in Streams : WF_vars(StreamEnd(s))
  /\ WF_vars(Leaving)

Spec == Init /\ [][Next]_vars
FairSpec == Spec /\ Fairness

-----------------------------------------------------------------------------
(* Safety *)

SameFrame(p, q) == p.by = q.by /\ p.op = q.op

(* "serialises writes across goroutines": on the wire every header is      *)
(* followed by its own payload; the last one may miss it, and for good     *)
(* only on a connection that failed (ws.go:44, 168-197).                   *)
FramesWhole ==
  \A i \in 1..Len(wire) :
    /\ wire[i].part = "payload" =>
         i > 1 /\ wire[i - 1].part = "header" /\ SameFrame(wire[i - 1], wire[i])
    /\ wire[i].part = "header" =>
         \/ /\ i < Len(wire) /\ wire[i + 1].part = "payload"
            /\ SameFrame(wire[i], wire[i + 1])
         \/ i = Len(wire) /\ (wpc[wire[i].by] = "payload" \/ broken)

-----------------------------------------------------------------------------
(* Liveness *)

Full == unread = Room /\ ~broken

Left == pc[Reader] # "run"

(* A session whose read loop has returned tears its connection down and    *)
(* ends its goroutines: no wait on the mutex or on each other keeps it     *)
(* open, only a client that stays and for ever reads no more               *)
(* (ws.go:56, 74-75, 88-93; ws/ws.go:199-203).                             *)
SessionEnds ==
  []<>~Full =>
    (Left ~> broken /\ \A g \in Goroutines : pc[g] = "end")
=============================================================================

---------------------------- MODULE ConsoleInput ----------------------------
(***************************************************************************)
(* What a browser says to a console session: its messages, cut into frames *)
(* with control frames between them, and the read loop that puts them      *)
(* together, wants the first to authenticate and obeys those that follow.  *)
(*                                                                         *)
(* A payload is known by the message and the fragment of it that it holds. *)
(* The browser keeps to the framing rules; it sends what it likes, when it *)
(* likes, and may stop at any point.  A docker command may fail, or hang   *)
(* for ever: the read loop waits for it and has set it no time.            *)
(***************************************************************************)
EXTENDS Frames, SequencesExt

CONSTANTS
  Tokens,      \* [signed, server, exp]: signed with this node's token or not
  Uuid,        \* the server whose console this is
  Lens,        \* lengths of frames
  MaxMessages, \* bound: messages of the browser
  MaxParts,    \* bound: frames of one message
  MaxPings,    \* bound: pings of the browser
  MaxTime,     \* bound: the clock
  Window       \* frames on their way

ASSUME InputAssumption ==
  /\ \A t \in Tokens : t.signed \in BOOLEAN /\ t.exp \in Nat
  /\ Lens \subseteq Nat /\ \A n \in Lens : Fits(n)
  /\ MaxMessages \in Nat /\ MaxPings \in Nat /\ MaxTime \in Nat \ {0}
  /\ MaxParts \in Nat \ {0} /\ Window \in Nat \ {0}

opContinuation == 0
opText == 1
opClose == 8
opPing == 9
opPong == 10

(* A command with text, a power action, and whatever the loop passes over: *)
(* no JSON, another event, no argument, a blank command.                   *)
Messages ==
  [event : {"auth"}, token : Tokens]
    \cup [event : {"command", "power", "junk"}]

VARIABLES
  sent,     \* the browser's messages
  parts,    \* how many frames of each it has sent
  open,     \* the last of them is not complete
  pings,    \* its pings
  wire,     \* its frames on their way
  now,      \* the clock
  pc,       \* where handleWS is
  msg,      \* ReadMessage: the fragments it has
  handled,  \* the messages it has returned
  pongs,    \* pings answered
  reply,    \* the last frame it wrote
  authed,   \* when the session was authenticated: <<>> or <<time>>
  done      \* commands and power actions given to docker

browser == <<sent, parts, open, pings>>
session == <<msg, handled, pongs, reply, authed, done>>
vars == <<browser, wire, now, pc, session>>

Frame == [header : Seq(0..255), length : Nat, data : Seq(Nat)]

TypeOK ==
  /\ sent \in Seq(Messages) /\ Len(sent) <= MaxMessages
  /\ parts \in Seq(1..MaxParts) /\ Len(parts) = Len(sent)
  /\ open \in BOOLEAN /\ (open => sent # <<>>)
  /\ pings \in 0..MaxPings
  /\ wire \in Seq(Frame) /\ Len(wire) <= Window
  /\ now \in 1..MaxTime
  /\ pc \in {"read", "message", "tail", "docker", "end"}
  /\ msg \in Seq(Seq(Nat))
  /\ handled \in Seq(Seq(Seq(Nat)))
  /\ pongs \in Nat
  /\ reply \in [header : Seq(0..255), length : Nat]
  /\ authed \in {<<>>} \cup [1..1 -> 1..MaxTime]
  /\ done \in Seq(Messages)

Written(opcode, n) == [header |-> WriteHeader(opcode, n), length |-> n]

Init ==
  /\ sent = <<>> /\ parts = <<>> /\ open = FALSE /\ pings = 0
  /\ wire = <<>> /\ now = 1
  /\ pc = "read"
  /\ msg = <<>> /\ handled = <<>> /\ pongs = 0
  /\ reply = Written(opText, 0)
  /\ authed = <<>> /\ done = <<>>

-----------------------------------------------------------------------------
(* The browser and the network *)

Send(fin, opcode, n, data) ==
  /\ Len(wire) < Window
  /\ wire' = Append(wire, [header |-> ClientHeader(fin, opcode, n),
                           length |-> n, data |-> data])

Begin(m, fin, n) ==
  /\ ~open /\ Len(sent) < MaxMessages
  /\ sent' = Append(sent, m)
  /\ parts' = Append(parts, 1)
  /\ open' = ~fin
  /\ Send(fin, opText, n, <<Len(sent) + 1, 1>>)
  /\ UNCHANGED <<pings, now, pc, session>>

Continue(fin, n) ==
  /\ open
  /\ LET i == Len(sent)
     IN /\ parts[i] < MaxParts
        /\ parts' = [parts EXCEPT ![i] = @ + 1]
        /\ Send(fin, opContinuation, n, <<i, parts[i] + 1>>)
  /\ open' = ~fin
  /\ UNCHANGED <<sent, pings, now, pc, session>>

Ping(n) ==
  /\ pings < MaxPings /\ n < 126
  /\ pings' = pings + 1
  /\ Send(TRUE, opPing, n, <<>>)
  /\ UNCHANGED <<sent, parts, open, now, pc, session>>

Control(opcode) ==
  /\ Send(TRUE, opcode, 0, <<>>)
  /\ UNCHANGED <<browser, now, pc, session>>

Tick ==
  /\ now < MaxTime
  /\ now' = now + 1
  /\ UNCHANGED <<browser, wire, pc, session>>

-----------------------------------------------------------------------------
(* readFrame and ReadMessage *)

Header == ReadHeader(Head(wire).header)

FrameTooLarge ==
  /\ pc = "read" /\ wire # <<>>
  /\ Header.length > maxFrameSize
  /\ pc' = "end"
  /\ UNCHANGED <<browser, wire, now, session>>

(* The payload is as long as the header was read to say.                   *)
Receive(opcodes) ==
  /\ pc = "read" /\ wire # <<>>
  /\ Header.length <= maxFrameSize
  /\ Header.opcode \in opcodes
  /\ wire' = Tail(wire)

(* Mutant: a ping starts the message anew.                                 *)
ReadPingAnew ==
  /\ Receive({opPing})
  /\ reply' = Written(opPong, Header.length)
  /\ pongs' = pongs + 1
  /\ msg' = <<>>
  /\ UNCHANGED <<browser, now, pc, handled, authed, done>>


ReadPing ==
  /\ Receive({opPing})
  /\ reply' = Written(opPong, Header.length)
  /\ pongs' = pongs + 1
  /\ UNCHANGED <<browser, now, pc, msg, handled, authed, done>>

ReadPong ==
  /\ Receive({opPong})
  /\ UNCHANGED <<browser, now, pc, session>>

ReadClose ==
  /\ Receive({opClose})
  /\ reply' = Written(opClose, 0)
  /\ pc' = "end"
  /\ UNCHANGED <<browser, now, msg, handled, pongs, authed, done>>

(* A fragment is appended; with FIN the message is complete.               *)
ReadData ==
  /\ Receive({opText, opContinuation})
  /\ IF Header.fin
     THEN /\ handled' = Append(handled, Append(msg, Head(wire).data))
          /\ msg' = <<>>
          /\ pc' = "message"
     ELSE /\ msg' = Append(msg, Head(wire).data)
          /\ UNCHANGED <<handled, pc>>
  /\ UNCHANGED <<browser, now, pongs, reply, authed, done>>

(* The connection is lost, whatever was on its way.                        *)
ReadError ==
  /\ pc = "read"
  /\ pc' = "end"
  /\ UNCHANGED <<browser, wire, now, session>>

-----------------------------------------------------------------------------
(* handleWS *)

Whole(i) == [k \in 1..parts[i] |-> <<i, k>>]

(* What json.Unmarshal makes of the message: parts of one are no message.  *)
Unmarshalled(m) ==
  LET is == {i \in DOMAIN sent : m = Whole(i) /\ (open => i # Len(sent))}
  IN IF is = {} THEN [event |-> "junk"] ELSE sent[CHOOSE i \in is : TRUE]

(* Mutant: what does not parse leaves the message before in its place.     *)
MessageKept ==
  LET m == Unmarshalled(Last(handled))
  IN IF m.event = "junk" /\ done # <<>> THEN Last(done) ELSE m

Message == Unmarshalled(Last(handled))

(* verifyWSToken.                                                          *)
Verified(t) == t.signed /\ (t.exp # 0 => now <= t.exp)

(* Mutant: whose server the token is for is not looked at.                 *)
AcceptedAnyServer(m) == m.event = "auth" /\ Verified(m.token)

Accepted(m) == m.event = "auth" /\ Verified(m.token) /\ m.token.server = Uuid

Authenticate ==
  /\ pc = "message" /\ authed = <<>>
  /\ Accepted(Message)
  /\ authed' = <<now>>
  /\ reply' = Written(opText, 9)
  /\ pc' = "tail"
  /\ UNCHANGED <<browser, wire, now, msg, handled, pongs, done>>

(* "authentication required" or "invalid token".                           *)
RefuseAuth ==
  /\ pc = "message" /\ authed = <<>>
  /\ ~Accepted(Message)
  /\ reply' = Written(opText, 9)
  /\ pc' = "end"
  /\ UNCHANGED <<browser, wire, now, msg, handled, pongs, authed, done>>

(* The log's tail is sent, as long as it is, or there is none.             *)
SendTail ==
  /\ pc = "tail"
  /\ \/ \E n \in Lens : reply' = Written(opText, n)
     \/ UNCHANGED reply
  /\ pc' = "read"
  /\ UNCHANGED <<browser, wire, now, msg, handled, pongs, authed, done>>

Effective(m) == m.event \in {"command", "power"}

(* SendCommand and doPower: the loop waits for docker.  Their context ends *)
(* with the loop that is waiting, and nothing else ends them.              *)
Act ==
  /\ pc = "message" /\ authed # <<>>
  /\ Effective(Message)
  /\ done' = Append(done, Message)
  /\ pc' = "docker"
  /\ UNCHANGED <<browser, wire, now, msg, handled, pongs, reply, authed>>

PassOver ==
  /\ pc = "message" /\ authed # <<>>
  /\ ~Effective(Message)
  /\ pc' = "read"
  /\ UNCHANGED <<browser, wire, now, session>>

(* The docker command ends; an error or the status is sent, or nothing.    *)
DockerEnds ==
  /\ pc = "docker"
  /\ pc' = "read"
  /\ reply' \in {reply, Written(opText, 9)}
  /\ UNCHANGED <<browser, wire, now, msg, handled, pongs, authed, done>>

Reads == FrameTooLarge \/ ReadPing \/ ReadPong \/ ReadClose \/ ReadData
Obeys == Authenticate \/ RefuseAuth \/ Act \/ PassOver
Handles == Obeys \/ SendTail \/ DockerEnds

Next ==
  \/ \E fin \in BOOLEAN, n \in Lens :
       (\E m \in Messages : Begin(m, fin, n)) \/ Continue(fin, n)
  \/ \E n \in Lens : Ping(n)
  \/ Control(opPong) \/ Control(opClose) \/ Tick
  \/ Reads \/ Handles \/ ReadError

(* The goroutine of handleWS runs.  Nothing is supposed of docker: the     *)
(* tail and the commands may never end.                                    *)
Fairness == WF_vars(Reads \/ Obeys)

Spec == Init /\ [][Next]_vars
FairSpec == Spec /\ Fairness

-----------------------------------------------------------------------------
(* Safety *)

(* However a message is cut into frames and whatever control frames lie    *)
(* between, the loop gets each once, whole and in the browser's order      *)
(* (ws/ws.go:89-113).                                                      *)
InOrder ==
  \A i \in DOMAIN handled :
    /\ i \in DOMAIN sent /\ handled[i] = Whole(i)
    /\ open => i # Len(sent)

(* Both sides take every length for the same number of octets, at each     *)
(* boundary of its coding: otherwise all that follows would be misread     *)
(* (ws/ws.go:121-143, 173-188).                                            *)
InStep ==
  /\ \A i \in DOMAIN wire : ReadHeader(wire[i].header).length = wire[i].length
  /\ ReadHeader(reply.header).length = reply.length

(* Nothing is done for a browser unless its first message was a token      *)
(* signed with this node's secret, for this server, that had not expired   *)
(* when it was looked at (router/ws.go:58-72, 240-271).                    *)
AuthFirst ==
  IF authed = <<>> THEN done = <<>>
  ELSE /\ handled # <<>> /\ sent[1].event = "auth"
       /\ LET t == sent[1].token
          IN t.signed /\ t.server = Uuid /\ (t.exp = 0 \/ authed[1] <= t.exp)

(* What docker was told to do is what the messages after the first say,    *)
(* each once, in their order, and none of it before it was complete        *)
(* (router/ws.go:88-112).                                                  *)
ActsAsTold ==
  authed # <<>> =>
    LET read == IF pc = "message" THEN Len(handled) - 1 ELSE Len(handled)
        told == {i \in 2..read : Effective(sent[i])}
    IN \E at \in Surjection(DOMAIN done, told) :
         /\ \A j, k \in DOMAIN done : j < k => at[j] < at[k]
         /\ \A k \in DOMAIN done : done[k] = sent[at[k]]

-----------------------------------------------------------------------------
(* Liveness *)

Complete == IF open THEN Len(sent) - 1 ELSE Len(sent)

(* The docker command that the loop waits for never ends.                  *)
Hung == [](pc \in {"tail", "docker"})

=============================================================================

--------------------------- MODULE ConsoleStatus ---------------------------
(***************************************************************************)
(* The server state a console session shows.                               *)
(*                                                                         *)
(* Two goroutines of the session send "status" messages over the one       *)
(* connection: the read loop, after each power action it carries out       *)
(* (pushStatus), and streamStats, every two seconds, when the state differs *)
(* from the one it sent last itself.  Each asks docker first and sends     *)
(* later.  The container also changes on its own and by other requests.    *)
(*                                                                         *)
(* Its names differ from those of ConsoleOutput: ConsoleStreamsProofs is   *)
(* about both.                                                             *)
(***************************************************************************)
EXTENDS Naturals

CONSTANTS
  MaxChanges,  \* bound: changes of the container that are not this session's
  MaxPowers    \* bound: power actions of this session

ASSUME StatusAssumption == MaxChanges \in Nat /\ MaxPowers \in Nat

States == {"missing", "created", "running", "exited"}

VARIABLES
  state,    \* the container's state in docker
  changes, powers,
  rpc,      \* the next step of the read loop
  asked,    \* what pushStatus got from docker
  spc,      \* the next step of streamStats
  snap,     \* its snapshot's state
  last,     \* its variable last
  shown,    \* the last "status" message sent to the browser
  gauge     \* the state in the last "stats" message sent to it

env == <<state, changes, powers>>
reader == <<rpc, asked>>
stats == <<spc, snap, last, gauge>>
statusVars == <<env, reader, stats, shown>>

None == "none"

StatusTypeOK ==
  /\ state \in States
  /\ changes \in 0..MaxChanges /\ powers \in 0..MaxPowers
  /\ rpc \in {"start", "send", "loop", "push", "resend", "closed"}
  /\ asked \in States \cup {None}
  /\ spc \in {"off", "tick", "sample", "send", "end"}
  /\ snap \in States \cup {None} /\ last \in States \cup {None}
  /\ shown \in States \cup {None} /\ gauge \in States \cup {None}

StatusInit ==
  /\ state \in States
  /\ changes = 0 /\ powers = 0
  /\ rpc = "start" /\ asked = None
  /\ spc = "off" /\ snap = None /\ last = None
  /\ shown = None /\ gauge = None

-----------------------------------------------------------------------------
(* The container *)

(* docker start, restart or stop; without a container it fails.            *)
PowerOutcomes ==
  CASE state = "missing" -> {"missing"}
    [] state = "created" -> {"created", "running"}
    [] OTHER -> {"running", "exited"}

(* The server exits, another client starts or stops it, an install removes *)
(* its container or creates a new one.                                     *)
Change ==
  /\ changes < MaxChanges
  /\ changes' = changes + 1
  /\ state' \in (IF state = "missing" THEN {"created"}
                 ELSE PowerOutcomes \cup {"missing"}) \ {state}
  /\ UNCHANGED <<powers, reader, stats, shown>>

-----------------------------------------------------------------------------
(* handleWS: the first pushStatus, then the read loop *)

(* docker.State, which may fail: then nothing is sent.                     *)
AskThen(then, onError) ==
  /\ \/ asked' = state /\ rpc' = then
     \/ asked' = None /\ rpc' = onError
  /\ UNCHANGED <<env, shown>>

(* Mutant: streamStats is started before the first status is sent.         *)
FirstAskStarts ==
  /\ rpc = "start"
  /\ AskThen("send", "loop")
  /\ spc' = "tick"
  /\ UNCHANGED <<snap, last, gauge>>

(* The goroutines are started after the first pushStatus, sent or not.     *)
FirstAsk ==
  /\ rpc = "start"
  /\ AskThen("send", "loop")
  /\ spc' = IF rpc' = "loop" THEN "tick" ELSE spc
  /\ UNCHANGED <<snap, last, gauge>>

FirstSend ==
  /\ rpc = "send"
  /\ shown' = asked
  /\ rpc' = "loop"
  /\ spc' = IF spc = "off" THEN "tick" ELSE spc
  /\ UNCHANGED <<env, asked, snap, last, gauge>>

(* doPower ignores the error; an action that fails changes nothing.        *)
DoPower ==
  /\ rpc = "loop"
  /\ powers < MaxPowers
  /\ powers' = powers + 1
  /\ state' \in PowerOutcomes
  /\ rpc' = "push"
  /\ UNCHANGED <<changes, asked, stats, shown>>

PushAsk == rpc = "push" /\ AskThen("resend", "loop") /\ UNCHANGED stats

PushSend ==
  /\ rpc = "resend"
  /\ shown' = asked
  /\ rpc' = "loop"
  /\ UNCHANGED <<env, asked, stats>>

(* ReadMessage fails: the read loop returns and cancels the context.       *)
ReadLoopEnds ==
  /\ rpc = "loop"
  /\ rpc' = "closed"
  /\ UNCHANGED <<env, asked, stats, shown>>

-----------------------------------------------------------------------------
(* streamStats *)

(* Mutant: last is set with the snapshot and not with the message.         *)
TickAskRemembers ==
  /\ spc = "tick"
  /\ snap' = state
  /\ last' = state
  /\ spc' = IF state = "running" THEN "sample" ELSE "send"
  /\ UNCHANGED <<env, reader, shown, gauge>>

(* Stats asks for the state; `docker stats` only follows for a running one. *)
TickAsk ==
  /\ spc = "tick"
  /\ snap' = state
  /\ spc' = IF state = "running" THEN "sample" ELSE "send"
  /\ UNCHANGED <<env, reader, shown, last, gauge>>

Sample ==
  /\ spc = "sample"
  /\ spc' = "send"
  /\ UNCHANGED <<env, reader, shown, snap, last, gauge>>

(* Either call fails: the tick sends nothing.                              *)
TickFails ==
  /\ spc \in {"tick", "sample"}
  /\ spc' = "tick"
  /\ UNCHANGED <<env, reader, shown, snap, last, gauge>>

(* Mutant: a server that does not run sends no stats.                      *)
TickSendRunning ==
  /\ spc = "send"
  /\ gauge' = IF snap = "running" THEN snap ELSE gauge
  /\ IF snap # last
     THEN last' = snap /\ shown' = snap
     ELSE UNCHANGED <<last, shown>>
  /\ spc' = "tick"
  /\ UNCHANGED <<env, reader, snap>>

TickSend ==
  /\ spc = "send"
  /\ gauge' = snap
  /\ IF snap # last
     THEN last' = snap /\ shown' = snap
     ELSE UNCHANGED <<last, shown>>
  /\ spc' = "tick"
  /\ UNCHANGED <<env, reader, snap>>

(* Mutant: on Done the loop goes on instead of returning.                  *)
StatsEndContinues ==
  /\ rpc = "closed"
  /\ spc = "tick"
  /\ UNCHANGED statusVars

(* The context is cancelled: the docker commands die with it, the select   *)
(* sees Done (or, its ticker being ready too, takes one more tick).        *)
StatsEnd ==
  /\ rpc = "closed"
  /\ spc = "tick"
  /\ spc' = "end"
  /\ UNCHANGED <<env, reader, shown, snap, last, gauge>>

Reader == FirstAsk \/ FirstSend \/ DoPower \/ PushAsk \/ PushSend \/ ReadLoopEnds

Stats == TickAsk \/ Sample \/ TickSend \/ TickFails \/ StatsEnd

StatusNext == Change \/ Reader \/ Stats

(* The goroutines run while the session is open, and a docker command that *)
(* is asked again and again answers again and again.  Nobody need act.     *)
StatusFairness ==
  /\ WF_statusVars(FirstAsk) /\ WF_statusVars(FirstSend)
  /\ WF_statusVars(PushAsk) /\ WF_statusVars(PushSend)
  /\ WF_statusVars(TickAsk) /\ SF_statusVars(Sample) /\ WF_statusVars(TickSend)
  /\ SF_statusVars(StatsEnd)

StatusSpec == StatusInit /\ [][StatusNext]_statusVars
StatusFairSpec == StatusSpec /\ StatusFairness

Closed == rpc = "closed"

-----------------------------------------------------------------------------
(* Safety *)

(* In a session without power actions the last status message is the one   *)
(* that last remembers: no other sender overtakes streamStats, the first   *)
(* pushStatus included (ws.go:83-84, 153-156).                             *)
ShownIsLast == last # None /\ powers = 0 => shown = last

-----------------------------------------------------------------------------
(* Liveness *)

(* "plus a status message whenever the state changes": once the container  *)
(* keeps its state, the session ends up showing it (ws.go:134-135).        *)
StatusConverges == <>[](Closed \/ shown = state)

(* A session that takes no power action does end up showing the state its  *)
(* container keeps, whatever changed it (ws.go:146-157).                   *)
WatchConverges == <>[](Closed \/ powers > 0 \/ shown = state)

(* The state inside the stats messages does converge (ws.go:146-152).      *)
GaugeConverges == <>[](Closed \/ gauge = state)

(* streamStats ends with its session (ws.go:143-144).                      *)
StatsStops == Closed ~> spc = "end"
=============================================================================

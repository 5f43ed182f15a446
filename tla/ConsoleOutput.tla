--------------------------- MODULE ConsoleOutput ---------------------------
(***************************************************************************)
(* The server's output in a console session.                               *)
(*                                                                         *)
(* The session sends the tail of the container's log once (docker.Logs),   *)
(* then streamConsole attaches to the running container with               *)
(* `docker logs -f --tail 0`, sends what it prints, and attaches again     *)
(* after it has stopped.  Between the tail and an attachment, and between  *)
(* two attachments, the server may print.                                  *)
(*                                                                         *)
(* Lines are numbered over the whole run: the log of the present container *)
(* is the lines first+1..printed, a new container's log starts empty.      *)
(*                                                                         *)
(* The server prints on stdout and stderr.  `docker logs` keeps them apart *)
(* and StreamLogs gives it one funcWriter for both, which os/exec cannot   *)
(* compare (it holds a func): it copies them in two goroutines, and each   *)
(* calls the session's send for itself.                                    *)
(***************************************************************************)
EXTENDS Naturals, Sequences, SequencesExt

CONSTANTS
  TailSize,  \* lines of history a session asks for (200 in the code)
  MaxLines,  \* bound: lines the server prints
  MaxTurns   \* bound: starts, stops and removals of the container

ASSUME OutputAssumption == {TailSize, MaxLines, MaxTurns} \subseteq Nat \ {0}

Streams == {"stdout", "stderr"}

VARIABLES
  status,   \* the container: "missing", "exited" (or created), "running"
  first,    \* the line before the first one of its log
  printed,  \* the last line printed
  errs,     \* the lines printed on stderr, the others were on stdout
  turns,
  cpc,      \* the session's console output: its next step
  cursor,   \* the last line that each of the two copiers has passed on
  live,     \* the run of the container it attached to goes on
  upto,     \* when it does not: the last line of it to be had
  sent,     \* the lines sent to the browser, in order
  due,      \* history: lines printed while `docker logs` was attached
  starts    \* history: the last line printed at each attachment

container == <<status, first, printed, errs, turns>>
follower == <<cursor, live, upto, starts>>
vars == <<container, cpc, follower, sent, due>>

TypeOK ==
  /\ status \in {"missing", "exited", "running"}
  /\ printed \in 0..MaxLines /\ first \in 0..printed /\ errs \subseteq 1..printed
  /\ turns \in 0..MaxTurns
  /\ cpc \in {"history", "check", "wait", "attach", "follow", "closing", "end"}
  /\ live \in BOOLEAN /\ upto \in 0..printed
  /\ cursor \in [Streams -> 0..printed] /\ starts \subseteq 0..printed
  /\ sent \in Seq(1..printed)
  /\ due \subseteq 1..printed

(* The session may find a server that has printed for a while.             *)
Init ==
  /\ status \in {"missing", "exited", "running"}
  /\ printed \in 0..MaxLines /\ errs \in SUBSET (1..printed)
  /\ first = IF status = "missing" THEN printed ELSE 0
  /\ turns = 0
  /\ cpc = "history"
  /\ cursor = [s \in Streams |-> 0] /\ live = FALSE /\ upto = 0 /\ starts = {}
  /\ sent = <<>>
  /\ due = {}

-----------------------------------------------------------------------------
(* The container *)

Attached == cpc = "follow" /\ live

PrintLine ==
  /\ status = "running"
  /\ printed < MaxLines
  /\ printed' = printed + 1
  /\ errs' \in {errs, errs \cup {printed'}}
  /\ due' = IF Attached THEN due \cup {printed'} ELSE due
  /\ UNCHANGED <<status, first, turns, cpc, follower, sent>>

Turn(to) ==
  /\ turns < MaxTurns
  /\ turns' = turns + 1
  /\ status' = to
  /\ UNCHANGED <<printed, errs, cpc, cursor, starts, sent>>

Start ==
  status = "exited" /\ Turn("running") /\ UNCHANGED <<first, due, live, upto>>

(* The run that `docker logs` follows ends here.                           *)
RunEnds(last) == live' = FALSE /\ upto' = IF live THEN last ELSE upto

Stop ==
  status = "running" /\ Turn("exited") /\ RunEnds(printed)
  /\ UNCHANGED <<first, due>>

(* `docker rm -f`: the log goes with the container, read to its end or not. *)
RemoveContainer ==
  /\ status # "missing"
  /\ Turn("missing")
  /\ first' = printed
  /\ \E last \in 0..printed : (\A s \in Streams : cursor[s] <= last) /\ RunEnds(last)
  /\ due' = {}

CreateContainer ==
  status = "missing" /\ Turn("exited") /\ UNCHANGED <<first, due, live, upto>>

-----------------------------------------------------------------------------
(* handleWS up to the goroutines: docker.Logs *)

Lines(from, to) == [i \in 1..(to - from) |-> from + i]

(* CombinedOutput has one buffer for both streams and so keeps the log's   *)
(* order.  An error, or a container that is not there, sends nothing.      *)
SendHistory ==
  /\ cpc = "history"
  /\ LET from == IF printed - first > TailSize THEN printed - TailSize ELSE first
     IN sent' \in {<<>>, Lines(from, printed)}
  /\ cpc' = "check"
  /\ UNCHANGED <<container, follower, due>>

-----------------------------------------------------------------------------
(* streamConsole *)

(* A failed State is not "running" either.                                 *)
CheckRunning ==
  /\ cpc = "check"
  /\ cpc' \in (IF status = "running" THEN {"attach", "wait"} ELSE {"wait"})
  /\ UNCHANGED <<container, follower, sent, due>>

WaitOver ==
  /\ cpc = "wait"
  /\ cpc' = "check"
  /\ UNCHANGED <<container, follower, sent, due>>

AttachAt(line) ==
  /\ cpc = "attach"
  /\ IF status = "running"
     THEN /\ cursor' = [s \in Streams |-> line]
          /\ starts' = starts \cup {printed}
          /\ live' = TRUE /\ cpc' = "follow"
     ELSE cpc' = "check" /\ UNCHANGED <<cursor, starts, live>>
  /\ UNCHANGED <<container, upto, sent, due>>

(* Mutant: with a tail, which the history or another attachment has sent.  *)
AttachWithTail == AttachAt(IF printed > first THEN printed - 1 ELSE printed)

(* `docker logs -f --tail 0`: from the present end of the log on.  It      *)
(* returns at once when the container does not run any more.               *)
Attach == AttachAt(printed)

ToHand == IF live THEN printed ELSE upto

Via(n) == IF n \in errs THEN "stderr" ELSE "stdout"

(* What a copier has still to pass on.                                     *)
Ahead(s) == {n \in 1..ToHand : Via(n) = s /\ cursor[s] < n}

(* The next line of one stream goes through funcWriter to the socket,      *)
(* however far the other has got; a chunk is its lines one by one.         *)
Deliver(s) ==
  /\ cpc = "follow"
  /\ \E n \in Ahead(s) :
       /\ \A m \in Ahead(s) : n <= m
       /\ sent' = Append(sent, n)
       /\ cursor' = [cursor EXCEPT ![s] = n]
  /\ UNCHANGED <<container, cpc, live, upto, starts, due>>

(* Mutant: the stream is given up as soon as the container has stopped.    *)
FollowEndsEarly ==
  /\ cpc = "follow"
  /\ ~live
  /\ cpc' = "check"
  /\ UNCHANGED <<container, follower, sent, due>>

CopiedOut == \A s \in Streams : Ahead(s) = {}

(* Mutant: streamConsole returns with its first `docker logs`.             *)
FollowEndsForGood ==
  /\ cpc = "follow"
  /\ ~live /\ CopiedOut
  /\ cpc' = "over"
  /\ UNCHANGED <<container, follower, sent, due>>

(* `docker logs -f` ends by itself when the container has stopped and what *)
(* there is of its log is read; Run returns when both copiers are done.    *)
FollowEnds ==
  /\ cpc = "follow"
  /\ ~live /\ CopiedOut
  /\ cpc' = "check"
  /\ UNCHANGED <<container, follower, sent, due>>

(* It dies (the engine restarts, say): its error is dropped.               *)
FollowBreaks ==
  /\ cpc = "follow"
  /\ cpc' = "check"
  /\ due' = {}
  /\ UNCHANGED <<container, follower, sent>>

(* The read loop returns and cancels the context: `docker logs` is killed. *)
Disconnect ==
  /\ cpc \notin {"history", "closing", "end"}
  /\ cpc' = "closing"
  /\ UNCHANGED <<container, follower, sent, due>>

StreamEnds ==
  /\ cpc = "closing"
  /\ cpc' = "end"
  /\ UNCHANGED <<container, follower, sent, due>>

Container ==
  PrintLine \/ Start \/ Stop \/ RemoveContainer \/ CreateContainer

Stream ==
  \/ CheckRunning \/ WaitOver \/ Attach \/ FollowEnds \/ FollowBreaks \/ StreamEnds
  \/ \E s \in Streams : Deliver(s)

Next == Container \/ SendHistory \/ Disconnect \/ Stream

(* streamConsole runs as long as the session is open, docker passes on     *)
(* what it has, and a State asked again and again succeeds again and again. *)
Fairness ==
  /\ WF_vars(SendHistory) /\ WF_vars(WaitOver)
  /\ SF_vars(CheckRunning /\ cpc' = "attach") /\ WF_vars(CheckRunning)
  /\ WF_vars(Attach) /\ WF_vars(FollowEnds)
  /\ \A s \in Streams : WF_vars(Deliver(s))

Spec == Init /\ [][Next]_vars
FairSpec == Spec /\ Fairness

-----------------------------------------------------------------------------
(* Safety *)

(* "so a caller can send the historical tail separately without            *)
(* duplication": over the history and every attachment, no line is sent    *)
(* twice.  One is sent after a later one only when they are of stdout and  *)
(* stderr and were printed under the same attachment, whose two copiers    *)
(* run side by side (docker/server.go:139-147).                            *)
NoDuplication ==
  \A i, j \in 1..Len(sent) : i < j =>
    \/ sent[i] < sent[j]
    \/ /\ Via(sent[i]) # Via(sent[j])
       /\ \A at \in starts : ~(sent[j] <= at /\ at < sent[i])

-----------------------------------------------------------------------------
(* Liveness *)

(* What the server prints while `docker logs` is attached reaches the      *)
(* browser, the last words before it stops included (ws.go:177-178).       *)
AttachedDelivered ==
  \A n \in 1..MaxLines :
    n \in due ~> n \in ToSet(sent) \/ n \notin due \/ cpc \in {"closing", "end"}

(* A session attaches to a server that goes on running, however often it   *)
(* has stopped and started before: "re-attaching across stop/start cycles" *)
(* (ws.go:161-162).                                                        *)
Reattaches ==
  status = "running" ~> Attached \/ status # "running" \/ cpc = "end"
                        \/ cpc = "closing"
=============================================================================

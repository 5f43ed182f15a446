----------------------- MODULE ConsoleStreamsProofs -----------------------
(***************************************************************************)
(* Proofs about what a console session sends: ConsoleOutput, for a history *)
(* of any size and any number of lines, starts, stops and removals of the  *)
(* container, and ConsoleStatus, however often the container changes.      *)
(***************************************************************************)
EXTENDS ConsoleOutput, ConsoleStatus, SequenceTheorems, TLAPS

-----------------------------------------------------------------------------
(* Nothing is sent before the history.  While a session is attached, each  *)
(* stream's copier is past every line of its stream that was sent, and     *)
(* both are past the point where this and all former attachments began.    *)
SentBelow ==
  /\ cpc = "history" => sent = <<>> /\ starts = {}
  /\ cpc = "follow" =>
       /\ \A i \in 1..Len(sent) : sent[i] <= cursor[Via(sent[i])]
       /\ \A at \in starts, s \in Streams : at <= cursor[s]

IInv == TypeOK /\ SentBelow /\ NoDuplication

(* A run of lines after which nothing older is sent.                       *)
LEMMA LinesRun ==
  \A from, to \in Nat :
    from <= to =>
      /\ Lines(from, to) \in Seq(1..to)
      /\ Len(Lines(from, to)) = to - from
      /\ \A i \in 1..(to - from) : Lines(from, to)[i] = from + i
<1> SUFFICES ASSUME NEW from \in Nat, NEW to \in Nat, from <= to
             PROVE  /\ Lines(from, to) \in Seq(1..to)
                    /\ Len(Lines(from, to)) = to - from
                    /\ \A i \in 1..(to - from) : Lines(from, to)[i] = from + i
  OBVIOUS
<1>1. to - from \in Nat
  OBVIOUS
<1>2. \A i \in 1..(to - from) : from + i \in 1..to
  OBVIOUS
<1> QED
  BY <1>1, <1>2 DEF Lines

(* More lines printed leave what was sent a sequence of printed lines.     *)
LEMMA SeqGrows ==
  ASSUME NEW m \in Nat, NEW n \in Nat, m <= n, NEW s \in Seq(1..m)
  PROVE  s \in Seq(1..n)
<1>1. 1..m \subseteq 1..n
  OBVIOUS
<1>2. \A i \in 1..Len(s) : s[i] \in 1..n
  BY <1>1
<1> QED
  BY <1>2

-----------------------------------------------------------------------------
(* Output: the steps of the container. *)

(* What was sent stays, and so does the stream of each line of it.         *)
LEMMA SentKept ==
  ASSUME TypeOK, SentBelow, NoDuplication,
         sent' = sent, cpc' = cpc, cursor' = cursor, starts' = starts,
         \A n \in 1..printed : Via(n)' = Via(n)
  PROVE  SentBelow' /\ NoDuplication'
<1>1. \A i \in 1..Len(sent) : sent[i] \in 1..printed
  BY ElementOfSeq DEF TypeOK
<1>2. \A i \in 1..Len(sent) : Via(sent[i])' = Via(sent[i])
  BY <1>1
<1>3. SentBelow'
  BY <1>2 DEF SentBelow
<1>4. NoDuplication'
  BY <1>2 DEF NoDuplication
<1> QED
  BY <1>3, <1>4

LEMMA ContainerStep ==
  ASSUME TypeOK, SentBelow, NoDuplication, Container
  PROVE  IInv'
<1> USE OutputAssumption DEF Turn, RunEnds, follower
<1>1. CASE PrintLine
  <2>1. /\ printed \in Nat /\ printed' \in 1..MaxLines /\ printed' = printed + 1
        /\ errs' \in {errs, errs \cup {printed'}}
        /\ UNCHANGED <<status, first, turns, cpc, cursor, live, upto, starts, sent>>
        /\ due' \in {due, due \cup {printed'}}
    BY <1>1 DEF PrintLine, TypeOK
  <2>2. sent' \in Seq(1..printed')
    BY <2>1, SeqGrows DEF TypeOK
  <2>3. cursor' \in [Streams -> 0..printed']
    BY <2>1 DEF TypeOK
  <2>4. TypeOK'
    BY <2>1, <2>2, <2>3 DEF TypeOK
  <2>5. \A n \in 1..printed : Via(n)' = Via(n)
    BY <2>1 DEF Via
  <2> QED
    BY <2>1, <2>4, <2>5, SentKept DEF IInv
<1>2. CASE Start \/ CreateContainer \/ Stop \/ RemoveContainer
  <2>1. /\ UNCHANGED <<printed, errs, sent, cpc, cursor, starts>>
        /\ status' \in {"missing", "exited", "running"}
        /\ turns' \in 0..MaxTurns /\ first' \in {first, printed} /\ due' \in {due, {}}
    BY <1>2 DEF Start, CreateContainer, Stop, RemoveContainer, TypeOK
  <2>2. upto' \in 0..printed
    BY <1>2 DEF Start, CreateContainer, Stop, RemoveContainer, TypeOK
  <2>3. live' \in BOOLEAN
    BY <1>2, Zenon DEF Start, CreateContainer, Stop, RemoveContainer, TypeOK
  <2>4. TypeOK'
    BY <2>1, <2>2, <2>3 DEF TypeOK
  <2>5. \A n \in 1..printed : Via(n)' = Via(n)
    BY <2>1 DEF Via
  <2> QED
    BY <2>1, <2>4, <2>5, SentKept DEF IInv
<1> QED
  BY <1>1, <1>2 DEF Container

-----------------------------------------------------------------------------
(* The steps of the session. *)
LEMMA HistoryStep ==
  ASSUME TypeOK, SentBelow, NoDuplication, SendHistory
  PROVE  IInv'
<1> DEFINE from == IF printed - first > TailSize THEN printed - TailSize ELSE first
<1>1. from \in Nat /\ printed \in Nat /\ from <= printed
  BY OutputAssumption DEF TypeOK
<1>2. sent' \in {<<>>, Lines(from, printed)} /\ cpc' = "check"
      /\ UNCHANGED <<container, follower, due>>
  BY DEF SendHistory
<1> HIDE DEF from
<1> DEFINE run == Lines(from, printed)
<1>0. /\ run \in Seq(1..printed) /\ Len(run) = printed - from
      /\ \A i \in 1..(printed - from) : run[i] = from + i
  BY <1>1, LinesRun
<1>6. sent' = <<>> \/ sent' = run
  BY <1>2
<1> HIDE DEF run
<1>3. sent' \in Seq(1..printed)
  <2>1. <<>> \in Seq(1..printed)
    OBVIOUS
  <2> QED
    BY <1>0, <1>6, <2>1
<1>4. TypeOK'
  BY <1>2, <1>3 DEF TypeOK, container, follower
<1>5. NoDuplication'
  <2>1. \A i, j \in 1..Len(sent') : i < j => sent'[i] < sent'[j]
    <3>1. CASE sent' = <<>>
      BY <3>1
    <3>2. CASE sent' = run
      <4> SUFFICES ASSUME NEW i \in 1..(printed - from), NEW j \in 1..(printed - from), i < j
                   PROVE  run[i] < run[j]
        BY <1>0, <3>2
      <4>1. run[i] = from + i /\ run[j] = from + j
        BY <1>0
      <4> QED
        BY <1>1, <4>1
    <3> QED
      BY <1>6, <3>1, <3>2
  <2> QED
    BY <2>1 DEF NoDuplication
<1> QED
  BY <1>2, <1>4, <1>5 DEF IInv, SentBelow

LEMMA AttachStep ==
  ASSUME TypeOK, SentBelow, NoDuplication, Attach
  PROVE  IInv'
<1>1. UNCHANGED <<status, first, printed, errs, turns, upto, sent, due>>
  BY DEF Attach, AttachAt, container
<1>2. \A i \in 1..Len(sent) : sent[i] \in 1..printed /\ Via(sent[i])' = Via(sent[i])
  BY <1>1, ElementOfSeq DEF TypeOK, Via
<1>3. CASE status = "running"
  <2>1. /\ cursor' = [s \in Streams |-> printed] /\ starts' = starts \cup {printed}
        /\ live' = TRUE /\ cpc' = "follow"
    BY <1>3 DEF Attach, AttachAt
  <2>2. TypeOK'
    BY <1>1, <2>1 DEF TypeOK
  <2>3. \A i \in 1..Len(sent) : Via(sent[i]) \in Streams /\ sent[i] <= printed
    BY <1>2 DEF Via, Streams, TypeOK
  <2>4. SentBelow'
    BY <1>1, <1>2, <2>1, <2>3 DEF SentBelow, TypeOK
  <2>5. NoDuplication'
    <3> SUFFICES ASSUME NEW i \in 1..Len(sent), NEW j \in 1..Len(sent), i < j,
                        ~(sent[i] < sent[j])
                 PROVE  /\ Via(sent[i]) # Via(sent[j])
                        /\ \A at \in starts' : ~(sent[j] <= at /\ at < sent[i])
      BY <1>1, <1>2 DEF NoDuplication
    <3>1. ~(sent[j] <= printed /\ printed < sent[i])
      BY <1>2 DEF TypeOK
    <3> QED
      BY <2>1, <3>1 DEF NoDuplication
  <2> QED
    BY <2>2, <2>4, <2>5 DEF IInv
<1>4. CASE status # "running"
  <2>1. cpc' = "check" /\ UNCHANGED <<cursor, starts, live>>
    BY <1>4 DEF Attach, AttachAt
  <2>2. TypeOK'
    BY <1>1, <2>1 DEF TypeOK
  <2>3. NoDuplication'
    BY <1>1, <1>2, <2>1 DEF NoDuplication
  <2> QED
    BY <2>1, <2>2, <2>3 DEF IInv, SentBelow
<1> QED
  BY <1>3, <1>4

(* A line that a copier passes on is later than all it has passed on, and  *)
(* than every attachment so far.                                           *)
LEMMA DeliverStep ==
  ASSUME TypeOK, SentBelow, NoDuplication, NEW s \in Streams, Deliver(s)
  PROVE  IInv'
<1>1. PICK n \in Ahead(s) : sent' = Append(sent, n) /\ cursor' = [cursor EXCEPT ![s] = n]
  BY DEF Deliver
<1>2. /\ UNCHANGED <<status, first, printed, errs, turns, cpc, live, upto, starts, due>>
      /\ cpc = "follow"
  BY DEF Deliver, container
<1>3. /\ n \in 1..printed /\ Via(n) = s /\ cursor[s] < n
      /\ cursor[s] \in 0..printed /\ printed \in Nat
  BY <1>1 DEF Ahead, ToHand, TypeOK
<1>4. /\ sent' \in Seq(1..printed) /\ Len(sent') = Len(sent) + 1 /\ Len(sent) \in Nat
      /\ sent'[Len(sent) + 1] = n
      /\ \A i \in 1..Len(sent) : sent'[i] = sent[i] /\ sent[i] \in 1..printed
  BY <1>1, <1>3, AppendProperties, ElementOfSeq DEF TypeOK
<1>5. cursor' \in [Streams -> 0..printed]
  BY <1>1, <1>3 DEF TypeOK
<1>6. TypeOK'
  BY <1>2, <1>4, <1>5 DEF TypeOK
<1>7. \A m : Via(m)' = Via(m)
  BY <1>2 DEF Via
<1>8. /\ \A t \in Streams : cursor'[t] = IF t = s THEN n ELSE cursor[t]
      /\ \A i \in 1..Len(sent) : sent[i] <= cursor[Via(sent[i])]
      /\ \A at \in starts, t \in Streams : at <= cursor[t]
  BY <1>1, <1>2 DEF SentBelow, TypeOK
<1>9. SentBelow'
  <2>1. ASSUME NEW i \in 1..Len(sent')
        PROVE  sent'[i] <= cursor'[Via(sent'[i])]
    <3>1. CASE i = Len(sent) + 1
      BY <1>3, <1>4, <1>8, <3>1
    <3>2. CASE i \in 1..Len(sent)
      <4>1. Via(sent[i]) \in Streams /\ cursor[Via(sent[i])] \in 0..printed
        BY DEF Via, Streams, TypeOK
      <4> QED
        BY <1>3, <1>4, <1>8, <3>2, <4>1
    <3> QED
      BY <1>4, <3>1, <3>2
  <2>2. ASSUME NEW at \in starts, NEW t \in Streams PROVE at <= cursor'[t]
    <3>1. at \in 0..printed /\ cursor[t] \in 0..printed
      BY DEF TypeOK
    <3> QED
      BY <1>3, <1>8, <3>1
  <2> QED
    BY <1>2, <1>7, <2>1, <2>2 DEF SentBelow
<1>10. NoDuplication'
  <2> SUFFICES ASSUME NEW i \in 1..Len(sent'), NEW j \in 1..Len(sent'), i < j,
                      ~(sent'[i] < sent'[j])
               PROVE  /\ Via(sent'[i]) # Via(sent'[j])
                      /\ \A at \in starts : ~(sent'[j] <= at /\ at < sent'[i])
    BY <1>2, <1>7 DEF NoDuplication
  <2>1. CASE j \in 1..Len(sent)
    <3>1. i \in 1..Len(sent)
      BY <1>4, <2>1
    <3> QED
      BY <1>4, <2>1, <3>1 DEF NoDuplication
  <2>2. CASE j = Len(sent) + 1
    <3>1. i \in 1..Len(sent) /\ sent'[i] = sent[i] /\ sent'[j] = n /\ n <= sent[i]
      BY <1>3, <1>4, <2>2
    <3>2. Via(sent[i]) # s
      BY <1>3, <1>4, <1>8, <3>1
    <3>3. ASSUME NEW at \in starts PROVE at < n
      <4>1. at \in 0..printed
        BY DEF TypeOK
      <4> QED
        BY <1>3, <1>8, <4>1
    <3>4. \A at \in starts : ~(n <= at)
      <4> SUFFICES ASSUME NEW at \in starts PROVE ~(n <= at)
        OBVIOUS
      <4>1. at \in 0..printed
        BY DEF TypeOK
      <4> QED
        BY <1>3, <3>3, <4>1
    <3> QED
      BY <1>3, <3>1, <3>2, <3>4
  <2> QED
    BY <1>4, <2>1, <2>2
<1> QED
  BY <1>6, <1>9, <1>10 DEF IInv

LEMMA OtherStep ==
  ASSUME TypeOK, SentBelow, NoDuplication,
         \/ CheckRunning \/ WaitOver \/ FollowEnds \/ FollowBreaks
         \/ StreamEnds \/ Disconnect \/ UNCHANGED vars
  PROVE  IInv'
<1> USE DEF container, follower
<1>1. UNCHANGED <<container, follower, sent>>
  BY DEF CheckRunning, WaitOver, FollowEnds, FollowBreaks, StreamEnds,
         Disconnect, vars
<1>2. /\ due' \in {due, {}}
      /\ \/ cpc' = cpc
         \/ cpc' \in {"check", "wait", "attach", "closing", "end"}
  BY DEF CheckRunning, WaitOver, FollowEnds, FollowBreaks, StreamEnds,
         Disconnect, vars
<1>3. TypeOK'
  BY <1>1, <1>2 DEF TypeOK
<1>4. \A m : Via(m)' = Via(m)
  BY <1>1 DEF Via
<1> QED
  BY <1>1, <1>2, <1>3, <1>4 DEF IInv, SentBelow, NoDuplication

-----------------------------------------------------------------------------
(* The invariant behind the theorem below. *)
THEOREM Invariance == Spec => []IInv
<1>1. Init => IInv
  <2> SUFFICES ASSUME Init PROVE IInv
    OBVIOUS
  <2>1. /\ printed \in 0..MaxLines /\ first \in 0..printed /\ errs \subseteq 1..printed
        /\ turns \in 0..MaxTurns /\ upto \in 0..printed /\ cursor \in [Streams -> 0..printed]
    BY OutputAssumption DEF Init
  <2>2. sent \in Seq(1..printed) /\ Len(sent) = 0
    BY DEF Init
  <2>3. TypeOK
    BY <2>1, <2>2 DEF Init, TypeOK
  <2> QED
    BY <2>2, <2>3 DEF Init, IInv, SentBelow, NoDuplication
<1>2. IInv /\ [Next]_vars => IInv'
  BY ContainerStep, HistoryStep, AttachStep, DeliverStep, OtherStep
     DEF IInv, Next, Stream
<1> QED
  BY <1>1, <1>2, PTL DEF Spec

(* The variables of a session's output keep their types
   (router/ws.go:160-180). *)
THEOREM TypeCorrect == Spec => []TypeOK
<1>1. IInv => TypeOK
  BY DEF IInv
<1> QED
  BY <1>1, Invariance, PTL

(* Over the history and all attachments no line reaches the browser twice, *)
(* and after a later one only a line of the other stream that was printed  *)
(* under the same attachment, as the two are copied side by side           *)
(* (docker/server.go:139-147).                                             *)
THEOREM NoDuplicationHolds == Spec => []NoDuplication
<1>1. IInv => NoDuplication
  BY DEF IInv
<1> QED
  BY <1>1, Invariance, PTL

-----------------------------------------------------------------------------
(* The status messages *)

(* streamStats only starts after the first pushStatus has sent.            *)
StatsAfterFirst == rpc \in {"start", "send"} => spc = "off" /\ last = None

(* The read loop only has a status to send after a power action.           *)
PushAfterPower == rpc \in {"push", "resend"} => powers > 0

StatusInv == StatusTypeOK /\ StatsAfterFirst /\ PushAfterPower /\ ShownIsLast

(* Every step keeps the types. *)
LEMMA StatusTypeStep ==
  ASSUME StatusTypeOK, [StatusNext]_statusVars
  PROVE  StatusTypeOK'
<1> USE StatusAssumption DEF StatusTypeOK, States, None, env, reader, stats, AskThen
<1>1. CASE Change
  BY <1>1 DEF Change, PowerOutcomes
<1>2. CASE FirstAsk
  BY <1>2 DEF FirstAsk
<1>3. CASE FirstSend
  BY <1>3 DEF FirstSend
<1>4. CASE DoPower
  BY <1>4 DEF DoPower, PowerOutcomes
<1>5. CASE PushAsk
  BY <1>5 DEF PushAsk
<1>6. CASE PushSend
  BY <1>6 DEF PushSend
<1>7. CASE ReadLoopEnds
  BY <1>7 DEF ReadLoopEnds
<1>8. CASE TickAsk
  BY <1>8 DEF TickAsk
<1>9. CASE Sample \/ TickFails \/ StatsEnd
  BY <1>9 DEF Sample, TickFails, StatsEnd
<1>10. CASE TickSend
  BY <1>10 DEF TickSend
<1>11. CASE UNCHANGED statusVars
  BY <1>11 DEF statusVars
<1> QED
  BY <1>1, <1>2, <1>3, <1>4, <1>5, <1>6, <1>7, <1>8, <1>9, <1>10, <1>11
     DEF StatusNext, Reader, Stats

(* Without a power action the two senders of status messages take turns:   *)
(* first the one pushStatus, then streamStats alone.                       *)
LEMMA SendersStep ==
  ASSUME StatusTypeOK, StatsAfterFirst, PushAfterPower, ShownIsLast, [StatusNext]_statusVars
  PROVE  StatsAfterFirst' /\ PushAfterPower' /\ ShownIsLast'
<1> USE StatusAssumption
    DEF StatusTypeOK, States, None, env, reader, stats, AskThen,
        StatsAfterFirst, PushAfterPower, ShownIsLast
<1>1. CASE Change
  BY <1>1 DEF Change
<1>2. CASE FirstAsk
  BY <1>2 DEF FirstAsk
<1>3. CASE FirstSend
  BY <1>3 DEF FirstSend
<1>4. CASE DoPower
  BY <1>4 DEF DoPower
<1>5. CASE PushAsk
  BY <1>5 DEF PushAsk
<1>6. CASE PushSend
  BY <1>6 DEF PushSend
<1>7. CASE ReadLoopEnds
  BY <1>7 DEF ReadLoopEnds
<1>8. CASE TickAsk
  BY <1>8 DEF TickAsk
<1>9. CASE Sample \/ TickFails \/ StatsEnd
  BY <1>9 DEF Sample, TickFails, StatsEnd
<1>10. CASE TickSend
  BY <1>10 DEF TickSend
<1>11. CASE UNCHANGED statusVars
  BY <1>11 DEF statusVars
<1> QED
  BY <1>1, <1>2, <1>3, <1>4, <1>5, <1>6, <1>7, <1>8, <1>9, <1>10, <1>11
     DEF StatusNext, Reader, Stats

-----------------------------------------------------------------------------
(* The invariant behind the theorems below. *)
THEOREM StatusInvariance == StatusSpec => []StatusInv
<1>1. StatusInit => StatusInv
  BY StatusAssumption DEF StatusInit, StatusInv, StatusTypeOK, States, None,
     StatsAfterFirst, PushAfterPower, ShownIsLast
<1>2. StatusInv /\ [StatusNext]_statusVars => StatusInv'
  BY StatusTypeStep, SendersStep DEF StatusInv
<1> QED
  BY <1>1, <1>2, PTL DEF StatusSpec

(* The variables of a session's status messages keep their types
   (router/ws.go:121-158). *)
THEOREM StatusTypeCorrect == StatusSpec => []StatusTypeOK
<1>1. StatusInv => StatusTypeOK
  BY DEF StatusInv
<1> QED
  BY <1>1, StatusInvariance, PTL

(* In a session that took no power action the last status message is what  *)
(* streamStats remembers in last, whatever it is compared with at the next *)
(* tick (ws.go:83-84, 153-156).                                            *)
THEOREM ShownIsLastHolds == StatusSpec => []ShownIsLast
<1>1. StatusInv => ShownIsLast
  BY DEF StatusInv
<1> QED
  BY <1>1, StatusInvariance, PTL
=============================================================================

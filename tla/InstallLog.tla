----------------------------- MODULE InstallLog -----------------------------
(***************************************************************************)
(* A server's install log and the console session that follows it.        *)
(*                                                                         *)
(* Each install request truncates the one log file of the server and its   *)
(* job then writes through a descriptor of its own, at an offset of its    *)
(* own.  The follower (streamInstallLog) polls: it takes the file's size,  *)
(* reads what lies between its offset and that size, and sends it.  Taking *)
(* the size and reading are separate system calls.                         *)
(*                                                                         *)
(* The file is a sequence of writes: <<j, n>> is the n-th write of job j,  *)
(* Hole the zeros the file system supplies below a write past the end.     *)
(***************************************************************************)
EXTENDS Naturals, Sequences, SequencesExt, FiniteSets

CONSTANTS
  Jobs,        \* install requests for the server
  MaxWrites,   \* bound: writes of one job, its first and last line included
  ReadErrors,  \* opening or seeking the log may fail
  Hole, NoFile

ASSUME LogAssumption ==
  /\ MaxWrites \in Nat \ {0, 1}
  /\ ReadErrors \in BOOLEAN
  /\ Hole \notin Jobs \X (1..MaxWrites)
  /\ NoFile \notin Seq((Jobs \X (1..MaxWrites)) \cup {Hole})

VARIABLES
  file,       \* NoFile, or the writes in the install log
  container,  \* whether docker has a container for the server
  pc,         \* the next step of each job
  wrote,      \* how many writes each job has made
  pos,        \* the offset of each job's descriptor
  fpc,        \* the next step of the follower
  present,    \* the follower's State call did not say "missing"
  offset,     \* the follower's variables offset and size
  size,
  sent,       \* the writes sent to the console, in order
  old,        \* history: what was in the log of an installed server at attach
  overlap,    \* history: jobs that were active beside another one
  attended,   \* history: jobs that began with the follower in its loop
  unseen,     \* history: the log was truncated since the follower's last Stat
  missed      \* history: jobs whose log had regrown past offset by that Stat

jobVars == <<pc, wrote, pos, overlap, attended>>
followVars == <<fpc, present, offset, size, sent, old, missed>>
vars == <<file, container, jobVars, followVars, unseen>>

Writes == Jobs \X (1..MaxWrites)

Inactive == {"idle", "done"}
Active == {j \in Jobs : pc[j] \notin Inactive}

TypeOK ==
  /\ file \in {NoFile} \cup Seq(Writes \cup {Hole})
  /\ container \in BOOLEAN
  /\ pc \in [Jobs -> {"idle", "prepare", "remove", "install", "built", "done"}]
  /\ wrote \in [Jobs -> 0..MaxWrites]
  /\ pos \in [Jobs -> Nat]
  /\ fpc \in {"state", "stat", "tick", "read"}
  /\ present \in BOOLEAN
  /\ offset \in Nat /\ size \in Nat
  /\ sent \in Seq(Writes \cup {Hole})
  /\ old \subseteq Writes \cup {Hole}
  /\ overlap \subseteq Jobs /\ attended \subseteq Jobs /\ missed \subseteq Jobs
  /\ unseen \in BOOLEAN

Init ==
  /\ file = NoFile
  /\ container \in BOOLEAN
  /\ pc = [j \in Jobs |-> "idle"]
  /\ wrote = [j \in Jobs |-> 0]
  /\ pos = [j \in Jobs |-> 0]
  /\ fpc = "state" /\ present = FALSE /\ offset = 0 /\ size = 0
  /\ sent = <<>> /\ old = {}
  /\ overlap = {} /\ attended = {} /\ missed = {} /\ unseen = FALSE

-----------------------------------------------------------------------------
(* The jobs *)

Following == fpc \in {"tick", "read"}

(* os.Create in the request.                                               *)
HandleCreate(j) ==
  /\ pc[j] = "idle"
  /\ file' = <<>>
  /\ pc' = [pc EXCEPT ![j] = "prepare"]
  /\ overlap' = IF Active = {} THEN overlap ELSE overlap \cup Active \cup {j}
  /\ attended' = IF Following THEN attended \cup {j} ELSE attended
  /\ unseen' = TRUE
  /\ UNCHANGED <<container, wrote, pos, followVars>>

(* One write of a job or of the docker child that shares its descriptor.   *)
Write(j) ==
  LET cell(i) == IF i = pos[j] + 1 THEN <<j, wrote[j] + 1>>
                 ELSE IF i <= Len(file) THEN file[i] ELSE Hole
      end == IF pos[j] < Len(file) THEN Len(file) ELSE pos[j] + 1
  IN /\ file' = [i \in 1..end |-> cell(i)]
     /\ pos' = [pos EXCEPT ![j] = @ + 1]
     /\ wrote' = [wrote EXCEPT ![j] = @ + 1]
     /\ UNCHANGED <<overlap, attended, followVars, unseen>>

Step(j, from, to) == pc[j] = from /\ pc' = [pc EXCEPT ![j] = to]

(* "Preparing installation", `docker rm -f`, the steps' output, `docker    *)
(* create`, "Installation complete".                                       *)
Preparing(j) == Step(j, "prepare", "remove") /\ Write(j) /\ UNCHANGED container

(* Mutant: the log is truncated by the job, after its first line.          *)
RemoveOldTruncates(j) ==
  /\ Step(j, "remove", "install")
  /\ container' \in {container, FALSE}
  /\ file' = <<>>
  /\ unseen' = TRUE
  /\ UNCHANGED <<wrote, pos, overlap, attended, followVars>>

RemoveOld(j) ==
  /\ Step(j, "remove", "install")
  /\ container' \in {container, FALSE}
  /\ UNCHANGED <<file, wrote, pos, overlap, attended, followVars, unseen>>

Output(j) ==
  /\ Step(j, "install", "install")
  /\ wrote[j] < MaxWrites - 1
  /\ Write(j)
  /\ UNCHANGED container

Create(j) ==
  /\ Step(j, "install", "built")
  /\ container' = TRUE
  /\ UNCHANGED <<file, wrote, pos, overlap, attended, followVars, unseen>>

Complete(j) == Step(j, "built", "done") /\ Write(j) /\ UNCHANGED container

(* A step failed, its error line being some Output, or the daemon died.    *)
Fail(j) ==
  /\ j \in Active
  /\ pc' = [pc EXCEPT ![j] = "done"]
  /\ UNCHANGED <<file, container, wrote, pos, overlap, attended, followVars,
                 unseen>>

-----------------------------------------------------------------------------
(* streamInstallLog *)

CheckState ==
  /\ fpc = "state"
  /\ fpc' = "stat"
  /\ present' \in {container, TRUE}      \* an error is not "missing" either
  /\ UNCHANGED <<file, container, jobVars, offset, size, sent, old, missed,
                 unseen>>

(* Mutant: the log of an installed server is not skipped.                  *)
SkipExistingNot ==
  /\ fpc = "stat"
  /\ fpc' = "tick"
  /\ old' = IF present /\ file # NoFile THEN ToSet(file) ELSE {}
  /\ UNCHANGED <<file, container, jobVars, present, offset, size, sent, missed,
                 unseen>>

SkipExisting ==
  /\ fpc = "stat"
  /\ fpc' = "tick"
  /\ IF present /\ file # NoFile
     THEN offset' = Len(file) /\ old' = ToSet(file)
     ELSE UNCHANGED <<offset, old>>
  /\ unseen' = FALSE
  /\ UNCHANGED <<file, container, jobVars, present, size, sent, missed>>

(* The jobs whose log is in the file.                                      *)
Owners == {j \in Jobs : file # NoFile /\ \E n \in 1..wrote[j] :
                          <<j, n>> \in ToSet(file)}

(* At a Stat after a truncation that finds the file no shorter than offset *)
(* the follower cannot tell the new log from the old one.                  *)
Noticing ==
  /\ missed' = IF unseen /\ offset > 0 /\ Len(file) >= offset
               THEN missed \cup Owners ELSE missed
  /\ unseen' = FALSE

(* Mutant: a shorter file does not put the follower back to its start.     *)
TickNoReset ==
  /\ fpc = "tick"
  /\ file # NoFile
  /\ Noticing
  /\ size' = Len(file)
  /\ fpc' = IF Len(file) <= offset THEN "tick" ELSE "read"
  /\ UNCHANGED <<file, container, jobVars, present, offset, sent, old>>

(* The tick up to the size comparison.  An error of Stat skips the tick.   *)
Tick ==
  /\ fpc = "tick"
  /\ file # NoFile
  /\ Noticing
  /\ size' = Len(file)
  /\ LET from == IF Len(file) < offset THEN 0 ELSE offset
     IN offset' = from /\ fpc' = IF Len(file) = from THEN "tick" ELSE "read"
  /\ UNCHANGED <<file, container, jobVars, present, sent, old>>

(* readChunk returns what is between off and off + n by now, nil on error. *)
Chunk(off, n) ==
  SubSeq(file, off + 1, IF off + n <= Len(file) THEN off + n ELSE Len(file))

(* Mutant: the offset goes to the size the file has after the read.        *)
ReadToEnd ==
  /\ fpc = "read"
  /\ fpc' = "tick"
  /\ sent' = sent \o Chunk(offset, size - offset)
  /\ offset' = Len(file)
  /\ UNCHANGED <<file, container, jobVars, present, size, old, missed, unseen>>

(* Whatever readChunk returned, the follower goes on at size.              *)
Read ==
  /\ fpc = "read"
  /\ fpc' = "tick"
  /\ \/ sent' = sent \o Chunk(offset, size - offset)
     \/ ReadErrors /\ UNCHANGED sent
  /\ offset' = size
  /\ UNCHANGED <<file, container, jobVars, present, size, old, missed, unseen>>

JobStep(j) ==
  \/ HandleCreate(j) \/ Preparing(j) \/ RemoveOld(j) \/ Output(j) \/ Create(j)
  \/ Complete(j) \/ Fail(j)

Next ==
  \/ \E j \in Jobs : JobStep(j)
  \/ CheckState \/ SkipExisting \/ Tick \/ Read

(* The follower's ticker fires as long as the session is open.  Nothing is *)
(* assumed of the jobs.                                                    *)
Fairness == WF_vars(Tick) /\ WF_vars(Read)

Spec == Init /\ [][Next]_vars
FairSpec == Spec /\ Fairness

-----------------------------------------------------------------------------
(* Safety *)

(* With the follower waiting for its next tick and no truncation behind    *)
(* it, the console ends with exactly the part of the log below offset,     *)
(* when the log's install began with the follower watching, ran alone and  *)
(* was not mistaken for the one before (ws.go:203-217).                    *)
InStep ==
  fpc = "tick" /\ ~unseen /\ overlap = {} =>
    \A j \in Owners \cap attended :
      j \notin missed => IsSuffix(SubSeq(file, 1, offset), sent)

(* "On an already-installed server the existing log is skipped": nothing   *)
(* that was in it when the follower came is ever sent (ws.go:184-185).     *)
OldSkipped == ToSet(sent) \cap (old \ {Hole}) = {}

(* The console shows zero bytes no install wrote only when one install     *)
(* truncated the log under another one's descriptor (server.go:37).        *)
HolesNeedOverlap == Hole \in ToSet(sent) => overlap # {}

-----------------------------------------------------------------------------
(* Liveness *)

Delivered(j) == \A n \in 1..wrote[j] : <<j, n>> \in ToSet(sent)

(* The log of j has made room for that of another install.                 *)
Cut(j) == j \notin Owners

(* "a fresh (re)install truncates the file and is streamed whole": so are  *)
(* the installs that run alone and whose log stays, but for those whose    *)
(* log was already as long as the one it replaced when the follower next   *)
(* looked (ws.go:184-185, 208-213).                                        *)
StreamedIfNoticed ==
  \A j \in Jobs :
    pc[j] = "done" /\ j \in attended ~>
      Delivered(j) \/ Cut(j) \/ j \in overlap \cup missed
=============================================================================

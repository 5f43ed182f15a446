--------------------------- MODULE InstallService ---------------------------
(***************************************************************************)
(* What the installs of one server promise the panel, whatever files,      *)
(* child processes and installer containers it takes: who may change the   *)
(* server and when, and what "ready to start" in the log means.            *)
(***************************************************************************)
CONSTANT Jobs

VARIABLES
  phase,   \* how far each job is
  server,  \* the job that built the server there is, or "none"; one from
           \* before is nobody's
  ready    \* jobs that the install log says have completed

vars == <<phase, server, ready>>

Running == {"working", "built", "ending"}

Init ==
  /\ phase = [j \in Jobs |-> "idle"]
  /\ server \notin Jobs
  /\ ready = {}

Enter(j, from, to) == phase[j] = from /\ phase' = [phase EXCEPT ![j] = to]

Reject(j) == Enter(j, "idle", "rejected") /\ UNCHANGED <<server, ready>>

(* A job that is accepted takes back what the log said of those before.    *)
Accept(j) == Enter(j, "idle", "working") /\ ready' = {} /\ UNCHANGED server

(* Only a job at work takes the server away, and it may fail just then.    *)
Remove(j) ==
  /\ Enter(j, "working", "working") \/ Enter(j, "working", "ending")
  /\ server' = "none"
  /\ UNCHANGED ready

(* It builds its own in the place of none, and may fail just then.         *)
Build(j) ==
  /\ Enter(j, "working", "built") \/ Enter(j, "working", "ending")
  /\ server = "none" /\ server' = j
  /\ UNCHANGED ready

GiveUp(j) == Enter(j, "working", "ending") /\ UNCHANGED <<server, ready>>

(* It calls ready only what it has built, and once.                        *)
Announce(j) ==
  /\ Enter(j, "built", "ending")
  /\ ready' = ready \cup {j}
  /\ UNCHANGED server

Finish(j) == Enter(j, "ending", "ended") /\ UNCHANGED <<server, ready>>

(* The daemon ends, and with it every job, where they are.                 *)
Stop ==
  /\ phase' = [j \in Jobs |-> IF phase[j] \in Running THEN "ended" ELSE phase[j]]
  /\ UNCHANGED <<server, ready>>

JobStep(j) == Remove(j) \/ Build(j) \/ GiveUp(j) \/ Announce(j) \/ Finish(j)

Next == Stop \/ \E j \in Jobs : Reject(j) \/ Accept(j) \/ JobStep(j)

Spec == Init /\ [][Next]_vars

(* Every job that was accepted comes to its end.                           *)
Ends == \A j \in Jobs : phase[j] \in Running ~> phase[j] = "ended"
=============================================================================

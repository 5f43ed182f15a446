--------------------------- MODULE ServerInstall ---------------------------
(***************************************************************************)
(* Installing, reinstalling and powering one game server.                  *)
(*                                                                         *)
(* POST /api/servers/{uuid} starts a goroutine that runs                   *)
(* docker.Client.Install; nothing keeps a second request for the same uuid *)
(* from starting a second one.  Everything a job touches is named after    *)
(* the uuid, so the jobs of one server share its container, its install    *)
(* log, its volume and its install-script file, and jobs of different      *)
(* servers share nothing: one server, any number of jobs.                  *)
(*                                                                         *)
(* Each action is one step between two points where another goroutine, the *)
(* engine or the panel can get in: a `docker` child process, or a file     *)
(* operation on a shared path.  A docker step that fails also stands for   *)
(* the job's 15-minute context running out, which kills the child.         *)
(***************************************************************************)
EXTENDS Docker, FiniteSets

CONSTANTS
  Jobs,       \* install requests, each with its own CreateSpec
  Scripted,   \* those whose egg has an install script
  SharedTmp,  \* the daemon's temp dir is the engine's (FALSE: in a container)
  RootDaemon  \* the daemon may remove a directory the engine made in it

NoScript == {"absent", "partial", "dir"}

ASSUME JobsAssumption ==
  /\ Scripted \subseteq Jobs
  /\ NoSpec \notin Jobs
  /\ Jobs \cap (NoScript \cup {"none"}) = {}
  /\ SharedTmp \in BOOLEAN
  /\ RootDaemon \in BOOLEAN

VARIABLES
  container,   \* the container <prefix>.<uuid>
  script,      \* the file <tmp>/<prefix>.<uuid>.install: a job's script, or
               \* absent, cut short by a failed write, or a directory
  log,         \* jobs whose "Installation complete" line is in the install log
  pc,          \* the next step of each job
  armed,       \* jobs with `defer os.Remove(scriptPath)` pending
  installers,  \* jobs whose installer container is running
  ran,         \* what each job's installer got as /mnt/install.sh (history)
  installed,   \* jobs whose installer exited 0 (history)
  cleared,     \* jobs whose first `docker rm -f` succeeded (history)
  overlap      \* jobs that were active beside another job (history)

vars == <<container, script, log, pc, armed, installers, ran, installed,
          cleared, overlap>>

Inactive == {"idle", "rejected", "done", "killed"}
Working == {"prepare", "pullInstaller", "writeScript", "runInstaller",
            "installing", "pullImage", "recreate", "create", "stamp", "return"}

Active == {j \in Jobs : pc[j] \in Working}

TypeOK ==
  /\ container \in [status : Status, spec : Jobs \cup {NoSpec}]
  /\ script \in Jobs \cup NoScript
  /\ log \subseteq Jobs
  /\ pc \in [Jobs -> Inactive \cup Working]
  /\ armed \subseteq Jobs
  /\ installers \subseteq Jobs
  /\ ran \in [Jobs -> Jobs \cup NoScript \cup {"none"}]
  /\ installed \subseteq Jobs
  /\ cleared \subseteq Jobs
  /\ overlap \subseteq Jobs

(* The daemon comes up next to whatever an earlier run left: no container, *)
(* or one built from a spec this run never sees.                           *)
Init ==
  /\ container \in [status : Status, spec : {NoSpec}]
  /\ script = "absent"
  /\ log = {}
  /\ pc = [j \in Jobs |-> "idle"]
  /\ armed = {}
  /\ installers = {}
  /\ ran = [j \in Jobs |-> "none"]
  /\ installed = {}
  /\ cleared = {}
  /\ overlap = {}

Goto(j, step) == pc' = [pc EXCEPT ![j] = step]

-----------------------------------------------------------------------------
(* handleCreate *)

(* Invalid JSON, no image, or the log cannot be created.                   *)
RejectCreate(j) ==
  /\ pc[j] = "idle"
  /\ Goto(j, "rejected")
  /\ UNCHANGED <<container, script, log, armed, installers, ran, installed,
                 cleared, overlap>>

(* Mutant: the log opened for appending.                                   *)
HandleCreateAppends(j) ==
  /\ pc[j] = "idle"
  /\ Goto(j, "prepare")
  /\ overlap' = IF Active = {} THEN overlap ELSE overlap \cup Active \cup {j}
  /\ UNCHANGED <<container, script, log, armed, installers, ran, installed,
                 cleared>>

(* os.Create truncates the server's install log in the request, before the *)
(* goroutine starts and whoever else is writing it.                        *)
HandleCreate(j) ==
  /\ pc[j] = "idle"
  /\ Goto(j, "prepare")
  /\ log' = {}
  /\ overlap' = IF Active = {} THEN overlap ELSE overlap \cup Active \cup {j}
  /\ UNCHANGED <<container, script, armed, installers, ran, installed, cleared>>

-----------------------------------------------------------------------------
(* docker.Client.Install *)

(* Mutant: the old container is stopped, not removed.                      *)
ForceRemoveStops(j, next, done) ==
  /\ container' = Stopped(container)
  /\ done
  /\ Goto(j, next)
  /\ UNCHANGED <<script, log, armed, installers, ran, installed, overlap>>

(* `docker rm -f`, its error dropped, then MkdirAll on the volume.         *)
ForceRemove(j, next, done) ==
  /\ \/ /\ container' = Missing
        /\ done
     \/ UNCHANGED <<container, cleared>>
  /\ \/ Goto(j, next)
     \/ Goto(j, "return")
  /\ UNCHANGED <<script, log, armed, installers, ran, installed, overlap>>

Prepare(j) ==
  /\ pc[j] = "prepare"
  /\ ForceRemove(j, IF j \in Scripted THEN "pullInstaller" ELSE "pullImage",
                 cleared' = cleared \cup {j})

(* The two `docker pull` steps: they change nothing the jobs share.        *)
PullInstaller(j) ==
  pc[j] = "pullInstaller" /\ (Goto(j, "writeScript") \/ Goto(j, "return"))

PullImage(j) ==
  pc[j] = "pullImage" /\ (Goto(j, "recreate") \/ Goto(j, "return"))

Pull(j) ==
  /\ PullInstaller(j) \/ PullImage(j)
  /\ UNCHANGED <<container, script, log, armed, installers, ran, installed,
                 cleared, overlap>>

(* Mutant: the removal is not deferred, it runs at once.                   *)
WriteScriptRemoved(j) ==
  /\ pc[j] = "writeScript"
  /\ script # "dir"
  /\ script' = "absent"
  /\ Goto(j, "runInstaller")
  /\ UNCHANGED <<container, log, armed, installers, ran, installed, cleared,
                 overlap>>

(* os.WriteFile; the deferred removal is only registered when it succeeds. *)
WriteScript(j) ==
  /\ pc[j] = "writeScript"
  /\ \/ /\ script # "dir"
        /\ script' = j
        /\ armed' = armed \cup {j}
        /\ Goto(j, "runInstaller")
     \/ /\ script' \in {script, IF script = "dir" THEN "dir" ELSE "partial"}
        /\ UNCHANGED armed
        /\ Goto(j, "return")
  /\ UNCHANGED <<container, log, installers, ran, installed, cleared, overlap>>

(* `docker run -v scriptPath:/mnt/install.sh`: the engine resolves the path *)
(* on its own host and makes a directory of a path that is not there.       *)
Mounted ==
  IF SharedTmp /\ script # "absent" THEN script ELSE "dir"

AfterMount == IF SharedTmp THEN Mounted ELSE script

RunInstaller(j) ==
  /\ pc[j] = "runInstaller"
  /\ \/ /\ script' = AfterMount
        /\ ran' = [ran EXCEPT ![j] = Mounted]
        /\ installers' = installers \cup {j}
        /\ Goto(j, "installing")
     \/ /\ script' \in {script, AfterMount}
        /\ UNCHANGED <<ran, installers>>
        /\ Goto(j, "return")
  /\ UNCHANGED <<container, log, armed, installed, cleared, overlap>>

(* Mutant: the exit code of `docker run` is not looked at.                 *)
InstallerExitDropped(j) ==
  /\ j \in installers
  /\ installers' = installers \ {j}
  /\ IF pc[j] = "installing" THEN Goto(j, "pullImage") ELSE UNCHANGED pc
  /\ UNCHANGED <<container, script, log, armed, ran, installed, cleared,
                 overlap>>

(* The installer container ends and the waiting job, if it still waits,    *)
(* learns the exit code.  A directory is not a script a shell can run.     *)
InstallerExits(j) ==
  /\ j \in installers
  /\ installers' = installers \ {j}
  /\ \/ pc[j] = "installing" /\ ran[j] # "dir" /\ Goto(j, "pullImage")
        /\ installed' = installed \cup {j}
     \/ pc[j] = "installing" /\ Goto(j, "return") /\ UNCHANGED installed
     \/ pc[j] # "installing" /\ UNCHANGED <<pc, installed>>
  /\ UNCHANGED <<container, script, log, armed, ran, cleared, overlap>>

(* The context runs out: the CLI is killed, the container it ran is not.   *)
InstallerTimeout(j) ==
  /\ pc[j] = "installing"
  /\ Goto(j, "return")
  /\ UNCHANGED <<container, script, log, armed, installers, ran, installed,
                 cleared, overlap>>

-----------------------------------------------------------------------------
(* docker.Client.Create and the end of Install *)

Recreate(j) ==
  /\ pc[j] = "recreate"
  /\ ForceRemove(j, "create", UNCHANGED cleared)

(* Mutant: the error of `docker create` is not looked at.                  *)
DockerCreateDropped(j) ==
  /\ pc[j] = "create"
  /\ container' \in {container, IF Exists(container) THEN container ELSE Built(j)}
  /\ Goto(j, "stamp")
  /\ UNCHANGED <<script, log, armed, installers, ran, installed, cleared,
                 overlap>>

(* The engine refuses a name that is taken.  A killed CLI may have got its *)
(* container built all the same.                                           *)
DockerCreate(j) ==
  /\ pc[j] = "create"
  /\ \/ ~Exists(container) /\ container' = Built(j) /\ Goto(j, "stamp")
     \/ ~Exists(container) /\ container' = Built(j) /\ Goto(j, "return")
     \/ UNCHANGED container /\ Goto(j, "return")
  /\ UNCHANGED <<script, log, armed, installers, ran, installed, cleared,
                 overlap>>

(* "Installation complete -- the server is ready to start"                 *)
Stamp(j) ==
  /\ pc[j] = "stamp"
  /\ log' = log \cup {j}
  /\ Goto(j, "return")
  /\ UNCHANGED <<container, script, armed, installers, ran, installed,
                 cleared, overlap>>

(* os.Remove(scriptPath), deferred: whatever is at the path by now.        *)
Unlinked ==
  IF script = "dir" /\ ~RootDaemon THEN "dir" ELSE "absent"

(* Mutant: without the defer.                                              *)
ReturnKeepsScript(j) ==
  /\ pc[j] = "return"
  /\ armed' = armed \ {j}
  /\ Goto(j, "done")
  /\ UNCHANGED <<container, script, log, installers, ran, installed, cleared,
                 overlap>>

Return(j) ==
  /\ pc[j] = "return"
  /\ script' = IF j \in armed THEN Unlinked ELSE script
  /\ armed' = armed \ {j}
  /\ Goto(j, "done")
  /\ UNCHANGED <<container, log, installers, ran, installed, cleared, overlap>>

-----------------------------------------------------------------------------
(* Power actions, the game server itself, and the daemon's end *)

(* handlePower and doPower: `docker start|stop|restart`; one that fails,   *)
(* as all do without a container, changes nothing.                         *)
Power ==
  /\ Exists(container)
  /\ container' \in {Started(container), Stopped(container)}
  /\ UNCHANGED <<script, log, pc, armed, installers, ran, installed, cleared,
                 overlap>>

ServerExits ==
  /\ container.status = "running"
  /\ container' = Stopped(container)
  /\ UNCHANGED <<script, log, pc, armed, installers, ran, installed, cleared,
                 overlap>>

(* A crash, or main returning after Shutdown, which waits for requests but *)
(* not for install goroutines: their deferred calls never run, the engine  *)
(* keeps what it runs, and nothing resumes them when the daemon is back.   *)
DaemonStops ==
  /\ Active # {}
  /\ pc' = [j \in Jobs |-> IF j \in Active THEN "killed" ELSE pc[j]]
  /\ armed' = {}
  /\ UNCHANGED <<container, script, log, installers, ran, installed, cleared,
                 overlap>>

(* Mutant: context.Background() without the timeout.                       *)
JobStepUnbounded(j) ==
  \/ Prepare(j) \/ Pull(j) \/ WriteScript(j) \/ RunInstaller(j)
  \/ Recreate(j) \/ DockerCreate(j) \/ Stamp(j) \/ Return(j)

JobStep(j) ==
  \/ Prepare(j) \/ Pull(j) \/ WriteScript(j) \/ RunInstaller(j)
  \/ InstallerTimeout(j) \/ Recreate(j) \/ DockerCreate(j) \/ Stamp(j)
  \/ Return(j)

Next ==
  \/ \E j \in Jobs :
       RejectCreate(j) \/ HandleCreate(j) \/ JobStep(j) \/ InstallerExits(j)
  \/ Power \/ ServerExits \/ DaemonStops

(* A job's goroutine is scheduled while the daemon lives, and its context  *)
(* bounds every child it waits for.  Nothing makes an installer exit.      *)
Fairness == \A j \in Jobs : WF_vars(JobStep(j))

Spec == Init /\ [][Next]_vars
FairSpec == Spec /\ Fairness

-----------------------------------------------------------------------------
(* Safety *)

(* Two jobs active together both know overlap: the history is complete.    *)
OverlapSound ==
  \A j, k \in Active : j # k => j \in overlap

(* A job that never ran beside another one and whose completion line is in *)
(* the install log has left the container it built, whatever power actions *)
(* and restarts came after (install.go:86-94).                             *)
SoloReady ==
  \A j \in log \ overlap : Exists(container) /\ container.spec = j

(* Whatever else runs, a container built for a scripted job stands on an   *)
(* installer that exited 0 and that had a script to run (install.go:73-92). *)
BuiltOnInstalled ==
  \A j \in Scripted :
    Exists(container) /\ container.spec = j =>
      j \in installed /\ ran[j] \notin {"none", "dir"}

(* While a job waits for its installer to write the volume, the server is  *)
(* not running on that volume: unless the jobs overlapped, or the removal  *)
(* whose error Install drops had failed (install.go:25, 73).               *)
VolumeExclusive ==
  \A j \in installers :
    pc[j] = "installing" /\ j \in cleared \ overlap =>
      container.status # "running"

(* The install script on disk always has a job that is going to remove it, *)
(* unless the daemon died under one or may not remove what it finds there  *)
(* (install.go:54-58).                                                     *)
ScriptCovered ==
  script \in Jobs \cup {"dir"} =>
    \/ armed # {}
    \/ \E j \in Jobs : pc[j] = "killed"
    \/ script = "dir" /\ ~RootDaemon

(* The path only ever turns into a directory, on which every later install *)
(* of the server fails, when jobs overlapped.                              *)
DirNeedsOverlap == SharedTmp /\ script = "dir" => overlap # {}

(* The installer a job starts is given the job's own script, when the job  *)
(* has the server to itself (install.go:54-64).                            *)
OwnScript ==
  \A j \in Jobs \ overlap : ran[j] \in {"none", j}

-----------------------------------------------------------------------------
(* What the panel is promised *)

Phase(step) ==
  CASE step \in {"idle", "rejected"} -> step
    [] step \in {"done", "killed"} -> "ended"
    [] step = "stamp" -> "built"
    [] step = "return" -> "ending"
    [] OTHER -> "working"

Phases == [j \in Jobs |-> Phase(pc[j])]

Server == IF Exists(container) THEN container.spec ELSE "none"

Service == INSTANCE InstallService WITH
  phase <- Phases, server <- Server, ready <- log

(* The steps of the installs, with every failure, overlap, power action    *)
(* and restart among them, do no more to the server and to what its log    *)
(* says than InstallService allows (router/server.go:17-59).               *)
ImplementsService == Service!Spec

(* Every install the daemon accepted ends, hung scripts included, or dies  *)
(* with the daemon (router/server.go:46-56).                               *)
InstallEnds == Service!Ends
=============================================================================

------------------------ MODULE ServerInstallProofs ------------------------
(* Proofs about ServerInstall for any set of install jobs. *)
EXTENDS ServerInstall, TLAPS

-----------------------------------------------------------------------------
(* The inductive invariant: TypeOK, the properties proved, and what each   *)
(* of them needs to know about the steps a job has behind it.              *)

(* A job that finished alone is still the last to have been active.        *)
LogAlone ==
  \A j \in log \ overlap :
    Active \subseteq {j} /\ pc[j] \in {"return", "done", "killed"}

(* SoloReady, from the moment the container is built.                      *)
Ready ==
  \A j \in Jobs \ overlap :
    pc[j] = "stamp" \/ j \in log => Exists(container) /\ container.spec = j

(* A job about to start its installer has the removal of the script armed, *)
(* and, alone, finds its own script.                                       *)
ScriptReady ==
  \A j \in Jobs :
    pc[j] = "runInstaller" =>
      j \in armed /\ (j \notin overlap => script = j)

(* A scripted job past its installer had one that exited 0.                *)
PastInstaller ==
  \A j \in Scripted :
    /\ pc[j] = "installing" => ran[j] # "none"
    /\ pc[j] \in {"pullImage", "recreate", "create", "stamp"} =>
         j \in installed /\ ran[j] \notin {"none", "dir"}

(* Only scripted jobs write a script and run an installer.                 *)
OnlyScripted ==
  \A j \in Jobs \ Scripted :
    pc[j] \notin {"pullInstaller", "writeScript", "runInstaller", "installing"}

(* A container there is belongs to a job that is past building it.         *)
BuiltBefore ==
  \A j \in Jobs :
    Exists(container) /\ container.spec = j =>
      pc[j] \in {"stamp", "return", "done", "killed"}

(* A lone job that cleared the server finds it cleared until it builds.    *)
ClearedStays ==
  \A j \in Jobs :
    /\ j \in cleared => pc[j] \notin {"idle", "prepare"}
    /\ pc[j] \in {"pullInstaller", "writeScript", "runInstaller", "installing"}
         /\ j \in cleared \ overlap => container.status = "missing"

(* OwnScript, where the daemon and the engine share the temp directory.    *)
OwnScriptIfShared == SharedTmp => OwnScript

IInv ==
  /\ TypeOK
  /\ OverlapSound
  /\ LogAlone
  /\ Ready
  /\ ScriptReady
  /\ PastInstaller
  /\ OnlyScripted
  /\ BuiltBefore
  /\ BuiltOnInstalled
  /\ ClearedStays
  /\ ScriptCovered
  /\ DirNeedsOverlap
  /\ OwnScriptIfShared

(* Every step keeps the types. *)
LEMMA TypeStep ==
  ASSUME TypeOK,
         [Next]_vars
  PROVE  TypeOK'
<1> USE JobsAssumption
        DEF TypeOK, Goto, Inactive, Working, Active, Status, NoScript, Missing, Built, Exists, Started, Stopped, Mounted, AfterMount, Unlinked
<1>1. ASSUME NEW j \in Jobs, RejectCreate(j) PROVE TypeOK'
  BY <1>1 DEF RejectCreate
<1>2. ASSUME NEW j \in Jobs, HandleCreate(j) PROVE TypeOK'
  BY <1>2 DEF HandleCreate
<1>3. ASSUME NEW j \in Jobs, Prepare(j) PROVE TypeOK'
  BY <1>3 DEF Prepare, ForceRemove
<1>4. ASSUME NEW j \in Jobs, Pull(j) PROVE TypeOK'
  BY <1>4 DEF Pull, PullInstaller, PullImage
<1>5. ASSUME NEW j \in Jobs, WriteScript(j) PROVE TypeOK'
  BY <1>5 DEF WriteScript
<1>6. ASSUME NEW j \in Jobs, RunInstaller(j) PROVE TypeOK'
  BY <1>6 DEF RunInstaller
<1>7. ASSUME NEW j \in Jobs, InstallerTimeout(j) PROVE TypeOK'
  BY <1>7 DEF InstallerTimeout
<1>8. ASSUME NEW j \in Jobs, Recreate(j) PROVE TypeOK'
  BY <1>8 DEF Recreate, ForceRemove
<1>9. ASSUME NEW j \in Jobs, DockerCreate(j) PROVE TypeOK'
  BY <1>9 DEF DockerCreate
<1>10. ASSUME NEW j \in Jobs, Stamp(j) PROVE TypeOK'
  BY <1>10 DEF Stamp
<1>11. ASSUME NEW j \in Jobs, Return(j) PROVE TypeOK'
  BY <1>11 DEF Return
<1>12. ASSUME NEW j \in Jobs, InstallerExits(j) PROVE TypeOK'
  BY <1>12 DEF InstallerExits
<1>13. CASE Power
  BY <1>13 DEF Power
<1>14. CASE ServerExits
  BY <1>14 DEF ServerExits
<1>15. CASE DaemonStops
  BY <1>15 DEF DaemonStops
<1>16. CASE UNCHANGED vars
  BY <1>16 DEF vars
<1> QED
  BY <1>1, <1>2, <1>3, <1>4, <1>5, <1>6, <1>7, <1>8, <1>9, <1>10, <1>11, <1>12, <1>13, <1>14, <1>15, <1>16 DEF Next, JobStep

(* A job that starts beside an active one puts both into overlap; the     *)
(* other steps make no job active.                                         *)
LEMMA OverlapStep ==
  ASSUME TypeOK, OverlapSound,
         [Next]_vars
  PROVE  OverlapSound'
<1> USE JobsAssumption
        DEF TypeOK, Goto, Inactive, Working, Active, OverlapSound
<1>1. ASSUME NEW j \in Jobs, RejectCreate(j) PROVE OverlapSound'
  BY <1>1 DEF RejectCreate
<1>2. ASSUME NEW j \in Jobs, HandleCreate(j) PROVE OverlapSound'
  BY <1>2 DEF HandleCreate
<1>3. ASSUME NEW j \in Jobs, Prepare(j) PROVE OverlapSound'
  BY <1>3 DEF Prepare, ForceRemove
<1>4. ASSUME NEW j \in Jobs, Pull(j) PROVE OverlapSound'
  BY <1>4 DEF Pull, PullInstaller, PullImage
<1>5. ASSUME NEW j \in Jobs, WriteScript(j) PROVE OverlapSound'
  BY <1>5 DEF WriteScript
<1>6. ASSUME NEW j \in Jobs, RunInstaller(j) PROVE OverlapSound'
  BY <1>6 DEF RunInstaller
<1>7. ASSUME NEW j \in Jobs, InstallerTimeout(j) PROVE OverlapSound'
  BY <1>7 DEF InstallerTimeout
<1>8. ASSUME NEW j \in Jobs, Recreate(j) PROVE OverlapSound'
  BY <1>8 DEF Recreate, ForceRemove
<1>9. ASSUME NEW j \in Jobs, DockerCreate(j) PROVE OverlapSound'
  BY <1>9 DEF DockerCreate
<1>10. ASSUME NEW j \in Jobs, Stamp(j) PROVE OverlapSound'
  BY <1>10 DEF Stamp
<1>11. ASSUME NEW j \in Jobs, Return(j) PROVE OverlapSound'
  BY <1>11 DEF Return
<1>12. ASSUME NEW j \in Jobs, InstallerExits(j) PROVE OverlapSound'
  BY <1>12 DEF InstallerExits
<1>13. CASE Power
  BY <1>13 DEF Power
<1>14. CASE ServerExits
  BY <1>14 DEF ServerExits
<1>15. CASE DaemonStops
  BY <1>15 DEF DaemonStops
<1>16. CASE UNCHANGED vars
  BY <1>16 DEF vars
<1> QED
  BY <1>1, <1>2, <1>3, <1>4, <1>5, <1>6, <1>7, <1>8, <1>9, <1>10, <1>11, <1>12, <1>13, <1>14, <1>15, <1>16 DEF Next, JobStep

(* Only Stamp adds to the log, and its job, if not in overlap, is the only *)
(* one active; a job that starts later empties the log.                    *)
LEMMA LogAloneStep ==
  ASSUME TypeOK, OverlapSound, LogAlone,
         [Next]_vars
  PROVE  LogAlone'
<1> USE JobsAssumption
        DEF TypeOK, Goto, Inactive, Working, Active, OverlapSound, LogAlone
<1>1. ASSUME NEW j \in Jobs, RejectCreate(j) PROVE LogAlone'
  BY <1>1 DEF RejectCreate
<1>2. ASSUME NEW j \in Jobs, HandleCreate(j) PROVE LogAlone'
  BY <1>2 DEF HandleCreate
<1>3. ASSUME NEW j \in Jobs, Prepare(j) PROVE LogAlone'
  BY <1>3 DEF Prepare, ForceRemove
<1>4. ASSUME NEW j \in Jobs, Pull(j) PROVE LogAlone'
  BY <1>4 DEF Pull, PullInstaller, PullImage
<1>5. ASSUME NEW j \in Jobs, WriteScript(j) PROVE LogAlone'
  BY <1>5 DEF WriteScript
<1>6. ASSUME NEW j \in Jobs, RunInstaller(j) PROVE LogAlone'
  BY <1>6 DEF RunInstaller
<1>7. ASSUME NEW j \in Jobs, InstallerTimeout(j) PROVE LogAlone'
  BY <1>7 DEF InstallerTimeout
<1>8. ASSUME NEW j \in Jobs, Recreate(j) PROVE LogAlone'
  BY <1>8 DEF Recreate, ForceRemove
<1>9. ASSUME NEW j \in Jobs, DockerCreate(j) PROVE LogAlone'
  BY <1>9 DEF DockerCreate
<1>10. ASSUME NEW j \in Jobs, Stamp(j) PROVE LogAlone'
  BY <1>10 DEF Stamp
<1>11. ASSUME NEW j \in Jobs, Return(j) PROVE LogAlone'
  BY <1>11 DEF Return
<1>12. ASSUME NEW j \in Jobs, InstallerExits(j) PROVE LogAlone'
  BY <1>12 DEF InstallerExits
<1>13. CASE Power
  BY <1>13 DEF Power
<1>14. CASE ServerExits
  BY <1>14 DEF ServerExits
<1>15. CASE DaemonStops
  BY <1>15 DEF DaemonStops
<1>16. CASE UNCHANGED vars
  BY <1>16 DEF vars
<1> QED
  BY <1>1, <1>2, <1>3, <1>4, <1>5, <1>6, <1>7, <1>8, <1>9, <1>10, <1>11, <1>12, <1>13, <1>14, <1>15, <1>16 DEF Next, JobStep

(* A lone job between its `docker create` and a later install meets no     *)
(* other job's step; power actions keep the container and its spec.        *)
LEMMA ReadyStep ==
  ASSUME TypeOK, OverlapSound, LogAlone, Ready,
         [Next]_vars
  PROVE  Ready'
<1> USE JobsAssumption
        DEF TypeOK, Goto, Inactive, Working, Active, OverlapSound, LogAlone, Ready, Exists, Built, Started, Stopped, Missing
<1>1. ASSUME NEW j \in Jobs, RejectCreate(j) PROVE Ready'
  BY <1>1 DEF RejectCreate
<1>2. ASSUME NEW j \in Jobs, HandleCreate(j) PROVE Ready'
  BY <1>2 DEF HandleCreate
<1>3. ASSUME NEW j \in Jobs, Prepare(j) PROVE Ready'
  BY <1>3 DEF Prepare, ForceRemove
<1>4. ASSUME NEW j \in Jobs, Pull(j) PROVE Ready'
  BY <1>4 DEF Pull, PullInstaller, PullImage
<1>5. ASSUME NEW j \in Jobs, WriteScript(j) PROVE Ready'
  BY <1>5 DEF WriteScript
<1>6. ASSUME NEW j \in Jobs, RunInstaller(j) PROVE Ready'
  BY <1>6 DEF RunInstaller
<1>7. ASSUME NEW j \in Jobs, InstallerTimeout(j) PROVE Ready'
  BY <1>7 DEF InstallerTimeout
<1>8. ASSUME NEW j \in Jobs, Recreate(j) PROVE Ready'
  BY <1>8 DEF Recreate, ForceRemove
<1>9. ASSUME NEW j \in Jobs, DockerCreate(j) PROVE Ready'
  BY <1>9 DEF DockerCreate
<1>10. ASSUME NEW j \in Jobs, Stamp(j) PROVE Ready'
  BY <1>10 DEF Stamp
<1>11. ASSUME NEW j \in Jobs, Return(j) PROVE Ready'
  BY <1>11 DEF Return
<1>12. ASSUME NEW j \in Jobs, InstallerExits(j) PROVE Ready'
  BY <1>12 DEF InstallerExits
<1>13. CASE Power
  BY <1>13 DEF Power
<1>14. CASE ServerExits
  BY <1>14 DEF ServerExits
<1>15. CASE DaemonStops
  BY <1>15 DEF DaemonStops
<1>16. CASE UNCHANGED vars
  BY <1>16 DEF vars
<1> QED
  BY <1>1, <1>2, <1>3, <1>4, <1>5, <1>6, <1>7, <1>8, <1>9, <1>10, <1>11, <1>12, <1>13, <1>14, <1>15, <1>16 DEF Next, JobStep

(* WriteScript arms the removal and leaves the job's script in place; only *)
(* another active job could replace it.                                    *)
LEMMA ScriptStep ==
  ASSUME TypeOK, OverlapSound, ScriptReady,
         [Next]_vars
  PROVE  ScriptReady'
<1> USE JobsAssumption
        DEF TypeOK, Goto, Inactive, Working, Active, OverlapSound, ScriptReady
<1>1. ASSUME NEW j \in Jobs, RejectCreate(j) PROVE ScriptReady'
  BY <1>1 DEF RejectCreate
<1>2. ASSUME NEW j \in Jobs, HandleCreate(j) PROVE ScriptReady'
  BY <1>2 DEF HandleCreate
<1>3. ASSUME NEW j \in Jobs, Prepare(j) PROVE ScriptReady'
  BY <1>3 DEF Prepare, ForceRemove
<1>4. ASSUME NEW j \in Jobs, Pull(j) PROVE ScriptReady'
  BY <1>4 DEF Pull, PullInstaller, PullImage
<1>5. ASSUME NEW j \in Jobs, WriteScript(j) PROVE ScriptReady'
  BY <1>5 DEF WriteScript
<1>6. ASSUME NEW j \in Jobs, RunInstaller(j) PROVE ScriptReady'
  BY <1>6 DEF RunInstaller
<1>7. ASSUME NEW j \in Jobs, InstallerTimeout(j) PROVE ScriptReady'
  BY <1>7 DEF InstallerTimeout
<1>8. ASSUME NEW j \in Jobs, Recreate(j) PROVE ScriptReady'
  BY <1>8 DEF Recreate, ForceRemove
<1>9. ASSUME NEW j \in Jobs, DockerCreate(j) PROVE ScriptReady'
  BY <1>9 DEF DockerCreate
<1>10. ASSUME NEW j \in Jobs, Stamp(j) PROVE ScriptReady'
  BY <1>10 DEF Stamp
<1>11. ASSUME NEW j \in Jobs, Return(j) PROVE ScriptReady'
  BY <1>11 DEF Return
<1>12. ASSUME NEW j \in Jobs, InstallerExits(j) PROVE ScriptReady'
  BY <1>12 DEF InstallerExits
<1>13. CASE Power
  BY <1>13 DEF Power
<1>14. CASE ServerExits
  BY <1>14 DEF ServerExits
<1>15. CASE DaemonStops
  BY <1>15 DEF DaemonStops
<1>16. CASE UNCHANGED vars
  BY <1>16 DEF vars
<1> QED
  BY <1>1, <1>2, <1>3, <1>4, <1>5, <1>6, <1>7, <1>8, <1>9, <1>10, <1>11, <1>12, <1>13, <1>14, <1>15, <1>16 DEF Next, JobStep

(* With a shared temp directory a lone job mounts the script it wrote, so  *)
(* a path that is missing at `docker run` takes an overlap.                *)
LEMMA OwnScriptStep ==
  ASSUME TypeOK, ScriptReady, OwnScriptIfShared, DirNeedsOverlap,
         [Next]_vars
  PROVE  OwnScriptIfShared' /\ DirNeedsOverlap'
<1> USE JobsAssumption
        DEF TypeOK, Goto, Inactive, Working, Active, ScriptReady, OwnScriptIfShared, OwnScript, DirNeedsOverlap, Mounted, AfterMount, Unlinked, NoScript
<1>1. ASSUME NEW j \in Jobs, RejectCreate(j) PROVE OwnScriptIfShared' /\ DirNeedsOverlap'
  BY <1>1 DEF RejectCreate
<1>2. ASSUME NEW j \in Jobs, HandleCreate(j) PROVE OwnScriptIfShared' /\ DirNeedsOverlap'
  BY <1>2 DEF HandleCreate
<1>3. ASSUME NEW j \in Jobs, Prepare(j) PROVE OwnScriptIfShared' /\ DirNeedsOverlap'
  BY <1>3 DEF Prepare, ForceRemove
<1>4. ASSUME NEW j \in Jobs, Pull(j) PROVE OwnScriptIfShared' /\ DirNeedsOverlap'
  BY <1>4 DEF Pull, PullInstaller, PullImage
<1>5. ASSUME NEW j \in Jobs, WriteScript(j) PROVE OwnScriptIfShared' /\ DirNeedsOverlap'
  BY <1>5 DEF WriteScript
<1>6. ASSUME NEW j \in Jobs, RunInstaller(j) PROVE OwnScriptIfShared' /\ DirNeedsOverlap'
  BY <1>6 DEF RunInstaller
<1>7. ASSUME NEW j \in Jobs, InstallerTimeout(j) PROVE OwnScriptIfShared' /\ DirNeedsOverlap'
  BY <1>7 DEF InstallerTimeout
<1>8. ASSUME NEW j \in Jobs, Recreate(j) PROVE OwnScriptIfShared' /\ DirNeedsOverlap'
  BY <1>8 DEF Recreate, ForceRemove
<1>9. ASSUME NEW j \in Jobs, DockerCreate(j) PROVE OwnScriptIfShared' /\ DirNeedsOverlap'
  BY <1>9 DEF DockerCreate
<1>10. ASSUME NEW j \in Jobs, Stamp(j) PROVE OwnScriptIfShared' /\ DirNeedsOverlap'
  BY <1>10 DEF Stamp
<1>11. ASSUME NEW j \in Jobs, Return(j) PROVE OwnScriptIfShared' /\ DirNeedsOverlap'
  BY <1>11 DEF Return
<1>12. ASSUME NEW j \in Jobs, InstallerExits(j) PROVE OwnScriptIfShared' /\ DirNeedsOverlap'
  BY <1>12 DEF InstallerExits
<1>13. CASE Power
  BY <1>13 DEF Power
<1>14. CASE ServerExits
  BY <1>14 DEF ServerExits
<1>15. CASE DaemonStops
  BY <1>15 DEF DaemonStops
<1>16. CASE UNCHANGED vars
  BY <1>16 DEF vars
<1> QED
  BY <1>1, <1>2, <1>3, <1>4, <1>5, <1>6, <1>7, <1>8, <1>9, <1>10, <1>11, <1>12, <1>13, <1>14, <1>15, <1>16 DEF Next, JobStep

(* A script, or the directory the engine makes of it, appears at the path  *)
(* only with a removal armed; Return disarms and removes in one step, and  *)
(* DaemonStops leaves a killed job behind.                                 *)
LEMMA CoveredStep ==
  ASSUME TypeOK, ScriptReady, ScriptCovered,
         [Next]_vars
  PROVE  ScriptCovered'
<1> USE JobsAssumption
        DEF TypeOK, Goto, Inactive, Working, Active, ScriptReady, ScriptCovered, Mounted, AfterMount, Unlinked, NoScript
<1>1. ASSUME NEW j \in Jobs, RejectCreate(j) PROVE ScriptCovered'
  BY <1>1 DEF RejectCreate
<1>2. ASSUME NEW j \in Jobs, HandleCreate(j) PROVE ScriptCovered'
  BY <1>2 DEF HandleCreate
<1>3. ASSUME NEW j \in Jobs, Prepare(j) PROVE ScriptCovered'
  BY <1>3 DEF Prepare, ForceRemove
<1>4. ASSUME NEW j \in Jobs, Pull(j) PROVE ScriptCovered'
  BY <1>4 DEF Pull, PullInstaller, PullImage
<1>5. ASSUME NEW j \in Jobs, WriteScript(j) PROVE ScriptCovered'
  BY <1>5 DEF WriteScript
<1>6. ASSUME NEW j \in Jobs, RunInstaller(j) PROVE ScriptCovered'
  BY <1>6 DEF RunInstaller
<1>7. ASSUME NEW j \in Jobs, InstallerTimeout(j) PROVE ScriptCovered'
  BY <1>7 DEF InstallerTimeout
<1>8. ASSUME NEW j \in Jobs, Recreate(j) PROVE ScriptCovered'
  BY <1>8 DEF Recreate, ForceRemove
<1>9. ASSUME NEW j \in Jobs, DockerCreate(j) PROVE ScriptCovered'
  BY <1>9 DEF DockerCreate
<1>10. ASSUME NEW j \in Jobs, Stamp(j) PROVE ScriptCovered'
  BY <1>10 DEF Stamp
<1>11. ASSUME NEW j \in Jobs, Return(j) PROVE ScriptCovered'
  BY <1>11 DEF Return
<1>12. ASSUME NEW j \in Jobs, InstallerExits(j) PROVE ScriptCovered'
  BY <1>12 DEF InstallerExits
<1>13. CASE Power
  BY <1>13 DEF Power
<1>14. CASE ServerExits
  BY <1>14 DEF ServerExits
<1>15. CASE DaemonStops
  BY <1>15 DEF DaemonStops
<1>16. CASE UNCHANGED vars
  BY <1>16 DEF vars
<1> QED
  BY <1>1, <1>2, <1>3, <1>4, <1>5, <1>6, <1>7, <1>8, <1>9, <1>10, <1>11, <1>12, <1>13, <1>14, <1>15, <1>16 DEF Next, JobStep

(* A scripted job gets past "installing" only by InstallerExits.           *)
LEMMA InstallerStep ==
  ASSUME TypeOK, PastInstaller, OnlyScripted,
         [Next]_vars
  PROVE  PastInstaller' /\ OnlyScripted'
<1> USE JobsAssumption
        DEF TypeOK, Goto, Inactive, Working, Active, PastInstaller, OnlyScripted, Mounted, NoScript
<1>1. ASSUME NEW j \in Jobs, RejectCreate(j) PROVE PastInstaller' /\ OnlyScripted'
  BY <1>1 DEF RejectCreate
<1>2. ASSUME NEW j \in Jobs, HandleCreate(j) PROVE PastInstaller' /\ OnlyScripted'
  BY <1>2 DEF HandleCreate
<1>3. ASSUME NEW j \in Jobs, Prepare(j) PROVE PastInstaller' /\ OnlyScripted'
  BY <1>3 DEF Prepare, ForceRemove
<1>4. ASSUME NEW j \in Jobs, Pull(j) PROVE PastInstaller' /\ OnlyScripted'
  BY <1>4 DEF Pull, PullInstaller, PullImage
<1>5. ASSUME NEW j \in Jobs, WriteScript(j) PROVE PastInstaller' /\ OnlyScripted'
  BY <1>5 DEF WriteScript
<1>6. ASSUME NEW j \in Jobs, RunInstaller(j) PROVE PastInstaller' /\ OnlyScripted'
  BY <1>6 DEF RunInstaller
<1>7. ASSUME NEW j \in Jobs, InstallerTimeout(j) PROVE PastInstaller' /\ OnlyScripted'
  BY <1>7 DEF InstallerTimeout
<1>8. ASSUME NEW j \in Jobs, Recreate(j) PROVE PastInstaller' /\ OnlyScripted'
  BY <1>8 DEF Recreate, ForceRemove
<1>9. ASSUME NEW j \in Jobs, DockerCreate(j) PROVE PastInstaller' /\ OnlyScripted'
  BY <1>9 DEF DockerCreate
<1>10. ASSUME NEW j \in Jobs, Stamp(j) PROVE PastInstaller' /\ OnlyScripted'
  BY <1>10 DEF Stamp
<1>11. ASSUME NEW j \in Jobs, Return(j) PROVE PastInstaller' /\ OnlyScripted'
  BY <1>11 DEF Return
<1>12. ASSUME NEW j \in Jobs, InstallerExits(j) PROVE PastInstaller' /\ OnlyScripted'
  BY <1>12 DEF InstallerExits
<1>13. CASE Power
  BY <1>13 DEF Power
<1>14. CASE ServerExits
  BY <1>14 DEF ServerExits
<1>15. CASE DaemonStops
  BY <1>15 DEF DaemonStops
<1>16. CASE UNCHANGED vars
  BY <1>16 DEF vars
<1> QED
  BY <1>1, <1>2, <1>3, <1>4, <1>5, <1>6, <1>7, <1>8, <1>9, <1>10, <1>11, <1>12, <1>13, <1>14, <1>15, <1>16 DEF Next, JobStep

(* The container of a job is built from "create", which a scripted job     *)
(* reaches past its installer, and ran does not change after that.         *)
LEMMA BuiltStep ==
  ASSUME TypeOK, PastInstaller, BuiltBefore, BuiltOnInstalled,
         [Next]_vars
  PROVE  BuiltBefore' /\ BuiltOnInstalled'
<1> USE JobsAssumption
        DEF TypeOK, Goto, Inactive, Working, Active, PastInstaller, BuiltBefore, BuiltOnInstalled, Exists, Built, Started, Stopped, Missing
<1>1. ASSUME NEW j \in Jobs, RejectCreate(j) PROVE BuiltBefore' /\ BuiltOnInstalled'
  BY <1>1 DEF RejectCreate
<1>2. ASSUME NEW j \in Jobs, HandleCreate(j) PROVE BuiltBefore' /\ BuiltOnInstalled'
  BY <1>2 DEF HandleCreate
<1>3. ASSUME NEW j \in Jobs, Prepare(j) PROVE BuiltBefore' /\ BuiltOnInstalled'
  BY <1>3 DEF Prepare, ForceRemove
<1>4. ASSUME NEW j \in Jobs, Pull(j) PROVE BuiltBefore' /\ BuiltOnInstalled'
  BY <1>4 DEF Pull, PullInstaller, PullImage
<1>5. ASSUME NEW j \in Jobs, WriteScript(j) PROVE BuiltBefore' /\ BuiltOnInstalled'
  BY <1>5 DEF WriteScript
<1>6. ASSUME NEW j \in Jobs, RunInstaller(j) PROVE BuiltBefore' /\ BuiltOnInstalled'
  BY <1>6 DEF RunInstaller
<1>7. ASSUME NEW j \in Jobs, InstallerTimeout(j) PROVE BuiltBefore' /\ BuiltOnInstalled'
  BY <1>7 DEF InstallerTimeout
<1>8. ASSUME NEW j \in Jobs, Recreate(j) PROVE BuiltBefore' /\ BuiltOnInstalled'
  BY <1>8 DEF Recreate, ForceRemove
<1>9. ASSUME NEW j \in Jobs, DockerCreate(j) PROVE BuiltBefore' /\ BuiltOnInstalled'
  BY <1>9 DEF DockerCreate
<1>10. ASSUME NEW j \in Jobs, Stamp(j) PROVE BuiltBefore' /\ BuiltOnInstalled'
  BY <1>10 DEF Stamp
<1>11. ASSUME NEW j \in Jobs, Return(j) PROVE BuiltBefore' /\ BuiltOnInstalled'
  BY <1>11 DEF Return
<1>12. ASSUME NEW j \in Jobs, InstallerExits(j) PROVE BuiltBefore' /\ BuiltOnInstalled'
  BY <1>12 DEF InstallerExits
<1>13. CASE Power
  BY <1>13 DEF Power
<1>14. CASE ServerExits
  BY <1>14 DEF ServerExits
<1>15. CASE DaemonStops
  BY <1>15 DEF DaemonStops
<1>16. CASE UNCHANGED vars
  BY <1>16 DEF vars
<1> QED
  BY <1>1, <1>2, <1>3, <1>4, <1>5, <1>6, <1>7, <1>8, <1>9, <1>10, <1>11, <1>12, <1>13, <1>14, <1>15, <1>16 DEF Next, JobStep

(* The container of a lone job that removed it stays away until create.    *)
LEMMA ClearedStep ==
  ASSUME TypeOK, OverlapSound, ClearedStays,
         [Next]_vars
  PROVE  ClearedStays'
<1> USE JobsAssumption
        DEF TypeOK, Goto, Inactive, Working, Active, OverlapSound, ClearedStays, Exists, Built, Started, Stopped, Missing
<1>1. ASSUME NEW j \in Jobs, RejectCreate(j) PROVE ClearedStays'
  BY <1>1 DEF RejectCreate
<1>2. ASSUME NEW j \in Jobs, HandleCreate(j) PROVE ClearedStays'
  BY <1>2 DEF HandleCreate
<1>3. ASSUME NEW j \in Jobs, Prepare(j) PROVE ClearedStays'
  BY <1>3 DEF Prepare, ForceRemove
<1>4. ASSUME NEW j \in Jobs, Pull(j) PROVE ClearedStays'
  BY <1>4 DEF Pull, PullInstaller, PullImage
<1>5. ASSUME NEW j \in Jobs, WriteScript(j) PROVE ClearedStays'
  BY <1>5 DEF WriteScript
<1>6. ASSUME NEW j \in Jobs, RunInstaller(j) PROVE ClearedStays'
  BY <1>6 DEF RunInstaller
<1>7. ASSUME NEW j \in Jobs, InstallerTimeout(j) PROVE ClearedStays'
  BY <1>7 DEF InstallerTimeout
<1>8. ASSUME NEW j \in Jobs, Recreate(j) PROVE ClearedStays'
  BY <1>8 DEF Recreate, ForceRemove
<1>9. ASSUME NEW j \in Jobs, DockerCreate(j) PROVE ClearedStays'
  BY <1>9 DEF DockerCreate
<1>10. ASSUME NEW j \in Jobs, Stamp(j) PROVE ClearedStays'
  BY <1>10 DEF Stamp
<1>11. ASSUME NEW j \in Jobs, Return(j) PROVE ClearedStays'
  BY <1>11 DEF Return
<1>12. ASSUME NEW j \in Jobs, InstallerExits(j) PROVE ClearedStays'
  BY <1>12 DEF InstallerExits
<1>13. CASE Power
  BY <1>13 DEF Power
<1>14. CASE ServerExits
  BY <1>14 DEF ServerExits
<1>15. CASE DaemonStops
  BY <1>15 DEF DaemonStops
<1>16. CASE UNCHANGED vars
  BY <1>16 DEF vars
<1> QED
  BY <1>1, <1>2, <1>3, <1>4, <1>5, <1>6, <1>7, <1>8, <1>9, <1>10, <1>11, <1>12, <1>13, <1>14, <1>15, <1>16 DEF Next, JobStep

-----------------------------------------------------------------------------
(* The invariant holds at the start and every step keeps it. *)

LEMMA InitIInv == Init => IInv
<1> SUFFICES ASSUME Init PROVE IInv
  OBVIOUS
<1> USE JobsAssumption
        DEF Init, Active, Inactive, Working, NoScript
<1>1. TypeOK
  BY DEF TypeOK, Status
<1>2. OverlapSound /\ LogAlone /\ Ready
  BY DEF OverlapSound, LogAlone, Ready
<1>3. ScriptReady /\ PastInstaller /\ OnlyScripted
  BY DEF ScriptReady, PastInstaller, OnlyScripted
<1>4. BuiltBefore /\ BuiltOnInstalled
  BY DEF BuiltBefore, BuiltOnInstalled
<1>5. ClearedStays
  BY DEF ClearedStays
<1>6. ScriptCovered /\ DirNeedsOverlap /\ OwnScriptIfShared
  BY DEF ScriptCovered, DirNeedsOverlap, OwnScriptIfShared, OwnScript
<1> QED
  BY <1>1, <1>2, <1>3, <1>4, <1>5, <1>6 DEF IInv

LEMMA NextIInv == IInv /\ [Next]_vars => IInv'
<1> SUFFICES ASSUME IInv, [Next]_vars PROVE IInv'
  OBVIOUS
<1>1. TypeOK' /\ OverlapSound'
  BY TypeStep, OverlapStep DEF IInv
<1>2. LogAlone' /\ Ready'
  BY LogAloneStep, ReadyStep DEF IInv
<1>3. ScriptReady' /\ OwnScriptIfShared' /\ DirNeedsOverlap'
  BY ScriptStep, OwnScriptStep DEF IInv
<1>4. ScriptCovered'
  BY CoveredStep DEF IInv
<1>5. PastInstaller' /\ OnlyScripted' /\ BuiltBefore' /\ BuiltOnInstalled'
  BY InstallerStep, BuiltStep DEF IInv
<1>6. ClearedStays'
  BY ClearedStep DEF IInv
<1> QED
  BY <1>1, <1>2, <1>3, <1>4, <1>5, <1>6 DEF IInv

(* IInv is an invariant of ServerInstall. *)
THEOREM Invariance == Spec => []IInv
  BY InitIInv, NextIInv, PTL DEF Spec

-----------------------------------------------------------------------------
(* The variables keep their types, for any set of jobs. *)
THEOREM TypeCorrect == Spec => []TypeOK
<1>1. IInv => TypeOK
  BY DEF IInv
<1> QED
  BY <1>1, Invariance, PTL

(* The install log of a job that ran alone does not lie: while its line    *)
(* "Installation complete" is there, so is the container it built          *)
(* (install.go:86-93).                                                     *)
THEOREM SoloReadyHolds == Spec => []SoloReady
<1>1. IInv => SoloReady
  BY DEF IInv, TypeOK, Ready, SoloReady
<1> QED
  BY <1>1, Invariance, PTL

(* Overlapping or not, no container is built for a scripted job without an *)
(* installer that exited 0 on a script it could read (install.go:73-75).   *)
THEOREM BuiltOnInstalledHolds == Spec => []BuiltOnInstalled
<1>1. IInv => BuiltOnInstalled
  BY DEF IInv
<1> QED
  BY <1>1, Invariance, PTL

(* While a lone job whose `docker rm -f` worked waits for its installer,   *)
(* the game server does not run on the volume (install.go:25, 73).         *)
THEOREM VolumeExclusiveHolds == Spec => []VolumeExclusive
<1>1. IInv => VolumeExclusive
  BY DEF IInv, TypeOK, ClearedStays, VolumeExclusive
<1> QED
  BY <1>1, Invariance, PTL

(* No install script is left behind by a daemon that lives and may remove  *)
(* what it finds at the path (install.go:54-58).                           *)
THEOREM ScriptCoveredHolds == Spec => []ScriptCovered
<1>1. IInv => ScriptCovered
  BY DEF IInv
<1> QED
  BY <1>1, Invariance, PTL

(* Without overlapping installs the engine never finds the script path     *)
(* missing, and so never makes a directory of it (install.go:64).          *)
THEOREM DirNeedsOverlapHolds == Spec => []DirNeedsOverlap
<1>1. IInv => DirNeedsOverlap
  BY DEF IInv
<1> QED
  BY <1>1, Invariance, PTL

(* When daemon and engine share the temp directory, a lone job's installer *)
(* is given that job's script (install.go:54-64).                          *)
THEOREM OwnScriptHolds == SharedTmp /\ Spec => []OwnScript
<1>1. SharedTmp /\ IInv => OwnScript
  BY DEF IInv, OwnScriptIfShared
<1>2. ASSUME SharedTmp PROVE Spec => []OwnScript
  <2>1. IInv => OwnScript
    BY <1>1, <1>2
  <2> QED
    BY <2>1, Invariance, PTL
<1> QED
  BY <1>2

-----------------------------------------------------------------------------
(* The refinement: what a step of a job is to the panel. *)

(* A step of one job is a step of its phase. *)
LEMMA PhaseStep ==
  ASSUME TypeOK, NEW j \in Jobs, NEW step, Goto(j, step)
  PROVE  Phases' = [Phases EXCEPT ![j] = Phase(step)]
<1>1. \A k \in Jobs : pc'[k] = IF k = j THEN step ELSE pc[k]
  BY DEF Goto, TypeOK
<1>2. \A k \in Jobs : Phase(pc'[k]) = IF k = j THEN Phase(step) ELSE Phase(pc[k])
  BY <1>1
<1> QED
  BY <1>2 DEF Phases

(* A job that goes from one step to another enters the phase of that one. *)
LEMMA EnterStep ==
  ASSUME TypeOK, NEW j \in Jobs, NEW step, Goto(j, step)
  PROVE  Service!Enter(j, Phase(pc[j]), Phase(step))
<1>1. Phases[j] = Phase(pc[j])
  BY DEF Phases
<1> QED
  BY <1>1, PhaseStep DEF Service!Enter

(* Steps of the phase work that stay in it, and jobs that stay. *)
LEMMA PhaseSame ==
  ASSUME TypeOK, NEW j \in Jobs, NEW step, Goto(j, step), Phase(step) = Phase(pc[j])
  PROVE  Phases' = Phases
<1>1. \A k \in Jobs : pc'[k] = IF k = j THEN step ELSE pc[k]
  BY DEF Goto, TypeOK
<1>2. \A k \in Jobs : Phase(pc'[k]) = Phase(pc[k])
  BY <1>1
<1> QED
  BY <1>2 DEF Phases

LEMMA PhaseOf ==
  /\ Phase("idle") = "idle" /\ Phase("rejected") = "rejected"
  /\ Phase("prepare") = "working" /\ Phase("pullInstaller") = "working"
  /\ Phase("writeScript") = "working" /\ Phase("runInstaller") = "working"
  /\ Phase("installing") = "working" /\ Phase("pullImage") = "working"
  /\ Phase("recreate") = "working" /\ Phase("create") = "working"
  /\ Phase("stamp") = "built" /\ Phase("return") = "ending"
  /\ Phase("done") = "ended" /\ Phase("killed") = "ended"
BY DEF Phase

(* A step of the daemon at work that leaves server and log alone. *)
LEMMA WorkStep ==
  ASSUME TypeOK, NEW j \in Jobs, NEW step, Goto(j, step),
         Phase(pc[j]) = "working", Phase(step) \in {"working", "ending"},
         UNCHANGED <<Server, log>>
  PROVE  Service!Next \/ UNCHANGED Service!vars
<1>1. CASE Phase(step) = "working"
  BY <1>1, PhaseSame DEF Service!vars
<1>2. CASE Phase(step) = "ending"
  <2>1. Service!GiveUp(j)
    BY <1>2, EnterStep DEF Service!GiveUp
  <2> QED
    BY <2>1 DEF Service!Next, Service!JobStep
<1> QED
  BY <1>1, <1>2

LEMMA RemoveStep ==
  ASSUME TypeOK, NEW j \in Jobs, NEW step, NEW done, ForceRemove(j, step, done),
         Phase(pc[j]) = "working", Phase(step) = "working"
  PROVE  Service!Next \/ UNCHANGED Service!vars
<1>1. log' = log
  BY DEF ForceRemove
<1>2. PICK next \in {step, "return"} : Goto(j, next)
  BY DEF ForceRemove
<1>3. Phase(next) \in {"working", "ending"}
  BY <1>2, PhaseOf
<1>4. CASE container' = container
  BY <1>1, <1>2, <1>3, <1>4, WorkStep DEF Server
<1>5. CASE container' = Missing
  <2>1. Server' = "none"
    BY <1>5 DEF Server, Missing, Exists
  <2>2. Service!Enter(j, "working", "working") \/ Service!Enter(j, "working", "ending")
    BY <1>2, <1>3, EnterStep
  <2>3. Service!Remove(j)
    BY <1>1, <2>1, <2>2 DEF Service!Remove
  <2> QED
    BY <2>3 DEF Service!Next, Service!JobStep
<1> QED
  BY <1>4, <1>5 DEF ForceRemove

(* Every step of ServerInstall is one of InstallService, or shows nothing. *)
LEMMA ServiceStep ==
  ASSUME TypeOK, [Next]_vars
  PROVE  Service!Next \/ UNCHANGED Service!vars
<1> USE PhaseOf
<1>1. ASSUME NEW j \in Jobs, RejectCreate(j) PROVE Service!Next
  <2>1. Service!Enter(j, "idle", "rejected")
    BY <1>1, EnterStep DEF RejectCreate
  <2>2. Service!Reject(j)
    BY <1>1, <2>1 DEF RejectCreate, Service!Reject, Server
  <2> QED
    BY <2>2 DEF Service!Next
<1>2. ASSUME NEW j \in Jobs, HandleCreate(j) PROVE Service!Next
  <2>1. Service!Enter(j, "idle", "working")
    BY <1>2, EnterStep DEF HandleCreate
  <2>2. Service!Accept(j)
    BY <1>2, <2>1 DEF HandleCreate, Service!Accept, Server
  <2> QED
    BY <2>2 DEF Service!Next
<1>3. ASSUME NEW j \in Jobs, Prepare(j) PROVE Service!Next \/ UNCHANGED Service!vars
  <2> DEFINE next == IF j \in Scripted THEN "pullInstaller" ELSE "pullImage"
  <2>1. ForceRemove(j, next, cleared' = cleared \cup {j}) /\ pc[j] = "prepare"
    BY <1>3 DEF Prepare
  <2>2. Phase(next) = "working"
    OBVIOUS
  <2> HIDE DEF next
  <2> QED
    BY <2>1, <2>2, RemoveStep
<1>4. ASSUME NEW j \in Jobs, Pull(j) PROVE Service!Next \/ UNCHANGED Service!vars
  <2>1. PICK next \in {"writeScript", "recreate", "return"} : Goto(j, next)
    BY <1>4 DEF Pull, PullInstaller, PullImage
  <2>2. pc[j] \in {"pullInstaller", "pullImage"} /\ UNCHANGED <<Server, log>>
    BY <1>4 DEF Pull, PullInstaller, PullImage, Server
  <2> QED
    BY <2>1, <2>2, WorkStep
<1>5. ASSUME NEW j \in Jobs, WriteScript(j) PROVE Service!Next \/ UNCHANGED Service!vars
  <2>1. PICK next \in {"runInstaller", "return"} : Goto(j, next)
    BY <1>5 DEF WriteScript
  <2>2. pc[j] = "writeScript" /\ UNCHANGED <<Server, log>>
    BY <1>5 DEF WriteScript, Server
  <2> QED
    BY <2>1, <2>2, WorkStep
<1>6. ASSUME NEW j \in Jobs, RunInstaller(j) PROVE Service!Next \/ UNCHANGED Service!vars
  <2>1. PICK next \in {"installing", "return"} : Goto(j, next)
    BY <1>6 DEF RunInstaller
  <2>2. pc[j] = "runInstaller" /\ UNCHANGED <<Server, log>>
    BY <1>6 DEF RunInstaller, Server
  <2> QED
    BY <2>1, <2>2, WorkStep
<1>7. ASSUME NEW j \in Jobs, InstallerTimeout(j) PROVE Service!Next \/ UNCHANGED Service!vars
  <2>1. Goto(j, "return") /\ pc[j] = "installing" /\ UNCHANGED <<Server, log>>
    BY <1>7 DEF InstallerTimeout, Server
  <2> QED
    BY <2>1, WorkStep
<1>8. ASSUME NEW j \in Jobs, Recreate(j) PROVE Service!Next \/ UNCHANGED Service!vars
  <2>1. ForceRemove(j, "create", UNCHANGED cleared) /\ pc[j] = "recreate"
    BY <1>8 DEF Recreate
  <2> QED
    BY <2>1, RemoveStep
<1>9. ASSUME NEW j \in Jobs, DockerCreate(j) PROVE Service!Next \/ UNCHANGED Service!vars
  <2>1. pc[j] = "create" /\ log' = log
    BY <1>9 DEF DockerCreate
  <2>2. CASE container' = container /\ Goto(j, "return")
    BY <2>1, <2>2, WorkStep DEF Server
  <2>3. CASE /\ ~Exists(container) /\ container' = Built(j)
             /\ Goto(j, "stamp") \/ Goto(j, "return")
    <3>1. Server = "none" /\ Server' = j
      BY <2>3 DEF Server, Built, Exists
    <3>2. Service!Enter(j, "working", "built") \/ Service!Enter(j, "working", "ending")
      BY <2>1, <2>3, EnterStep
    <3>3. Service!Build(j)
      BY <2>1, <3>1, <3>2 DEF Service!Build
    <3> QED
      BY <3>3 DEF Service!Next, Service!JobStep
  <2> QED
    BY <1>9, <2>2, <2>3 DEF DockerCreate
<1>10. ASSUME NEW j \in Jobs, Stamp(j) PROVE Service!Next
  <2>1. Service!Enter(j, "built", "ending")
    BY <1>10, EnterStep DEF Stamp
  <2>2. Service!Announce(j)
    BY <1>10, <2>1 DEF Stamp, Service!Announce, Server
  <2> QED
    BY <2>2 DEF Service!Next, Service!JobStep
<1>11. ASSUME NEW j \in Jobs, Return(j) PROVE Service!Next
  <2>1. Service!Enter(j, "ending", "ended")
    BY <1>11, EnterStep DEF Return
  <2>2. Service!Finish(j)
    BY <1>11, <2>1 DEF Return, Service!Finish, Server
  <2> QED
    BY <2>2 DEF Service!Next, Service!JobStep
<1>12. ASSUME NEW j \in Jobs, InstallerExits(j) PROVE Service!Next \/ UNCHANGED Service!vars
  <2>1. UNCHANGED <<Server, log>>
    BY <1>12 DEF InstallerExits, Server
  <2>2. CASE pc[j] = "installing"
    <3>1. PICK next \in {"pullImage", "return"} : Goto(j, next)
      BY <1>12, <2>2 DEF InstallerExits
    <3> QED
      BY <2>1, <2>2, <3>1, WorkStep
  <2>3. CASE pc[j] # "installing"
    <3>1. pc' = pc
      BY <1>12, <2>3 DEF InstallerExits
    <3> QED
      BY <2>1, <3>1 DEF Service!vars, Phases
  <2> QED
    BY <2>2, <2>3
<1>13. CASE Power
  BY <1>13 DEF Power, Server, Exists, Started, Stopped, TypeOK, Status, Service!vars, Phases
<1>14. CASE ServerExits
  BY <1>14 DEF ServerExits, Server, Exists, Stopped, TypeOK, Status, Service!vars, Phases
<1>15. CASE DaemonStops
  <2>1. UNCHANGED <<Server, log>>
    BY <1>15 DEF DaemonStops, Server
  <2>2. \A j \in Jobs : j \in Active <=> Phase(pc[j]) \in Service!Running
    BY DEF Active, TypeOK, Working, Inactive, Service!Running
  <2>3. \A j \in Jobs : pc'[j] = IF j \in Active THEN "killed" ELSE pc[j]
    BY <1>15 DEF DaemonStops
  <2>4. \A j \in Jobs :
          Phase(pc'[j]) = IF Phase(pc[j]) \in Service!Running THEN "ended" ELSE Phase(pc[j])
    BY <2>2, <2>3
  <2>5. Phases' = [j \in Jobs |-> IF Phases[j] \in Service!Running THEN "ended" ELSE Phases[j]]
    BY <2>4 DEF Phases
  <2> QED
    BY <2>1, <2>5 DEF Service!Next, Service!Stop
<1>16. CASE UNCHANGED vars
  BY <1>16 DEF vars, Service!vars, Phases, Server
<1> QED
  BY <1>1, <1>2, <1>3, <1>4, <1>5, <1>6, <1>7, <1>8, <1>9, <1>10, <1>11, <1>12, <1>13, <1>14, <1>15, <1>16 DEF Next, JobStep

(* For any number of installs, overlapping or not, and whatever fails, the *)
(* steps of the daemon on a server are those InstallService allows.        *)
THEOREM Refinement == Spec => ImplementsService
<1>1. Init => Service!Init
  <2> SUFFICES ASSUME Init PROVE Service!Init
    OBVIOUS
  <2>1. Server \notin Jobs
    BY JobsAssumption DEF Init, Server
  <2>2. Phases = [j \in Jobs |-> "idle"]
    BY PhaseOf DEF Init, Phases
  <2> QED
    BY <2>1, <2>2 DEF Init, Service!Init
<1>2. TypeOK /\ [Next]_vars => [Service!Next]_(Service!vars)
  BY ServiceStep
<1> QED
  BY <1>1, <1>2, TypeCorrect, PTL DEF Spec, ImplementsService, Service!Spec
=============================================================================

SPECIFICATION FairSpec
CONSTANTS
  NoSpec = NoSpec
  j1 = j1
  j2 = j2
  Jobs <- TwoJobs
  Scripted <- TwoJobs
  SharedTmp = TRUE
  RootDaemon = TRUE
INVARIANTS
  SoloReady
  BuiltOnInstalled
  VolumeExclusive
  ScriptCovered
  OwnScript
PROPERTIES
  InstallEnds
  ImplementsService
CHECK_DEADLOCK FALSE

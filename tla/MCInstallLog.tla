---------------------------- MODULE MCInstallLog ----------------------------
(* Model-checking instances of InstallLog. *)
EXTENDS InstallLog

CONSTANTS j1, j2

OneJob == {j1}
TwoJobs == {j1, j2}
=============================================================================

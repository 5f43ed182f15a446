-------------------------- MODULE MCServerInstall --------------------------
(* Model-checking instances of ServerInstall. *)
EXTENDS ServerInstall

CONSTANTS j1, j2

TwoJobs == {j1, j2}
=============================================================================

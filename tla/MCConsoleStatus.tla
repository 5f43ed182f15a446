-------------------------- MODULE MCConsoleStatus --------------------------
(* Model-checking instances of ConsoleStatus: bounds only. *)
EXTENDS ConsoleStatus
=============================================================================

-------------------------- MODULE MCConsoleOutput --------------------------
(* Model-checking instances of ConsoleOutput: bounds only. *)
EXTENDS ConsoleOutput
=============================================================================

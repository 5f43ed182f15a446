--------------------------- MODULE MCConsoleInput ---------------------------
(* A model-checking instance of ConsoleInput: frames at the boundaries of  *)
(* the length coding, and tokens that fail in each way.                    *)
EXTENDS ConsoleInput

MCLens == {125, 126, 65536, maxFrameSize + 1}
Token(signed, server, exp) == [signed |-> signed, server |-> server, exp |-> exp]
MCTokens == {Token(TRUE, "here", 0), Token(TRUE, "here", 1),
             Token(TRUE, "elsewhere", 0), Token(FALSE, "here", 0)}
=============================================================================

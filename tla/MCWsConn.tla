------------------------------ MODULE MCWsConn ------------------------------
(* Model-checking instances of WsConn. *)
EXTENDS WsConn

CONSTANTS stats, console

TwoStreams == {stats, console}
=============================================================================

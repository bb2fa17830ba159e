---------------------------- MODULE MCTcpServer ----------------------------
(* Small instances of TcpServer for TLC. *)
EXTENDS TcpServer

CONSTANTS c1, c2

OneConn == {c1}
TwoConns == {c1, c2}
=============================================================================

----------------------------- MODULE MCMonitor -----------------------------
(* Small instances of Monitor for TLC. *)
EXTENDS Monitor

CONSTANTS c1, c2

OneConn == {c1}
TwoConns == {c1, c2}
=============================================================================

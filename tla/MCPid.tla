------------------------------- MODULE MCPid -------------------------------
(* A small instance of Pid for TLC.  Any two errors have an even sum, so   *)
(* that averages of two are exact.                                         *)
EXTENDS Pid

SmallErrors == {-30, -2, 30}
NoSliders == {0}
ErrorSliders == {5, 20}
SmallGains == <<5, -7, 9>>
=============================================================================

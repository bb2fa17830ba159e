---------------------------- MODULE MCExchange ----------------------------
(* Small instances of Exchange for TLC. *)
EXTENDS Exchange

LongShortLong == <<2, 1, 2>>
LongShort == <<2, 1>>
=============================================================================

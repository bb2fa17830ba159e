----------------------------- MODULE MCSending -----------------------------
(* A small instance of Sending for TLC. *)
EXTENDS Sending

(* "0", then a longer, a shorter and again a longer output. *)
Lengths == <<1, 4, 2, 3>>
=============================================================================

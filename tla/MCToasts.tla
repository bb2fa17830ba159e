------------------------------ MODULE MCToasts ------------------------------
(* Small instances of Toasts for TLC. *)
EXTENDS Toasts

ShortAndLong == {0, 1}
Short == {0}
=============================================================================

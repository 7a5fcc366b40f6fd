------------------------------- MODULE MCFork -------------------------------
(* Fork.tla for TLC: two concurrent calls. *)
EXTENDS Fork

CONSTANTS c1, c2
=============================================================================

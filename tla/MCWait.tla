------------------------------- MODULE MCWait -------------------------------
(* TLC instance of Wait, and with it of Live. *)
EXTENDS Wait
=============================================================================

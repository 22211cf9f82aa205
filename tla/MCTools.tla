------------------------------ MODULE MCTools -------------------------------
(* TLC instance of Tools. *)
EXTENDS Tools
=============================================================================

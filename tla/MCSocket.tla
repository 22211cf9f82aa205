------------------------------ MODULE MCSocket ------------------------------
(* TLC instance of Socket. *)
EXTENDS Socket
=============================================================================

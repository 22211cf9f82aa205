----------------------------- MODULE MCRequests -----------------------------
(* TLC instance of Requests: the calls are model values. *)
EXTENDS Requests
=============================================================================

------------------------------ MODULE MCAsync ------------------------------
(* Instances of AsyncRequestHandler for TLC: a few requests as model values. *)
EXTENDS AsyncRequestHandler
=============================================================================

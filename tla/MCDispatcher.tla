---------------------------- MODULE MCDispatcher ----------------------------
(* Instances of NetworkRequestsHandler for TLC: a few requests as model      *)
(* values.  Requests that none of the constant sets distinguishes are        *)
(* interchangeable, and so are the detached threads.                         *)
EXTENDS NetworkRequestsHandler

Interchangeable ==
  Permutations(OutOfQueue \ (Unsupported \cup UserHalts))
    \cup Permutations(Workers)
=============================================================================

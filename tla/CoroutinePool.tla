--------------------------- MODULE CoroutinePool ---------------------------
(***************************************************************************)
(* What the asynchronous handler promises its only client, the dispatcher: *)
(* a pool that admits a request only while it works, turns it into a       *)
(* coroutine, resumes one coroutine at a time, never resumes one that has  *)
(* finished, and leaves its loop only between two resumptions and after it *)
(* was halted.  The order of resumption, the passes over the list and the  *)
(* download limit are left to AsyncRequestHandler, which implements this   *)
(* specification.                                                          *)
(***************************************************************************)

CONSTANTS Requests,  \* the requests the dispatcher may hand over
          NONE       \* the value of "current" when no coroutine runs

ASSUME NoneAssumption == NONE \notin Requests

VARIABLES working,   \* BOOLEAN: does the pool admit requests
          loop,      \* its thread: "created", "running" or "exited"
          stage,     \* for each request the life of its coroutine
          refused,   \* the requests whose offer was answered with an error
          current    \* the request whose coroutine is running, or NONE

poolVars == <<working, loop, stage, refused, current>>

Stages == {"new", "admitted", "listed", "done"}

PoolTypeOK ==
  /\ working \in BOOLEAN
  /\ loop \in {"created", "running", "exited"}
  /\ stage \in [Requests -> Stages]
  /\ refused \subseteq Requests
  /\ current \in Requests \cup {NONE}

PoolInit ==
  /\ working = FALSE
  /\ loop = "created"
  /\ stage = [q \in Requests |-> "new"]
  /\ refused = {}
  /\ current = NONE

\* The thread of the pool starts to work; a halt that came before is forgotten.
Launch ==
  /\ loop = "created"
  /\ loop' = "running"
  /\ working' = TRUE
  /\ UNCHANGED <<stage, refused, current>>

\* The client offers a request; whether it is admitted is decided here, once.
Offer(q) ==
  /\ \/ /\ working
        /\ stage[q] = "new"
        /\ stage' = [stage EXCEPT ![q] = "admitted"]
        /\ UNCHANGED refused
     \/ /\ ~working
        /\ refused' = refused \cup {q}
        /\ UNCHANGED stage
  /\ UNCHANGED <<working, loop, current>>

\* An admitted request becomes a coroutine, even if the pool was halted since.
Enlist(q) ==
  /\ stage[q] = "admitted"
  /\ stage' = [stage EXCEPT ![q] = "listed"]
  /\ UNCHANGED <<working, loop, refused, current>>

Begin(q) ==
  /\ loop = "running"
  /\ current = NONE
  /\ stage[q] = "listed"
  /\ current' = q
  /\ UNCHANGED <<working, loop, stage, refused>>

\* The running coroutine suspends itself: it will be resumed again.
Suspend ==
  /\ current # NONE
  /\ current' = NONE
  /\ UNCHANGED <<working, loop, stage, refused>>

\* The running coroutine returns: it will never be resumed again.
Finish ==
  /\ current # NONE
  /\ stage' = [stage EXCEPT ![current] = "done"]
  /\ current' = NONE
  /\ UNCHANGED <<working, loop, refused>>

Halt ==
  /\ working' = FALSE
  /\ UNCHANGED <<loop, stage, refused, current>>

Exit ==
  /\ loop = "running"
  /\ ~working
  /\ current = NONE
  /\ loop' = "exited"
  /\ UNCHANGED <<working, stage, refused, current>>

\* The client puts a new pool in the place of one whose thread has ended; what
\* was left in the old one is destroyed with it.
Renew ==
  /\ loop = "exited"
  /\ working' = FALSE
  /\ loop' = "created"
  /\ stage' = [q \in Requests |-> "new"]
  /\ refused' = {}
  /\ current' = NONE

PoolNext ==
  \/ Launch \/ Suspend \/ Finish \/ Halt \/ Exit \/ Renew
  \/ \E q \in Requests : Offer(q) \/ Enlist(q) \/ Begin(q)

PoolSpec == PoolInit /\ [][PoolNext]_poolVars
=============================================================================

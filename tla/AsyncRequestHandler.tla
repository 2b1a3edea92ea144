------------------------ MODULE AsyncRequestHandler ------------------------
(***************************************************************************)
(* tristan::network::private_::AsyncRequestHandler                         *)
(* (private_inc/async_request_handler.hpp, src/async_request_handler.cpp): *)
(* the list of coroutines, the thread that resumes them in passes, the     *)
(* dispatcher's thread in addRequest() and the user's thread in stop() and *)
(* in the join that follows it (NetworkRequestsHandler::_stop).            *)
(*                                                                         *)
(* A coroutine is external code here: each resumption either suspends it   *)
(* again or ends it, and nothing but that answer of resume() is read.      *)
(***************************************************************************)
EXTENDS Naturals, SequencesExt

CONSTANTS Requests,    \* the requests that may be handed over
          NONE,        \* no request
          DefaultMax,  \* the limit the constructor sets
          Limits,      \* the values setMaxDownloadsCount() is called with
          StopAtOnce   \* may stop() be called before run() has begun to work?

ASSUME AsyncAssumption ==
  /\ NONE \notin Requests
  /\ DefaultMax \in 0..255
  /\ Limits \subseteq 0..255
  /\ StopAtOnce \in BOOLEAN

VARIABLES
  m_working,             \* atomic<bool>
  m_max,                 \* m_max_processed_requests_count, an uint8_t
  m_processed_requests,  \* the list of coroutines, each named by its request
  caller,                \* where the call addRequest(q) stands
  refused,               \* requests answered with ..._WAS_NOT_LUNCHED
  pc,                    \* where run() stands
  iter,                  \* active_requests_iterator, as a position of the list
  counter,               \* active_requests_counter, an uint8_t
  passed, ended,         \* history of the pass: who was resumed, how many ended
  stopper                \* the thread that stops the handler and joins run()

userVars  == <<m_max, stopper>>
queueVars == <<m_processed_requests, caller, refused>>
passVars  == <<iter, counter, passed, ended>>
asyncVars == <<m_working, pc, userVars, queueVars, passVars>>

\* (A slip: the counter is wider than the code's.)
Wrap8Never(n) == n

\* Arithmetic of an uint8_t: it wraps at both ends.
Wrap8(n) == n % 256

CallerStates == {"new", "checked", "entered"}

PcStates == {"created", "loop", "scan", "running", "erase", "exited"}

AsyncTypeOK ==
  /\ m_working \in BOOLEAN
  /\ m_max \in 0..255
  /\ m_processed_requests \in Seq(Requests)
  /\ caller \in [Requests -> CallerStates]
  /\ refused \subseteq Requests
  /\ pc \in PcStates
  /\ iter \in Nat \ {0}
  /\ counter \in 0..255
  /\ passed \subseteq Requests
  /\ ended \in Nat
  /\ stopper \in {"idle", "joining", "returned"}

\* create(), and the thread that will execute run() is started.
AsyncInit ==
  /\ m_working = FALSE
  /\ m_max = DefaultMax
  /\ m_processed_requests = <<>>
  /\ caller = [q \in Requests |-> "new"]
  /\ refused = {}
  /\ pc = "created"
  /\ iter = 1
  /\ counter = 0
  /\ passed = {}
  /\ ended = 0
  /\ stopper = "idle"

-----------------------------------------------------------------------------
(* What a slip in the code would make of some of the definitions below.    *)
(* They are in no specification: with one in the place of its original,    *)
(* TLC must find the property violated that is there to exclude it.        *)

\* "continue" one coroutine too early.
OverLimitEarly == counter >= m_max

\* The iterator stays at a coroutine that has suspended itself.
SuspendedInPlace ==
  /\ pc = "running"
  /\ pc' = "scan"
  /\ counter' = Wrap8(counter + 1)
  /\ UNCHANGED <<m_working, userVars, queueVars, iter, passed, ended>>

\* The counter is not taken back when a coroutine is erased.
EraseKeepingCounter ==
  /\ pc = "erase"
  /\ m_processed_requests' = RemoveAt(m_processed_requests, iter)
  /\ pc' = IF iter <= Len(m_processed_requests') THEN "scan" ELSE "loop"
  /\ ended' = ended + 1
  /\ UNCHANGED <<m_working, userVars, caller, refused, iter, counter, passed>>

\* The iterator is advanced after the erasure as well.
EraseAndAdvance ==
  /\ pc = "erase"
  /\ m_processed_requests' = RemoveAt(m_processed_requests, iter)
  /\ iter' = iter + 1
  /\ pc' = IF iter' <= Len(m_processed_requests') THEN "scan" ELSE "loop"
  /\ counter' = Wrap8(counter + 255)
  /\ ended' = ended + 1
  /\ UNCHANGED <<m_working, userVars, caller, refused, passed>>

\* The loop is left although nobody has stopped it.
LeaveLoopUnasked ==
  /\ pc = "loop"
  /\ pc' = "exited"
  /\ UNCHANGED <<m_working, userVars, queueVars, passVars>>

-----------------------------------------------------------------------------
(* The thread of run().                                                    *)

\* run() sets m_working, whatever stop() has stored in it before.
Run ==
  /\ pc = "created"
  /\ m_working' = TRUE
  /\ pc' = "loop"
  /\ UNCHANGED <<userVars, queueVars, passVars>>

\* Nothing to do: the thread sleeps for half a second and tests again.
Nap ==
  /\ pc = "loop"
  /\ m_working
  /\ m_processed_requests = <<>>
  /\ UNCHANGED asyncVars

BeginPass ==
  /\ pc = "loop"
  /\ m_working
  /\ m_processed_requests # <<>>
  /\ pc' = "scan"
  /\ iter' = 1
  /\ counter' = 0
  /\ passed' = {}
  /\ ended' = 0
  /\ UNCHANGED <<m_working, userVars, queueVars>>

\* The pass goes on unless the iterator has become end(): what is appended
\* after that is left to the next pass.
PassOrEnd(list, i) == IF i <= Len(list) THEN "scan" ELSE "loop"

OverLimit == counter > m_max

\* "continue" without advancing the iterator: the loop turns on the spot.
Spinning ==
  /\ pc = "scan"
  /\ OverLimit

Spin ==
  /\ Spinning
  /\ UNCHANGED asyncVars

Resume ==
  /\ pc = "scan"
  /\ ~OverLimit
  /\ pc' = "running"
  /\ passed' = passed \cup {m_processed_requests[iter]}
  /\ UNCHANGED <<m_working, userVars, queueVars, iter, counter, ended>>

\* resume() answers true: the coroutine has suspended itself.
Suspended ==
  /\ pc = "running"
  /\ iter' = iter + 1
  /\ pc' = PassOrEnd(m_processed_requests, iter')
  /\ counter' = Wrap8(counter + 1)
  /\ UNCHANGED <<m_working, userVars, queueVars, passed, ended>>

\* resume() answers false: the coroutine has returned.
Returned ==
  /\ pc = "running"
  /\ pc' = "erase"
  /\ UNCHANGED <<m_working, userVars, queueVars, passVars>>

\* Under the lock of the list; 255 is added for the decrement of an uint8_t.
Erase ==
  /\ pc = "erase"
  /\ m_processed_requests' = RemoveAt(m_processed_requests, iter)
  /\ pc' = PassOrEnd(m_processed_requests', iter)
  /\ counter' = Wrap8(counter + 255)
  /\ ended' = ended + 1
  /\ UNCHANGED <<m_working, userVars, caller, refused, iter, passed>>

LeaveLoop ==
  /\ pc = "loop"
  /\ ~m_working
  /\ pc' = "exited"
  /\ UNCHANGED <<m_working, userVars, queueVars, passVars>>

Worker ==
  \/ Run \/ Nap \/ BeginPass \/ Spin \/ Resume \/ Suspended \/ Returned
  \/ Erase \/ LeaveLoop

-----------------------------------------------------------------------------
(* The dispatcher's thread, which makes one call of addRequest at a time.  *)

\* m_working is read before the lock is taken and not again.
AddRequestCheck(q) ==
  /\ \A r \in Requests : caller[r] # "checked"
  /\ \/ /\ m_working
        /\ caller[q] = "new"
        /\ caller' = [caller EXCEPT ![q] = "checked"]
        /\ UNCHANGED refused
     \/ /\ ~m_working
        /\ refused' = refused \cup {q}
        /\ UNCHANGED caller
  /\ UNCHANGED <<m_working, pc, userVars, passVars, m_processed_requests>>

\* Under the lock of the list; the pass may be anywhere in the list meanwhile.
AddRequestAppend(q) ==
  /\ caller[q] = "checked"
  /\ caller' = [caller EXCEPT ![q] = "entered"]
  /\ m_processed_requests' = Append(m_processed_requests, q)
  /\ UNCHANGED <<m_working, pc, userVars, passVars, refused>>

-----------------------------------------------------------------------------
(* The user's threads.                                                     *)

SetMaxDownloadsCount(n) ==
  /\ m_max' = n
  /\ UNCHANGED <<m_working, pc, queueVars, passVars, stopper>>

\* The first two statements of NetworkRequestsHandler::_stop: stop() ...
Stop ==
  /\ stopper = "idle"
  /\ StopAtOnce \/ pc # "created"
  /\ stopper' = "joining"
  /\ m_working' = FALSE
  /\ UNCHANGED <<pc, queueVars, passVars, m_max>>

\* ... and the join of the thread that executes run().
Join ==
  /\ stopper = "joining"
  /\ pc = "exited"
  /\ stopper' = "returned"
  /\ UNCHANGED <<m_working, pc, queueVars, passVars, m_max>>

AsyncNext ==
  \/ Worker
  \/ \E q \in Requests : AddRequestCheck(q) \/ AddRequestAppend(q)
  \/ \E n \in Limits : SetMaxDownloadsCount(n)
  \/ Stop
  \/ Join

AsyncSpec == AsyncInit /\ [][AsyncNext]_asyncVars

(***************************************************************************)
(* The worker and a call that has begun go on; a coroutine that is resumed *)
(* again and again returns at last, because every loop of every coroutine  *)
(* ends when the time-out of its request has passed.  Nothing obliges the  *)
(* user to add a request or to stop the handler.                           *)
(***************************************************************************)
AsyncFairness ==
  /\ WF_asyncVars(Worker)
  /\ \A q \in Requests :
       /\ WF_asyncVars(AddRequestAppend(q))
       /\ SF_asyncVars(Returned /\ m_processed_requests[iter] = q)
  /\ WF_asyncVars(Join)

AsyncLiveSpec == AsyncSpec /\ AsyncFairness

-----------------------------------------------------------------------------
(* Properties.                                                             *)

\* The request whose coroutine has returned and is still to be erased.
Ending == IF pc = "erase" THEN {m_processed_requests[iter]} ELSE {}

Listed == ToSet(m_processed_requests) \ Ending

\* Lines 36-50: the 8-bit counter is, modulo 256, the number of coroutines this
\* pass has resumed and kept minus the number it has erased: the erasure of a
\* coroutine takes back an increment that was never made for it.
CounterIsKeptMinusEnded ==
  pc \in {"scan", "running", "erase"} =>
    counter = Wrap8((iter - 1) + 255 * ended)

\* Lines 38-41: the loop turns on the spot only if a coroutine ended in this
\* pass or more coroutines than the limit were kept by it.
SpinHasACause ==
  Spinning => ended > 0 \/ iter - 1 > m_max

\* Lines 37-50: what stands before the iterator is what this pass has resumed
\* and kept, in spite of erasures at the iterator and appends behind it.
PassedIsPrefix ==
  pc \in {"scan", "running", "erase"} =>
    \A i \in 1..Len(m_processed_requests) :
      (m_processed_requests[i] \in passed) <=>
        (i < iter \/ (i = iter /\ pc # "scan"))

\* Lines 37-50: no pass resumes a coroutine twice, so that a busy coroutine
\* cannot keep the others of its list from their turn.
OneResumePerPass ==
  [][pc = "scan" /\ pc' = "running" =>
       m_processed_requests[iter] \notin passed]_asyncVars

\* The inductive invariant behind these properties: where the iterator stands, that
\* only a request that was let in has been resumed, and that one call of addRequest()
\* makes one coroutine.
IteratorInRange ==
  pc \in {"scan", "running", "erase"} => iter <= Len(m_processed_requests)

PassedWasLetIn == \A q \in passed : caller[q] = "entered"

OneCoroutineEach ==
  /\ \A i, j \in 1..Len(m_processed_requests) :
       m_processed_requests[i] = m_processed_requests[j] => i = j
  /\ \A i \in 1..Len(m_processed_requests) :
       caller[m_processed_requests[i]] = "entered"

AsyncInv ==
  /\ AsyncTypeOK
  /\ IteratorInRange
  /\ PassedWasLetIn
  /\ OneCoroutineEach
  /\ PassedIsPrefix
  /\ CounterIsKeptMinusEnded

\* The life of the coroutine of request q as the client sees it: it is over
\* when the coroutine has returned, before it is erased.
StageOf(q) ==
  IF q \in Listed THEN "listed"
  ELSE IF caller[q] = "entered" THEN "done"
  ELSE IF caller[q] = "checked" THEN "admitted"
  ELSE "new"

LoopState == IF pc \in {"created", "exited"} THEN pc ELSE "running"

Current == IF pc = "running" THEN m_processed_requests[iter] ELSE NONE

Pool == INSTANCE CoroutinePool WITH
  working <- m_working,
  loop    <- LoopState,
  stage   <- [q \in Requests |-> StageOf(q)],
  current <- Current

\* The handler implements the pool that its client relies on: it admits
\* requests only while it works, and a coroutine that has returned is never
\* resumed again although it stays in the list until the lock is taken.
ImplementsPool == Pool!PoolSpec

\* With the limit 255 the loop never turns on the spot, however many
\* coroutines end or are kept in a pass.
NeverSpins == ~Spinning

\* Lines 37-50: once the limit has been set to 255 for good, every coroutine of the
\* list returns at last while the handler works.
CoroutinesReturn ==
  <>[](m_max = 255) =>
    \A q \in Requests : (q \in Listed) ~> (q \notin Listed \/ ~m_working)

\* inc/network_request_handler.hpp:71: "Stops the processing of all network
\* requests"; the call of stop() comes back.
StopReturns == (stopper = "joining") ~> (stopper = "returned")

\* Lines 23 and 32-54: it does so if the limit is 255 for good and run() has set
\* m_working before stop() has reset it: line 30 overwrites what an earlier stop()
\* has stored, and its join waits for ever whatever the limit is.
StopReturnsAtTopLimit ==
  <>[](m_max = 255) =>
    (stopper = "joining" /\ pc # "created" /\ ~m_working) ~> (stopper = "returned")
=============================================================================

----------------------- MODULE NetworkRequestsHandler -----------------------
(***************************************************************************)
(* tristan::network::NetworkRequestsHandler                                *)
(* (inc/network_request_handler.hpp, src/network_request_handler.cpp): the *)
(* dispatcher's loop in _run(), the finished and failed callbacks that it  *)
(* gives each request, _stop(), pause(), resume() and addRequest().        *)
(*                                                                         *)
(* The threads are the Runner that executes _run(), the thread Async of    *)
(* the asynchronous handler (used through its promise, CoroutinePool), one *)
(* detached worker for each OUT_OF_QUEUE request, and the users' threads.  *)
(* The callbacks of a request run in the thread that ends the request.     *)
(*                                                                         *)
(* Who holds a mutex is told by where the threads stand: ActiveFree,       *)
(* ErrorFree and NrFree.  A mutex that is taken and released between two   *)
(* observable steps is a guard of one action.                              *)
(***************************************************************************)
EXTENDS CoroutinePool, SequencesExt

CONSTANTS
  Runner, Async,  \* the two threads that live as long as the handler
  Workers,        \* identities for the detached threads (a bound of the model)
  GONE,           \* what an iterator points to when its element was erased
  OutOfQueue,     \* the requests with Priority::OUT_OF_QUEUE
  Unsupported,    \* the requests that are neither TCP nor HTTP
  InvalidUrl,     \* the HTTP requests that were made of an invalid Url
  Limits,         \* what setActiveDownloadsLimit() may be called with
  UserHalts,      \* the requests the user may cancel or pause
  Careful         \* does the client keep to the discipline described below?

ASSUME DispatcherAssumption ==
  /\ OutOfQueue \subseteq Requests
  /\ Unsupported \subseteq Requests
  /\ InvalidUrl \subseteq Requests \ Unsupported
  /\ UserHalts \subseteq Requests
  /\ Limits \subseteq Nat
  /\ {NONE, GONE} \cap Requests = {}
  /\ NONE # GONE
  /\ Runner # Async
  /\ {Runner, Async} \cap Workers = {}
  /\ Careful \in BOOLEAN

VARIABLES
  m_working, m_paused,  \* atomic<bool>
  limit,                \* of the asynchronous handler: its m_max...count
  m_requests,           \* the pending requests, ordered by their addresses
  m_active_requests,    \* a list
  m_error_requests,     \* a list
  pcR, taken,           \* where _run() stands, and the request it has in hand
  job,                  \* the request of each detached worker
  cb, pos,              \* for each thread its callback and the iterator in it
  pcS,                  \* where stop() stands
  added, halted,        \* requests submitted; canceled or paused
  finished,             \* history: their finished callback has run
  ub                    \* history: an erased element of a list, or a handler that
                        \* was destroyed, was used

listVars == <<m_requests, m_active_requests, m_error_requests>>
flagVars == <<m_working, m_paused, limit>>
execVars == <<job, cb, pos>>
userVars == <<added, halted>>
vars == <<poolVars, listVars, flagVars, execVars, userVars, pcR, taken, pcS,
          finished, ub>>

Executors == {Runner, Async} \cup Workers

\* The request a thread is occupied with.
Handled(e) ==
  IF e = Runner THEN taken ELSE IF e = Async THEN current ELSE job[e]

ActiveSet == ToSet(m_active_requests)

RunnerStates == {"idle", "starting", "loop", "take", "taken", "handing",
                 "enlisting", "rejecting", "exited"}

\* What the constructor of the asynchronous handler sets, and the only limit that
\* its counter of eight bits never exceeds.
DefaultLimit == 50
TopLimit == 255

DispTypeOK ==
  /\ PoolTypeOK
  /\ m_working \in BOOLEAN /\ m_paused \in BOOLEAN
  /\ limit \in Limits \cup {DefaultLimit}
  /\ m_requests \subseteq Requests
  /\ m_active_requests \in Seq(Requests)
  /\ m_error_requests \in Seq(Requests)
  /\ pcR \in RunnerStates
  /\ taken \in Requests \cup {NONE}
  /\ job \in [Workers -> Requests \cup {NONE}]
  /\ cb \in [Executors -> {"none", "finish", "scan", "store", "over"}]
  /\ pos \in [Executors -> Requests \cup {NONE, GONE}]
  /\ pcS \in {"idle", "joining", "locking", "requeue", "returned"}
  /\ added \subseteq Requests /\ halted \subseteq Requests
  /\ finished \subseteq Requests
  /\ ub \in BOOLEAN

DispInit ==
  /\ PoolInit
  /\ m_working = FALSE /\ m_paused = FALSE
  /\ limit = DefaultLimit
  /\ m_requests = {}
  /\ m_active_requests = <<>> /\ m_error_requests = <<>>
  /\ pcR = "idle" /\ taken = NONE
  /\ job = [w \in Workers |-> NONE]
  /\ cb = [e \in Executors |-> "none"]
  /\ pos = [e \in Executors |-> NONE]
  /\ pcS = "idle"
  /\ added = {} /\ halted = {} /\ finished = {}
  /\ ub = FALSE

-----------------------------------------------------------------------------
(* Mutexes.                                                                *)

\* m_active_nr_lock: _run() holds it while it hands a request over, _stop()
\* while it requeues.
ActiveFree ==
  /\ pcR \notin {"handing", "enlisting", "rejecting"}
  /\ pcS # "requeue"

\* m_error_nr_lock: held from the copy into m_error_requests to the erasure.
ErrorFree == \A e \in Executors : cb[e] # "store"

\* m_nr_multiset_lock: _stop() is the only one to hold it for several steps.
NrFree == pcS # "requeue"

\* Where the element of q is in the list (PlacesDisjoint: it has only one).
Position(q) ==
  CHOOSE i \in 1..Len(m_active_requests) : m_active_requests[i] = q

\* Erase the element of q if there is one; iterators at it dangle from then on.
EraseActive(q) ==
  m_active_requests' =
    IF q \in ActiveSet THEN RemoveAt(m_active_requests, Position(q))
    ELSE m_active_requests

IteratorsAfterErase(q) ==
  [e \in Executors |-> IF pos[e] = q THEN GONE ELSE pos[e]]

-----------------------------------------------------------------------------
(* What a slip in the code would make of some of the actions below.  They  *)
(* are in no specification: with one in the place of its original, TLC     *)
(* must find the property violated that is there to exclude it.            *)

\* _run(): a pause is overlooked.
LoopTestUnpaused ==
  /\ pcR = "loop"
  /\ pcR' = IF ~m_working THEN "exited" ELSE IF m_requests = {} THEN pcR ELSE "take"
  /\ UNCHANGED <<poolVars, listVars, flagVars, execVars, userVars, taken, pcS,
                 finished, ub>>

\* The failed callback starts at the second active request.
StartScanSecond(e) ==
  LET short == Len(m_active_requests) < 2 IN
    /\ cb' = [cb EXCEPT ![e] = IF short THEN "over" ELSE "scan"]
    /\ pos' = [pos EXCEPT ![e] = IF short THEN NONE ELSE m_active_requests[2]]

\* The finished callback erases nothing.
FinishedCallbackKeeping(e) ==
  /\ cb[e] = "finish"
  /\ ActiveFree
  /\ cb' = [cb EXCEPT ![e] = "over"]
  /\ finished' = finished \cup {Handled(e)}
  /\ UNCHANGED <<poolVars, listVars, flagVars, userVars, job, pos, pcR, taken, pcS,
                 ub>>

\* The failed callback stores what its iterator points to without comparing it.
ScanStoreUnchecked(e) ==
  /\ cb[e] = "scan"
  /\ ErrorFree
  /\ m_error_requests' = Append(m_error_requests, pos[e])
  /\ cb' = [cb EXCEPT ![e] = "store"]
  /\ UNCHANGED <<poolVars, m_requests, m_active_requests, flagVars, userVars,
                 job, pos, pcR, taken, pcS, finished, ub>>

\* It stores its request and erases nothing.
StoreEraseKeeping(e) ==
  /\ cb[e] = "store"
  /\ pos[e] # GONE
  /\ ActiveFree
  /\ pos' = [pos EXCEPT ![e] = NONE]
  /\ cb' = [cb EXCEPT ![e] = "over"]
  /\ UNCHANGED <<poolVars, listVars, flagVars, userVars, job, pcR, taken, pcS,
                 finished, ub>>

\* A request that is canceled leaves the pending ones at once.
HaltRequestPending(q) ==
  /\ q \in UserHalts
  /\ halted' = halted \cup {q}
  /\ m_requests' = m_requests \ {q}
  /\ UNCHANGED <<poolVars, m_active_requests, m_error_requests, flagVars, execVars,
                 added, pcR, taken, pcS, finished, ub>>

\* _stop() does not wait for the asynchronous handler.
StopJoinAtOnce ==
  /\ pcS = "joining"
  /\ pcS' = "locking"
  /\ UNCHANGED <<poolVars, listVars, flagVars, execVars, userVars, pcR, taken,
                 finished, ub>>

\* _stop() does not lock the active requests.
StopLockNone ==
  /\ pcS = "locking"
  /\ pcS' = "requeue"
  /\ UNCHANGED <<poolVars, listVars, flagVars, execVars, userVars, pcR, taken,
                 finished, ub>>

\* _stop() erases the active requests and makes none of them pending.
StopRequeueDropping ==
  /\ pcS = "requeue"
  /\ m_active_requests # <<>>
  /\ halted' = halted \cup {Head(m_active_requests)}
  /\ pos' = IteratorsAfterErase(Head(m_active_requests))
  /\ m_active_requests' = Tail(m_active_requests)
  /\ UNCHANGED <<poolVars, m_requests, m_error_requests, flagVars, job, cb, added,
                 pcR, taken, pcS, finished, ub>>

\* _stop() makes them pending and erases none of them.
StopRequeueKeeping ==
  /\ pcS = "requeue"
  /\ m_active_requests # <<>>
  /\ halted' = halted \cup {Head(m_active_requests)}
  /\ m_requests' = m_requests \cup {Head(m_active_requests)}
  /\ UNCHANGED <<poolVars, m_active_requests, m_error_requests, flagVars, execVars,
                 added, pcR, taken, pcS, finished, ub>>

\* _stop() leaves the loop of _run() going.
StopEndWorking ==
  /\ pcS = "requeue"
  /\ m_active_requests = <<>>
  /\ pcS' = "returned"
  /\ UNCHANGED <<poolVars, listVars, flagVars, execVars, userVars, pcR, taken,
                 finished, ub>>

-----------------------------------------------------------------------------
(* The Runner.                                                             *)

\* run() creates the asynchronous handler and starts its thread ...
RunStart ==
  /\ pcR = "idle"
  /\ pcR' = "starting"
  /\ UNCHANGED <<poolVars, listVars, flagVars, execVars, userVars, taken, pcS,
                 finished, ub>>

\* ... and declares itself working, whatever a stop() has stored meanwhile.
RunLoop ==
  /\ pcR = "starting"
  /\ pcR' = "loop"
  /\ m_working' = TRUE
  /\ UNCHANGED <<poolVars, listVars, m_paused, limit, execVars, userVars, taken,
                 pcS, finished, ub>>

\* The thread runs the code of a request and no callback of it.
Busy(e) ==
  /\ e # Runner
  /\ Handled(e) # NONE
  /\ cb[e] = "none"

\* run() is called again when it has returned, after a stop().  It replaces both
\* handlers: a detached thread that still executes the former one's code goes on
\* to use its members (src/sync_network_request_handler_impl.cpp:63, 83).  A pause
\* remains, the limit does not.
RunAgain ==
  /\ pcR = "exited"
  /\ Renew
  /\ pcR' = "starting"
  /\ pcS' = "idle"
  /\ limit' = DefaultLimit
  /\ ub' = (ub \/ \E w \in Workers : Busy(w))
  /\ UNCHANGED <<listVars, m_working, m_paused, execVars, userVars, taken, finished>>

\* The tests of the loop, read without a lock.
LoopTest ==
  /\ pcR = "loop"
  /\ \/ /\ ~m_working
        /\ pcR' = "exited"
     \/ /\ m_working
        /\ m_requests # {}
        /\ ~m_paused
        /\ pcR' = "take"
  /\ UNCHANGED <<poolVars, listVars, flagVars, execVars, userVars, taken, pcS,
                 finished, ub>>

\* Take the first request.  m_requests is ordered by pointers, of which the
\* program says nothing: any request may be the first.
Take ==
  /\ pcR = "take"
  /\ NrFree
  /\ \E q \in m_requests :
       /\ taken' = q
       /\ m_requests' = m_requests \ {q}
  /\ pcR' = "taken"
  /\ UNCHANGED <<poolVars, m_active_requests, m_error_requests, flagVars,
                 execVars, userVars, pcS, finished, ub>>

\* Lock m_active_nr_lock until the request is handed over, and list it.
Enter ==
  /\ pcR = "taken"
  /\ ActiveFree
  /\ m_active_requests' = Append(m_active_requests, taken)
  /\ pcR' = "handing"
  /\ UNCHANGED <<poolVars, m_requests, m_error_requests, flagVars, execVars,
                 userVars, taken, pcS, finished, ub>>

\* The failed callback begins: its iterator is at the first active request.
StartScan(e) ==
  /\ cb' = [cb EXCEPT ![e] = IF m_active_requests = <<>> THEN "over" ELSE "scan"]
  /\ pos' = [pos EXCEPT ![e] = IF m_active_requests = <<>> THEN NONE
                               ELSE Head(m_active_requests)]

\* A request out of the queue gets a detached thread of its own.
HandToWorker(w) ==
  /\ pcR = "handing"
  /\ taken \in OutOfQueue \ Unsupported
  /\ job[w] = NONE
  /\ job' = [job EXCEPT ![w] = taken]
  /\ pcR' = "loop"
  /\ taken' = NONE
  /\ UNCHANGED <<poolVars, listVars, flagVars, userVars, cb, pos, pcS, finished,
                 ub>>

\* One that no handler supports fails in this thread, under the lock.
RefuseUnsupported ==
  /\ pcR = "handing"
  /\ taken \in OutOfQueue \cap Unsupported
  /\ pcR' = "rejecting"
  /\ StartScan(Runner)
  /\ UNCHANGED <<poolVars, listVars, flagVars, userVars, job, taken, pcS,
                 finished, ub>>

\* Any other goes to the asynchronous handler, which may not work yet or any
\* more: then it sets the error here and the request fails under the lock.
HandToPool ==
  /\ pcR = "handing"
  /\ taken \notin OutOfQueue
  /\ Offer(taken)
  /\ IF working
       THEN pcR' = "enlisting" /\ UNCHANGED <<cb, pos>>
       ELSE pcR' = "rejecting" /\ StartScan(Runner)
  /\ UNCHANGED <<listVars, flagVars, userVars, job, taken, pcS, finished, ub>>

EnlistTaken ==
  /\ pcR = "enlisting"
  /\ Enlist(taken)
  /\ pcR' = "loop"
  /\ taken' = NONE
  /\ UNCHANGED <<listVars, flagVars, execVars, userVars, pcS, finished, ub>>

RunnerNext ==
  \/ RunStart \/ RunLoop \/ LoopTest \/ Take \/ Enter \/ RefuseUnsupported
  \/ HandToPool \/ EnlistTaken
  \/ \E w \in Workers : HandToWorker(w)

-----------------------------------------------------------------------------
(* The threads that handle requests, and the callbacks they run.           *)

\* setStatus(DONE): the finished callback is invoked.
Succeed(e) ==
  /\ Busy(e)
  /\ Handled(e) \notin Unsupported \cup InvalidUrl
  /\ cb' = [cb EXCEPT ![e] = "finish"]
  /\ UNCHANGED <<poolVars, listVars, flagVars, userVars, job, pos, pcR, taken,
                 pcS, finished, ub>>

\* setError(): the failed callback is invoked.  A request that was dispatched
\* twice has the callback twice, and an unsupported one fails twice; what comes
\* after the first callback that finds the request looks for it in vain, and one
\* that found nothing before is as if the request failed later.
Fail(e) ==
  /\ Busy(e)
  /\ StartScan(e)
  /\ UNCHANGED <<poolVars, listVars, flagVars, userVars, job, pcR, taken, pcS,
                 finished, ub>>

\* The exchange returns without an outcome: it notices that its request was
\* canceled or paused, or, when the head of the answer has come, that the request
\* has an error, which an invalid Url left in it from its construction on.
Quit(e) ==
  /\ Busy(e)
  /\ Handled(e) \in (halted \cup InvalidUrl) \ Unsupported
  /\ cb' = [cb EXCEPT ![e] = "over"]
  /\ UNCHANGED <<poolVars, listVars, flagVars, userVars, job, pos, pcR, taken,
                 pcS, finished, ub>>

\* The finished callback, under m_active_nr_lock.
FinishedCallback(e) ==
  /\ cb[e] = "finish"
  /\ ActiveFree
  /\ EraseActive(Handled(e))
  /\ pos' = IteratorsAfterErase(Handled(e))
  /\ cb' = [cb EXCEPT ![e] = "over"]
  /\ finished' = finished \cup {Handled(e)}
  /\ UNCHANGED <<poolVars, m_requests, m_error_requests, flagVars, userVars, job,
                 pcR, taken, pcS, ub>>

\* The failed callback looks for its request, without a lock: ++iter.
ScanNext(e) ==
  /\ cb[e] = "scan"
  /\ pos[e] \in ActiveSet \ {Handled(e)}
  /\ LET i == Position(pos[e]) + 1 IN
       IF i <= Len(m_active_requests)
         THEN /\ pos' = [pos EXCEPT ![e] = m_active_requests[i]]
              /\ UNCHANGED cb
         ELSE /\ pos' = [pos EXCEPT ![e] = NONE]
              /\ cb' = [cb EXCEPT ![e] = "over"]
  /\ UNCHANGED <<poolVars, listVars, flagVars, userVars, job, pcR, taken, pcS,
                 finished, ub>>

\* It has found it, takes m_error_nr_lock and copies the request.
ScanStore(e) ==
  /\ cb[e] = "scan"
  /\ pos[e] = Handled(e)
  /\ ErrorFree
  /\ m_error_requests' = Append(m_error_requests, pos[e])
  /\ cb' = [cb EXCEPT ![e] = "store"]
  /\ UNCHANGED <<poolVars, m_requests, m_active_requests, flagVars, userVars,
                 job, pos, pcR, taken, pcS, finished, ub>>

\* It takes m_active_nr_lock as well, erases at the iterator and releases both.
\* The Runner comes here only while it holds that lock itself, and stays.
StoreErase(e) ==
  /\ cb[e] = "store"
  /\ pos[e] # GONE
  /\ ActiveFree
  /\ EraseActive(pos[e])
  /\ pos' = [IteratorsAfterErase(pos[e]) EXCEPT ![e] = NONE]
  /\ cb' = [cb EXCEPT ![e] = "over"]
  /\ UNCHANGED <<poolVars, m_requests, m_error_requests, flagVars, userVars, job,
                 pcR, taken, pcS, finished, ub>>

\* The callback uses its iterator although the element was erased, which is
\* undefined behaviour; here the thread never gets any further.
UseDangling(e) ==
  /\ pos[e] = GONE
  /\ \/ cb[e] = "scan"
     \/ cb[e] = "store" /\ ActiveFree
  /\ ub' = TRUE
  /\ UNCHANGED <<poolVars, listVars, flagVars, execVars, userVars, pcR, taken,
                 pcS, finished>>

CallbackNext(e) ==
  FinishedCallback(e) \/ ScanNext(e) \/ ScanStore(e) \/ StoreErase(e)
    \/ UseDangling(e)

\* A detached thread ends.
WorkerEnds(w) ==
  /\ cb[w] = "over"
  /\ cb' = [cb EXCEPT ![w] = "none"]
  /\ job' = [job EXCEPT ![w] = NONE]
  /\ UNCHANGED <<poolVars, listVars, flagVars, userVars, pos, pcR, taken, pcS,
                 finished, ub>>

\* A coroutine of the asynchronous handler returns.
CoroutineEnds ==
  /\ cb[Async] = "over"
  /\ Finish
  /\ cb' = [cb EXCEPT ![Async] = "none"]
  /\ UNCHANGED <<listVars, flagVars, userVars, job, pos, pcR, taken, pcS,
                 finished, ub>>

\* The other steps of the asynchronous handler; see AsyncRequestHandler.
AsyncLoop ==
  /\ pcR # "idle"
  /\ cb[Async] = "none"
  /\ \/ Launch \/ Exit \/ Suspend
     \/ \E q \in Requests : Begin(q)
  /\ UNCHANGED <<listVars, flagVars, execVars, userVars, pcR, taken, pcS,
                 finished, ub>>

-----------------------------------------------------------------------------
(* The users.  A careful client submits requests and ends a pause only     *)
(* while the asynchronous handler runs and no stop() has begun, and calls  *)
(* stop() only when it has paused the handler and the Runner has come to   *)
(* rest at the head of its loop.  Other clients do what the interface      *)
(* lets them do; stop() and setActiveDownloadsLimit() before run() would   *)
(* use a null pointer.                                                     *)

Serving == Careful => loop = "running" /\ pcS = "idle"

AddRequest(q) ==
  /\ q \notin added
  /\ Serving
  /\ NrFree
  /\ added' = added \cup {q}
  /\ m_requests' = m_requests \cup {q}
  /\ UNCHANGED <<poolVars, m_active_requests, m_error_requests, flagVars,
                 execVars, halted, pcR, taken, pcS, finished, ub>>

Pause ==
  /\ m_paused' = TRUE
  /\ UNCHANGED <<poolVars, listVars, m_working, limit, execVars, userVars, pcR,
                 taken, pcS, finished, ub>>

Resume ==
  /\ Serving
  /\ m_paused' = FALSE
  /\ UNCHANGED <<poolVars, listVars, m_working, limit, execVars, userVars, pcR,
                 taken, pcS, finished, ub>>

\* For the asynchronous handler of this run(); the next one has the default again.
SetActiveDownloadsLimit ==
  /\ pcR # "idle"
  /\ limit' \in Limits
  /\ UNCHANGED <<poolVars, listVars, m_working, m_paused, execVars, userVars, pcR,
                 taken, pcS, finished, ub>>

\* NetworkRequestBase::cancel() or pauseProcessing() by the user.
HaltRequest(q) ==
  /\ q \in UserHalts
  /\ halted' = halted \cup {q}
  /\ UNCHANGED <<poolVars, listVars, flagVars, execVars, added, pcR, taken, pcS,
                 finished, ub>>

\* _stop(): tell the asynchronous handler to stop ...
StopAsync ==
  /\ pcS = "idle"
  /\ pcR # "idle"
  /\ Careful => m_paused /\ pcR = "loop" /\ loop = "running"
  /\ Halt
  /\ pcS' = "joining"
  /\ UNCHANGED <<listVars, flagVars, execVars, userVars, pcR, taken, finished,
                 ub>>

\* ... join its thread ...
StopJoin ==
  /\ pcS = "joining"
  /\ loop = "exited"
  /\ pcS' = "locking"
  /\ UNCHANGED <<poolVars, listVars, flagVars, execVars, userVars, pcR, taken,
                 finished, ub>>

\* ... take both locks ...
StopLock ==
  /\ pcS = "locking"
  /\ ActiveFree
  /\ pcS' = "requeue"
  /\ UNCHANGED <<poolVars, listVars, flagVars, execVars, userVars, pcR, taken,
                 finished, ub>>

\* ... cancel the active requests one by one and make them pending again ...
StopRequeue ==
  /\ pcS = "requeue"
  /\ m_active_requests # <<>>
  /\ LET q == Head(m_active_requests) IN
       /\ halted' = halted \cup {q}
       /\ m_requests' = m_requests \cup {q}
       /\ pos' = IteratorsAfterErase(q)
  /\ m_active_requests' = Tail(m_active_requests)
  /\ UNCHANGED <<poolVars, m_error_requests, flagVars, job, cb, added, pcR,
                 taken, pcS, finished, ub>>

\* ... and let the loop of _run() end.
StopEnd ==
  /\ pcS = "requeue"
  /\ m_active_requests = <<>>
  /\ m_working' = FALSE
  /\ pcS' = "returned"
  /\ UNCHANGED <<poolVars, listVars, m_paused, limit, execVars, userVars, pcR,
                 taken, finished, ub>>

StopperNext == StopJoin \/ StopLock \/ StopRequeue \/ StopEnd

DispNext ==
  \/ RunnerNext
  \/ \E e \in Executors : Succeed(e) \/ Fail(e) \/ Quit(e) \/ CallbackNext(e)
  \/ \E w \in Workers : WorkerEnds(w)
  \/ CoroutineEnds \/ AsyncLoop
  \/ \E q \in Requests : AddRequest(q) \/ HaltRequest(q)
  \/ SetActiveDownloadsLimit
  \/ Pause \/ Resume \/ RunAgain \/ StopAsync \/ StopperNext

DispSpec == DispInit /\ [][DispNext]_vars

(***************************************************************************)
(* Fairness: no thread stays in its tracks for ever while it could go on,  *)
(* but for the loop of the asynchronous handler, which may turn on the     *)
(* spot once a coroutine has ended (async_hang).  With the limit 255 it    *)
(* never does: every coroutine of its list is resumed again and again and  *)
(* the loop ends after a stop() (OneResumePerPass, CoroutinesReturn and    *)
(* StopReturnsAtTopLimit of AsyncRequestHandler).  A coroutine that is     *)
(* resumed again and again ends, by an answer, an error, its time-out or a *)
(* return without an outcome.  Nothing is assumed of the users.            *)
(***************************************************************************)
Ends(e) == Succeed(e) \/ Fail(e) \/ Quit(e)

DispFairness ==
  /\ WF_vars(RunnerNext)
  /\ WF_vars(StopperNext)
  /\ WF_vars(AsyncLoop /\ Launch)
  /\ WF_vars(AsyncLoop /\ limit = TopLimit)
  /\ WF_vars(CoroutineEnds)
  /\ \A e \in Executors : WF_vars(CallbackNext(e))
  /\ \A q \in Requests :
       /\ SF_vars(AsyncLoop /\ limit = TopLimit /\ Begin(q))
       /\ SF_vars(Ends(Async) /\ current = q)
  /\ \A w \in Workers : WF_vars(Ends(w) \/ WorkerEnds(w))

DispLiveSpec == DispSpec /\ DispFairness

-----------------------------------------------------------------------------
(* Properties.                                                             *)

Failed == ToSet(m_error_requests)

\* Lines 71-104, 119-136: no request is lost between the lists: each one that
\* was submitted is pending, in the Runner's hand, active, finished or failed.
NeverLost ==
  \A q \in added :
    q \in m_requests \cup {taken} \cup ActiveSet \cup finished \cup Failed

\* Lines 71-104, 125-129: a request is never pending and active at once, and
\* never twice in the list of active requests, although stop() puts back what
\* another thread may be about to remove.
PlacesDisjoint ==
  /\ m_requests \cap ActiveSet = {}
  /\ IsInjective(m_active_requests)
  /\ taken \notin m_requests
  /\ pcR = "taken" => taken \notin ActiveSet

\* Lines 68-73: m_requests is tested without its lock and read with it; the
\* begin() of an empty container is never dereferenced.
TakeIsSafe == pcR = "take" => m_requests # {}

\* Lines 119-123 and async_request_handler.cpp:57-63: when stop() has the lock of
\* the active requests, no request is still on its way from the test of m_working
\* into the list of coroutines, however stale the value is that was read there: none
\* gets a coroutine behind stop()'s back.
NoneAdmittedBehindStop ==
  pcS \in {"requeue", "returned"} => \A q \in Requests : stage[q] # "admitted"

\* Lines 84-96: a failed request is stored once, although its failed callback
\* may be registered by two dispatches and invoked in two threads.
ErrorsStoredOnce == IsInjective(m_error_requests)

\* The inductive invariant behind the properties above, in named parts.

\* Lines 77, 88, 90, 97, 122: one thread at a time has each mutex.
LocksExclusive ==
  /\ ~(pcR \in {"handing", "enlisting", "rejecting"} /\ pcS = "requeue")
  /\ \A e, f \in Executors : cb[e] = "store" /\ cb[f] = "store" => e = f

\* What the Runner has in hand, and that it is listed while the lock is held.
TakenAgrees ==
  /\ taken # NONE <=> pcR \in {"taken", "handing", "enlisting", "rejecting"}
  /\ pcR \in {"handing", "enlisting", "rejecting"} => taken \in ActiveSet

\* The lists hold only what was submitted.
OnlySubmitted ==
  /\ m_requests \cup ActiveSet \cup Failed \subseteq added
  /\ taken \in added \cup {NONE}

\* Callbacks belong to requests, and the Runner runs one only to reject.
CallbacksAgree ==
  \A e \in Executors : cb[e] # "none" =>
    /\ Handled(e) \in Requests
    /\ e = Runner => pcR = "rejecting"

\* An iterator is at an active request, or the element was erased.
IteratorsAgree ==
  \A e \in Executors :
    /\ pos[e] \in ActiveSet \cup {NONE, GONE}
    /\ cb[e] \in {"scan", "store"} => pos[e] # NONE
    /\ cb[e] = "store" => pos[e] \in Failed \cup {GONE}

\* Unless a thread was stopped by a dangling iterator while it held the lock of
\* the failed requests, these are in no other list but for the one in erasure.
FailedIsOver ==
  (\A e \in Executors : cb[e] = "store" => pos[e] # GONE) =>
    \A q \in Failed :
      \/ q \notin m_requests \cup ActiveSet \cup {taken}
      \/ \E e \in Executors : cb[e] = "store" /\ pos[e] = q

DispInv ==
  /\ DispTypeOK
  /\ LocksExclusive
  /\ TakeIsSafe
  /\ TakenAgrees
  /\ OnlySubmitted
  /\ CallbacksAgree
  /\ PlacesDisjoint
  /\ NeverLost
  /\ IteratorsAgree
  /\ FailedIsOver
  /\ ErrorsStoredOnce

\* inc/network_request_handler.hpp:33: "Threadsafe Yes".  The failed callback
\* never uses an iterator of an element that another thread has erased.
NoDanglingIterator == ~ub

\* Lines 97-103: a request in the list of active requests is on its way to a
\* handler or has one, so that it will leave the list.  What was halted may have
\* none any more, and so may a request with an invalid Url, whose exchange returns
\* and invokes no callback (http_request.cpp:24,
\* async_network_request_handler_impl.cpp:222-225).
ActiveIsHandled ==
  \A q \in ActiveSet :
    \/ taken = q
    \/ stage[q] \in {"admitted", "listed"}
    \/ \E w \in Workers : job[w] = q
    \/ q \in halted \cup InvalidUrl

\* Lines 119-131 and inc/network_request_handler.hpp:71: when stop() has
\* returned, nothing handles a request and none is dispatched.
NothingRunsAfterStop ==
  pcS = "returned" =>
    /\ current = NONE
    /\ \A w \in Workers : job[w] = NONE
    /\ pcR \in {"loop", "exited"}

\* Lines 120-129: stop() makes pending again only what was not brought to an
\* end: it joins the asynchronous handler before it looks at the list.
NothingEndedIsRequeued == m_requests \cap (finished \cup Failed) = {}

\* Lines 97-103: the Runner never runs a failed callback while it holds the
\* lock that the callback takes, if no request is OUT_OF_QUEUE (one that is neither
\* TCP nor HTTP is refused at line 100) and the client is careful.
RunnerNeverLocksTwice == pcR # "rejecting"

\* Lines 67-105: a submitted request is brought to an end, unless the client
\* pauses or stops the handler, or leaves its limit below 255, with which the loop
\* may hang.  A request with an invalid Url is none of these: it may never come to an
\* end, although inc/network_request_base.hpp:687 says of its failed callbacks that
\* they "will be invoked when network request processing had failed".
RequestsSettle ==
  \A q \in Requests \ InvalidUrl :
    (q \in added) ~>
      \/ q \in finished \cup Failed \cup halted
      \/ m_paused \/ pcS # "idle" \/ limit # TopLimit

\* inc/network_request_handler.hpp:71: "Stops the processing of all network
\* requests."; a call of stop() returns, with the limit 255.
StopReturns == (pcS = "joining") ~> (pcS = "returned" \/ limit # TopLimit)

\* Lines 63, 67, 130 and inc/network_request_handler.hpp:76-77, where only a pause
\* is said not to leave the loop: after a careful client's stop() run() returns.  (The
\* store at line 63 undoes a stop() that is over by then.)
RunReturns == (pcS = "returned") ~> (pcR = "exited")
=============================================================================

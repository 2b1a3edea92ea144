-------------------- MODULE NetworkRequestsHandler_proofs --------------------
(***************************************************************************)
(* Proofs about NetworkRequestsHandler, for every set of requests, every   *)
(* number of detached threads and every client, careful or not.            *)
(***************************************************************************)
EXTENDS NetworkRequestsHandler, SequenceLemmas

USE DEF listVars, flagVars, execVars, userVars

-----------------------------------------------------------------------------
(* The pool, seen from its client.                                         *)

LEMMA PoolTypeStep ==
  ASSUME PoolTypeOK, [PoolNext]_poolVars
  PROVE  PoolTypeOK'
<1> USE DEF PoolTypeOK, Stages
<1>1. CASE Launch \/ Halt \/ Exit \/ Suspend
  BY <1>1 DEF Launch, Halt, Exit, Suspend
<1>6. CASE Renew
  BY <1>6 DEF Renew
<1>2. CASE Finish
  BY <1>2 DEF Finish
<1>3. ASSUME NEW q \in Requests, Offer(q)
      PROVE  PoolTypeOK'
  BY <1>3 DEF Offer
<1>4. ASSUME NEW q \in Requests, Enlist(q) \/ Begin(q)
      PROVE  PoolTypeOK'
  BY <1>4 DEF Enlist, Begin
<1>5. CASE UNCHANGED poolVars
  BY <1>5 DEF poolVars
<1> QED
  BY <1>1, <1>2, <1>3, <1>4, <1>5, <1>6 DEF PoolNext

\* A pool whose thread does not run is in no coroutine.
PoolAtRest == loop # "running" => current = NONE

LEMMA PoolAtRestStep ==
  ASSUME PoolTypeOK, PoolAtRest, [PoolNext]_poolVars
  PROVE  PoolAtRest'
<1> USE DEF PoolAtRest, PoolTypeOK
<1>1. CASE Launch \/ Halt \/ Exit \/ Suspend \/ Renew \/ Finish
  BY <1>1 DEF Launch, Halt, Exit, Suspend, Renew, Finish
<1>2. ASSUME NEW q \in Requests, Offer(q) \/ Enlist(q) \/ Begin(q)
      PROVE  PoolAtRest'
  BY <1>2 DEF Offer, Enlist, Begin
<1>3. CASE UNCHANGED poolVars
  BY <1>3 DEF poolVars
<1> QED
  BY <1>1, <1>2, <1>3 DEF PoolNext

\* A step of the dispatcher is at most one step of the pool.
LEMMA DispStepIsPoolStep ==
  ASSUME DispTypeOK, TakenAgrees, [DispNext]_vars
  PROVE  [PoolNext]_poolVars
<1>1. CASE RunnerNext
  <2>1. pcR \in {"handing", "enlisting"} => taken \in Requests
    BY DEF TakenAgrees, DispTypeOK
  <2>2. CASE HandToPool
    BY <2>1, <2>2 DEF HandToPool, PoolNext
  <2>3. CASE EnlistTaken
    BY <2>1, <2>3 DEF EnlistTaken, PoolNext
  <2>4. CASE \E w \in Workers : HandToWorker(w)
    BY <2>4 DEF HandToWorker
  <2>5. CASE RunStart \/ RunLoop \/ LoopTest \/ Take \/ Enter \/ RefuseUnsupported
    BY <2>5 DEF RunStart, RunLoop, LoopTest, Take, Enter, RefuseUnsupported
  <2> QED
    BY <1>1, <2>2, <2>3, <2>4, <2>5 DEF RunnerNext
<1>2. ASSUME NEW e \in Executors,
             Succeed(e) \/ Fail(e) \/ Quit(e) \/ CallbackNext(e)
      PROVE  UNCHANGED poolVars
  BY <1>2 DEF Succeed, Fail, Quit, CallbackNext, FinishedCallback, ScanNext,
              ScanStore, StoreErase, UseDangling
<1>3. ASSUME NEW w \in Workers, WorkerEnds(w)
      PROVE  UNCHANGED poolVars
  BY <1>3 DEF WorkerEnds
<1>4. CASE CoroutineEnds \/ AsyncLoop \/ StopAsync \/ RunAgain
  BY <1>4 DEF CoroutineEnds, AsyncLoop, StopAsync, RunAgain, PoolNext
<1>5. ASSUME NEW q \in Requests, AddRequest(q) \/ HaltRequest(q)
      PROVE  UNCHANGED poolVars
  BY <1>5 DEF AddRequest, HaltRequest
<1>6. CASE SetActiveDownloadsLimit \/ Pause \/ Resume \/ StopperNext
  BY <1>6 DEF SetActiveDownloadsLimit, Pause, Resume, StopperNext, StopJoin, StopLock, StopRequeue, StopEnd
<1>7. CASE UNCHANGED vars
  BY <1>7 DEF vars
<1> QED
  BY <1>1, <1>2, <1>3, <1>4, <1>5, <1>6, <1>7 DEF DispNext

-----------------------------------------------------------------------------
(* The list of active requests.                                            *)

LEMMA PositionProperties ==
  ASSUME NEW q \in ActiveSet, m_active_requests \in Seq(Requests)
  PROVE  /\ Position(q) \in 1..Len(m_active_requests)
         /\ m_active_requests[Position(q)] = q
<1>1. \E i \in 1..Len(m_active_requests) : m_active_requests[i] = q
  BY ToSetProperties DEF ActiveSet
<1> QED
  BY <1>1 DEF Position

\* Erasing q takes it, and nothing else, from the list.
LEMMA EraseActiveProperties ==
  ASSUME m_active_requests \in Seq(Requests), IsInjective(m_active_requests),
         NEW q, EraseActive(q)
  PROVE  /\ m_active_requests' \in Seq(Requests)
         /\ IsInjective(m_active_requests')
         /\ ActiveSet' = ActiveSet \ {q}
<1>1. CASE q \in ActiveSet
  <2>1. /\ Position(q) \in 1..Len(m_active_requests)
        /\ m_active_requests[Position(q)] = q
    BY <1>1, PositionProperties
  <2>2. m_active_requests' = RemoveAt(m_active_requests, Position(q))
    BY <1>1 DEF EraseActive
  <2> QED
    BY <2>1, <2>2, RemoveAtProperties, RemoveAtSet DEF ActiveSet
<1>2. CASE q \notin ActiveSet
  BY <1>2 DEF EraseActive, ActiveSet
<1> QED
  BY <1>1, <1>2

\* The failed callback begins at an active request, if there is one.
LEMMA StartScanProperties ==
  ASSUME DispTypeOK, NEW e \in Executors, StartScan(e)
  PROVE  \E p \in ActiveSet \cup {NONE}, c \in {"scan", "over"} :
           /\ cb' = [cb EXCEPT ![e] = c]
           /\ pos' = [pos EXCEPT ![e] = p]
           /\ c = "scan" => p # NONE
<1>1. CASE m_active_requests = <<>>
  BY <1>1 DEF StartScan
<1>2. CASE m_active_requests # <<>>
  <2>1. m_active_requests \in Seq(Requests)
    BY DEF DispTypeOK
  <2>2. Len(m_active_requests) \in Nat \ {0} /\ Head(m_active_requests) = m_active_requests[1]
    BY <1>2, <2>1, EmptySeq
  <2>3. Head(m_active_requests) \in ActiveSet
    BY <2>1, <2>2, ToSetProperties DEF ActiveSet
  <2>4. Head(m_active_requests) # NONE
    BY <2>1, <2>3, ToSetProperties, NoneAssumption DEF ActiveSet
  <2> QED
    BY <1>2, <2>3, <2>4 DEF StartScan
<1> QED
  BY <1>1, <1>2

-----------------------------------------------------------------------------
(* Type correctness.                                                       *)

LEMMA DispTypeInit == DispInit => DispTypeOK
<1> SUFFICES ASSUME DispInit PROVE DispTypeOK
  OBVIOUS
<1>1. PoolTypeOK
  BY DEF DispInit, PoolInit, PoolTypeOK, Stages
<1>2. m_active_requests \in Seq(Requests) /\ m_error_requests \in Seq(Requests)
  BY EmptySeq DEF DispInit
<1>3. /\ job \in [Workers -> Requests \cup {NONE}]
      /\ cb \in [Executors -> {"none", "finish", "scan", "store", "over"}]
      /\ pos \in [Executors -> Requests \cup {NONE, GONE}]
  BY DEF DispInit
<1>4. pcR \in RunnerStates
      /\ pcS \in {"idle", "joining", "locking", "requeue", "returned"}
  BY DEF DispInit, RunnerStates
<1>5. m_requests \subseteq Requests /\ taken \in Requests \cup {NONE}
      /\ added \subseteq Requests /\ halted \subseteq Requests
      /\ finished \subseteq Requests
  BY DEF DispInit
<1>6. /\ m_working \in BOOLEAN /\ m_paused \in BOOLEAN
      /\ limit \in Limits \cup {DefaultLimit}
  BY DEF DispInit
<1>7. ub \in BOOLEAN
  BY DEF DispInit
<1> QED
  BY <1>1, <1>2, <1>3, <1>4, <1>5, <1>6, <1>7 DEF DispTypeOK

-----------------------------------------------------------------------------
(* The inductive invariant.                                                *)

LEMMA DispInvInit == DispInit => DispInv
<1> SUFFICES ASSUME DispInit PROVE DispInv
  OBVIOUS
<1>1. DispTypeOK
  BY DispTypeInit
<1>2. ActiveSet = {} /\ Failed = {}
  BY EmptySeq DEF DispInit, ActiveSet, Failed, ToSet
<1>3. LocksExclusive /\ TakeIsSafe /\ TakenAgrees /\ OnlySubmitted /\ NeverLost
  BY <1>2 DEF DispInit, LocksExclusive, TakeIsSafe, TakenAgrees, OnlySubmitted,
              NeverLost
<1>4. CallbacksAgree /\ IteratorsAgree /\ FailedIsOver
  BY <1>2 DEF DispInit, CallbacksAgree, IteratorsAgree, FailedIsOver
<1>5. PlacesDisjoint /\ ErrorsStoredOnce
  <2>1. IsInjective(m_active_requests) /\ IsInjective(m_error_requests)
    BY EmptySeq DEF DispInit, IsInjective
  <2> QED
    BY <1>2, <2>1 DEF DispInit, PlacesDisjoint, ErrorsStoredOnce
<1> QED
  BY <1>1, <1>3, <1>4, <1>5 DEF DispInv

\* The users, and the steps of the threads that touch neither list.
LEMMA QuietStep ==
  ASSUME DispInv, PoolTypeOK',
         UNCHANGED <<listVars, execVars, taken, finished, added>>,
         ub' \in BOOLEAN, m_working' \in BOOLEAN, m_paused' \in BOOLEAN,
         limit' \in Limits \cup {DefaultLimit},
         halted' \subseteq Requests,
         pcR' \in RunnerStates, pcS' \in {"idle", "joining", "locking", "requeue", "returned"},
         pcR' = pcR \/ (taken = NONE /\ pcR' \in {"starting", "loop", "take", "exited"}),
         pcR' = "take" => m_requests # {},
         pcS' = "requeue" => pcS = "requeue" \/ ActiveFree,
         current' = current \/ cb[Async] = "none"
  PROVE  DispInv'
<1> USE DEF DispInv
<1>1. DispTypeOK'
  BY DEF DispTypeOK
<1>2. ActiveSet' = ActiveSet /\ Failed' = Failed
  BY DEF ActiveSet, Failed
<1>3. OnlySubmitted' /\ NeverLost' /\ ErrorsStoredOnce'
  BY <1>2 DEF OnlySubmitted, NeverLost, ErrorsStoredOnce
<1>4. IteratorsAgree' /\ FailedIsOver'
  BY <1>2 DEF IteratorsAgree, FailedIsOver
<1>5. TakenAgrees' /\ TakeIsSafe' 
  BY <1>2 DEF TakenAgrees, TakeIsSafe, DispTypeOK
<1>6. LocksExclusive'
  BY DEF LocksExclusive, ActiveFree, TakenAgrees
<1>7. PlacesDisjoint'
  BY <1>2 DEF PlacesDisjoint, TakenAgrees
<1>8. CallbacksAgree'
  BY DispatcherAssumption DEF CallbacksAgree, Handled, TakenAgrees, Executors
<1> QED
  BY <1>1, <1>3, <1>4, <1>5, <1>6, <1>7, <1>8

LEMMA RunnerKeepsInv ==
  ASSUME DispInv, PoolTypeOK', RunnerNext
  PROVE  DispInv'
<1> USE DEF DispInv
<1>1. CASE RunStart \/ RunLoop \/ LoopTest
  <2>1. taken = NONE
    BY <1>1 DEF RunStart, RunLoop, LoopTest, TakenAgrees, DispTypeOK
  <2>2. /\ UNCHANGED <<listVars, execVars, taken, finished, added, ub>>
        /\ pcR' \in {"starting", "loop", "take", "exited"}
        /\ pcR' = "take" => m_requests # {}
        /\ UNCHANGED <<pcS, current, halted, m_paused, limit>>
        /\ m_working' \in {m_working, TRUE}
    BY <1>1 DEF RunStart, RunLoop, LoopTest, poolVars
  <2>3. /\ m_working' \in BOOLEAN /\ m_paused' \in BOOLEAN
        /\ limit' \in Limits \cup {DefaultLimit}
        /\ halted' \subseteq Requests /\ ub' \in BOOLEAN
        /\ pcS' \in {"idle", "joining", "locking", "requeue", "returned"}
        /\ pcR' \in RunnerStates
    BY <2>2 DEF DispTypeOK, RunnerStates
  <2> QED
    BY <2>1, <2>2, <2>3, QuietStep
<1>2. CASE Take
  <2>1. PICK q \in m_requests : taken' = q /\ m_requests' = m_requests \ {q}
    BY <1>2 DEF Take
  <2>2. /\ ActiveSet' = ActiveSet /\ Failed' = Failed
        /\ taken = NONE /\ cb[Runner] = "none" /\ pcR = "take" /\ pcR' = "taken"
        /\ q \in Requests
    BY <1>2, <2>1 DEF Take, ActiveSet, Failed, TakenAgrees, CallbacksAgree,
                      Executors, DispTypeOK
  <2>3. DispTypeOK'
    BY <1>2, <2>1, <2>2 DEF Take, DispTypeOK, RunnerStates
  <2>4. LocksExclusive' /\ TakeIsSafe' /\ TakenAgrees' /\ OnlySubmitted'
    BY <1>2, <2>1, <2>2, NoneAssumption
    DEF Take, LocksExclusive, TakeIsSafe, TakenAgrees, OnlySubmitted
  <2>5. PlacesDisjoint' /\ NeverLost'
    <3>1. UNCHANGED <<m_active_requests, added, finished>>
      BY <1>2 DEF Take
    <3>2. PlacesDisjoint'
      BY <2>1, <2>2, <3>1 DEF PlacesDisjoint
    <3>3. NeverLost'
      BY <2>1, <2>2, <3>1, NoneAssumption DEF NeverLost, DispTypeOK
    <3> QED
      BY <3>2, <3>3
  <2>6. IteratorsAgree' /\ FailedIsOver' /\ ErrorsStoredOnce'
    BY <1>2, <2>1, <2>2
    DEF Take, IteratorsAgree, FailedIsOver, ErrorsStoredOnce
  <2>7. CallbacksAgree'
    BY <1>2, <2>2, DispatcherAssumption
    DEF Take, CallbacksAgree, Handled, Executors, poolVars
  <2> QED
    BY <2>3, <2>4, <2>5, <2>6, <2>7
<1>3. CASE Enter
  <2>1. taken \in Requests /\ taken \notin ActiveSet \cup m_requests
    BY <1>3 DEF Enter, TakenAgrees, DispTypeOK, PlacesDisjoint
  <2>2. /\ m_active_requests' \in Seq(Requests)
        /\ ActiveSet' = ActiveSet \cup {taken}
        /\ IsInjective(m_active_requests')
    <3>1. m_active_requests \in Seq(Requests) /\ IsInjective(m_active_requests)
      BY DEF DispTypeOK, PlacesDisjoint
    <3>2. /\ ToSet(Append(m_active_requests, taken))
               = ToSet(m_active_requests) \cup {taken}
          /\ taken \notin ToSet(m_active_requests)
               => IsInjective(Append(m_active_requests, taken))
      BY <2>1, <3>1, AppendSet
    <3>3. Append(m_active_requests, taken) \in Seq(Requests)
      BY <2>1, <3>1, AppendProperties
    <3> QED
      BY <1>3, <2>1, <3>1, <3>2, <3>3 DEF Enter, ActiveSet
  <2>3. /\ Failed' = Failed /\ pcR = "taken" /\ pcR' = "handing"
        /\ pcS # "requeue" /\ taken' = taken
    BY <1>3 DEF Enter, Failed, ActiveFree
  <2>4. DispTypeOK'
    BY <1>3, <2>2, <2>3 DEF Enter, DispTypeOK, RunnerStates
  <2>5. LocksExclusive' /\ TakeIsSafe' /\ TakenAgrees' /\ OnlySubmitted'
    BY <1>3, <2>2, <2>3
    DEF Enter, LocksExclusive, TakeIsSafe, TakenAgrees, OnlySubmitted
  <2>6. PlacesDisjoint' /\ NeverLost'
    BY <1>3, <2>1, <2>2, <2>3 DEF Enter, PlacesDisjoint, NeverLost
  <2>7. IteratorsAgree' /\ FailedIsOver' /\ ErrorsStoredOnce'
    BY <1>3, <2>2, <2>3
    DEF Enter, IteratorsAgree, FailedIsOver, ErrorsStoredOnce
  <2>8. CallbacksAgree'
    BY <1>3, <2>3, DispatcherAssumption
    DEF Enter, CallbacksAgree, Handled, Executors, poolVars
  <2> QED
    BY <2>4, <2>5, <2>6, <2>7, <2>8
<1>4. CASE (\E w \in Workers : HandToWorker(w)) \/ EnlistTaken
  <2>1. /\ taken \in Requests /\ taken \in ActiveSet /\ taken' = NONE
        /\ pcR \in {"handing", "enlisting"} /\ pcR' = "loop"
        /\ UNCHANGED <<listVars, flagVars, userVars, cb, pos, pcS, finished, ub>>
    BY <1>4 DEF HandToWorker, EnlistTaken, TakenAgrees, DispTypeOK
  <2>2. ActiveSet' = ActiveSet /\ Failed' = Failed
    BY <2>1 DEF ActiveSet, Failed
  <2>3. NONE \notin Failed \cup m_requests \cup ActiveSet
    BY NoneAssumption DEF OnlySubmitted, DispTypeOK
  <2>4. /\ job' \in [Workers -> Requests \cup {NONE}]
        /\ \A w \in Workers : job'[w] = job[w] \/ job[w] = NONE
        /\ current' = current
    BY <1>4, <2>1 DEF HandToWorker, EnlistTaken, Enlist, DispTypeOK, poolVars
  <2>5. DispTypeOK'
    BY <2>1, <2>4 DEF DispTypeOK, RunnerStates
  <2>6. LocksExclusive' /\ TakeIsSafe' /\ TakenAgrees' /\ OnlySubmitted'
    BY <2>1, <2>2 DEF LocksExclusive, TakeIsSafe, TakenAgrees, OnlySubmitted
  <2>7. PlacesDisjoint' /\ NeverLost' /\ ErrorsStoredOnce'
    BY <2>1, <2>2, <2>3 DEF PlacesDisjoint, NeverLost, ErrorsStoredOnce
  <2>8. IteratorsAgree' /\ FailedIsOver'
    BY <2>1, <2>2, <2>3 DEF IteratorsAgree, FailedIsOver
  <2>9. CallbacksAgree'
    BY <2>1, <2>4, NoneAssumption, DispatcherAssumption
    DEF CallbacksAgree, Handled, Executors
  <2> QED
    BY <2>5, <2>6, <2>7, <2>8, <2>9
<1>5. CASE RefuseUnsupported \/ HandToPool
  <2>1. /\ taken \in Requests
        /\ pcR = "handing" /\ pcR' \in {"enlisting", "rejecting"}
        /\ UNCHANGED <<listVars, flagVars, userVars, job, taken, pcS, finished,
                       ub, current>>
        /\ Runner \in Executors
    BY <1>5 DEF RefuseUnsupported, HandToPool, Offer, TakenAgrees, DispTypeOK,
                poolVars, Executors
  <2>2. ActiveSet' = ActiveSet /\ Failed' = Failed
    BY <2>1 DEF ActiveSet, Failed
  <2>3. \/ UNCHANGED <<cb, pos>>
        \/ /\ pcR' = "rejecting"
           /\ \E p \in ActiveSet \cup {NONE}, c \in {"scan", "over"} :
                /\ cb' = [cb EXCEPT ![Runner] = c]
                /\ pos' = [pos EXCEPT ![Runner] = p]
                /\ c = "scan" => p # NONE
    BY <1>5, <2>1, StartScanProperties DEF RefuseUnsupported, HandToPool
  <2>4. /\ cb' \in [Executors -> {"none", "finish", "scan", "store", "over"}]
        /\ pos' \in [Executors -> Requests \cup {NONE, GONE}]
        /\ cb[Runner] = "none"
        /\ \A e \in Executors :
             /\ e # Runner => cb'[e] = cb[e] /\ pos'[e] = pos[e]
             /\ cb'[Runner] # "none" => pcR' = "rejecting"
             /\ cb'[Runner] # "store"
             /\ pos'[e] \in ActiveSet \cup {NONE, GONE}
             /\ cb'[e] \in {"scan", "store"} => pos'[e] # NONE
    <3>1. ActiveSet \subseteq Requests
      BY DEF OnlySubmitted, DispTypeOK
    <3>2. cb[Runner] = "none"
      BY <2>1 DEF CallbacksAgree
    <3> QED
      BY <2>1, <2>3, <3>1, <3>2 DEF DispTypeOK, IteratorsAgree
  <2>5. DispTypeOK'
    BY <2>1, <2>4 DEF DispTypeOK, RunnerStates
  <2>6. LocksExclusive' /\ TakeIsSafe' /\ TakenAgrees' /\ OnlySubmitted'
    BY <2>1, <2>2, <2>4
    DEF LocksExclusive, TakeIsSafe, TakenAgrees, OnlySubmitted
  <2>7. PlacesDisjoint' /\ NeverLost' /\ ErrorsStoredOnce'
    BY <2>1, <2>2 DEF PlacesDisjoint, NeverLost, ErrorsStoredOnce
  <2>8. IteratorsAgree'
    BY <2>1, <2>2, <2>4 DEF IteratorsAgree
  <2>9. FailedIsOver'
    BY <2>1, <2>2, <2>4 DEF FailedIsOver
  <2>10. CallbacksAgree'
    BY <2>1, <2>4, DispatcherAssumption DEF CallbacksAgree, Handled, Executors
  <2> QED
    BY <2>5, <2>6, <2>7, <2>8, <2>9, <2>10
<1> QED
  BY <1>1, <1>2, <1>3, <1>4, <1>5 DEF RunnerNext

\* The thread that runs a callback is one of the executors, and its request is
\* a request; only the Runner's is rejected under the lock.
LEMMA HandledProperties ==
  ASSUME DispTypeOK, NEW e \in Executors
  PROVE  /\ Handled(e) \in Requests \cup {NONE}
         /\ e \in Workers => Handled(e) = job[e]
         /\ Handled(Async) = current
         /\ Handled(Runner) = taken
BY DispatcherAssumption DEF Handled, Executors, DispTypeOK, PoolTypeOK

\* The steps of a callback that touch neither list nor lock.
LEMMA CallbackMoves ==
  ASSUME DispInv, PoolTypeOK', NEW e \in Executors,
         Handled(e) \in Requests, e = Runner => pcR = "rejecting",
         cb[e] \in {"none", "scan"},
         UNCHANGED <<poolVars, listVars, flagVars, userVars, job, pcR, taken, pcS,
                     finished, ub>>,
         NEW c \in {"finish", "scan", "over"},
         NEW p \in ActiveSet \cup {NONE, GONE},
         c = "scan" => p # NONE,
         cb' = [cb EXCEPT ![e] = c],
         pos' = [pos EXCEPT ![e] = p]
  PROVE  DispInv'
<1> USE DEF DispInv
<1>1. ActiveSet' = ActiveSet /\ Failed' = Failed /\ ActiveSet \subseteq Requests
  BY DEF ActiveSet, Failed, OnlySubmitted, DispTypeOK
<1>2. /\ cb' \in [Executors -> {"none", "finish", "scan", "store", "over"}]
      /\ pos' \in [Executors -> Requests \cup {NONE, GONE}]
      /\ cb'[e] = c /\ pos'[e] = p
      /\ \A f \in Executors \ {e} : cb'[f] = cb[f] /\ pos'[f] = pos[f]
  BY <1>1 DEF DispTypeOK
<1>3. DispTypeOK'
  BY <1>2 DEF DispTypeOK
<1>4. TakeIsSafe' /\ TakenAgrees' /\ OnlySubmitted'
  BY <1>1 DEF TakeIsSafe, TakenAgrees, OnlySubmitted
<1>5. LocksExclusive'
  BY <1>2 DEF LocksExclusive
<1>6. PlacesDisjoint' /\ NeverLost' /\ ErrorsStoredOnce'
  BY <1>1 DEF PlacesDisjoint, NeverLost, ErrorsStoredOnce
<1>7. IteratorsAgree'
  BY <1>1, <1>2 DEF IteratorsAgree
<1>8. FailedIsOver'
  BY <1>1, <1>2 DEF FailedIsOver
<1>9. CallbacksAgree'
  BY <1>2 DEF CallbacksAgree, Handled, poolVars
<1> QED
  BY <1>3, <1>4, <1>5, <1>6, <1>7, <1>8, <1>9

\* The erasure of a request that is failed or finished by now, under the lock.
LEMMA ErasureKeepsInv ==
  ASSUME DispInv, PoolTypeOK', NEW e \in Executors, NEW q \in Requests,
         ActiveFree,
         EraseActive(q),
         UNCHANGED <<poolVars, m_requests, m_error_requests, flagVars, userVars,
                     job, pcR, taken, pcS, ub>>,
         cb' = [cb EXCEPT ![e] = "over"],
         cb[e] \in {"finish", "store"},
         cb[e] = "store" => pos[e] = q,
         \A f \in Executors :
           pos'[f] = IF f = e /\ cb[e] = "store" THEN NONE
                     ELSE IF pos[f] = q THEN GONE ELSE pos[f],
         pos' \in [Executors -> Requests \cup {NONE, GONE}],
         finished' \in SUBSET Requests, finished \subseteq finished',
         q \in Failed \cup finished'
  PROVE  DispInv'
<1> USE DEF DispInv
<1>1. /\ m_active_requests' \in Seq(Requests)
      /\ IsInjective(m_active_requests')
      /\ ActiveSet' = ActiveSet \ {q}
  <2>1. m_active_requests \in Seq(Requests) /\ IsInjective(m_active_requests)
    BY DEF DispTypeOK, PlacesDisjoint
  <2> QED
    BY <2>1, EraseActiveProperties
<1>2. Failed' = Failed /\ pcR \notin {"handing", "enlisting", "rejecting"}
  BY DEF Failed, ActiveFree
<1>3. /\ cb' \in [Executors -> {"none", "finish", "scan", "store", "over"}]
      /\ cb'[e] = "over"
      /\ \A f \in Executors \ {e} : cb'[f] = cb[f]
  BY DEF DispTypeOK
<1>4. DispTypeOK'
  BY <1>1, <1>3 DEF DispTypeOK
<1>5. TakeIsSafe' /\ TakenAgrees' /\ OnlySubmitted'
  BY <1>1, <1>2 DEF TakeIsSafe, TakenAgrees, OnlySubmitted
<1>6. LocksExclusive'
  BY <1>2, <1>3 DEF LocksExclusive
<1>7. PlacesDisjoint'
  BY <1>1 DEF PlacesDisjoint
<1>8. NeverLost' /\ ErrorsStoredOnce'
  BY <1>1, <1>2 DEF NeverLost, ErrorsStoredOnce
<1>9. CallbacksAgree'
  BY <1>3 DEF CallbacksAgree, Handled, poolVars
<1>10. IteratorsAgree'
  BY <1>1, <1>2, <1>3, DispatcherAssumption DEF IteratorsAgree
<1>11. FailedIsOver'
  <2> SUFFICES ASSUME \A f \in Executors : cb'[f] = "store" => pos'[f] # GONE,
                      NEW r \in Failed
               PROVE  \/ r \notin (m_requests \cup ActiveSet \cup {taken})'
                      \/ \E f \in Executors : cb'[f] = "store" /\ pos'[f] = r
    BY <1>2 DEF FailedIsOver
  <2>1. \A f \in Executors : cb[f] = "store" => pos[f] # GONE
    BY <1>3, DispatcherAssumption DEF LocksExclusive
  <2>2. CASE r \notin m_requests \cup ActiveSet \cup {taken}
    BY <1>1, <2>2
  <2>3. CASE \E f \in Executors : cb[f] = "store" /\ pos[f] = r
    <3>1. PICK f \in Executors : cb[f] = "store" /\ pos[f] = r
      BY <2>3
    <3>2. CASE f # e
      BY <1>3, <3>1, <3>2
    <3>3. CASE f = e
      <4>1. r = q /\ r \in ActiveSet
        BY <3>1, <3>3, DispatcherAssumption DEF IteratorsAgree
      <4>2. r \notin m_requests /\ r # taken
        BY <1>2, <4>1, NoneAssumption
        DEF PlacesDisjoint, TakenAgrees, OnlySubmitted, DispTypeOK
      <4> QED
        BY <1>1, <4>1, <4>2
    <3> QED
      BY <3>2, <3>3
  <2> QED
    BY <2>1, <2>2, <2>3 DEF FailedIsOver
<1> QED
  BY <1>4, <1>5, <1>6, <1>7, <1>8, <1>9, <1>10, <1>11

LEMMA ScanStoreKeepsInv ==
  ASSUME DispInv, PoolTypeOK', NEW e \in Executors, ScanStore(e)
  PROVE  DispInv'
<1> USE DEF DispInv
<1> DEFINE q == pos[e]
<1>1. /\ cb[e] = "scan" /\ q = Handled(e) /\ q \in Requests /\ q \in ActiveSet
      /\ \A f \in Executors : cb[f] # "store"
  BY DispatcherAssumption
  DEF ScanStore, ErrorFree, CallbacksAgree, IteratorsAgree
<1>2. /\ UNCHANGED <<poolVars, m_requests, m_active_requests, flagVars, userVars,
                     job, pos, pcR, taken, pcS, finished, ub>>
      /\ m_error_requests' = Append(m_error_requests, q)
      /\ cb' = [cb EXCEPT ![e] = "store"]
  BY DEF ScanStore
<1>3. q \notin Failed
  BY <1>1 DEF FailedIsOver
<1> HIDE DEF q
<1>4. /\ m_error_requests' \in Seq(Requests)
      /\ Failed' = Failed \cup {q}
      /\ ErrorsStoredOnce'
  <2>1. m_error_requests \in Seq(Requests) /\ IsInjective(m_error_requests)
    BY DEF DispTypeOK, ErrorsStoredOnce
  <2>2. /\ ToSet(Append(m_error_requests, q)) = ToSet(m_error_requests) \cup {q}
        /\ q \notin ToSet(m_error_requests)
             => IsInjective(Append(m_error_requests, q))
    BY <1>1, <2>1, AppendSet
  <2>3. Append(m_error_requests, q) \in Seq(Requests)
    BY <1>1, <2>1, AppendProperties
  <2> QED
    BY <1>2, <1>3, <2>1, <2>2, <2>3 DEF Failed, ErrorsStoredOnce
<1>5. /\ cb' \in [Executors -> {"none", "finish", "scan", "store", "over"}]
      /\ cb'[e] = "store" /\ ActiveSet' = ActiveSet
      /\ \A f \in Executors \ {e} : cb'[f] = cb[f]
  BY <1>2 DEF DispTypeOK, ActiveSet
<1>6. DispTypeOK'
  BY <1>2, <1>4, <1>5 DEF DispTypeOK
<1>7. TakeIsSafe' /\ TakenAgrees' /\ PlacesDisjoint' /\ NeverLost'
  BY <1>2, <1>4, <1>5 DEF TakeIsSafe, TakenAgrees, PlacesDisjoint, NeverLost
<1>8. OnlySubmitted'
  BY <1>1, <1>2, <1>4, <1>5 DEF OnlySubmitted
<1>9. LocksExclusive'
  BY <1>1, <1>2, <1>5 DEF LocksExclusive
<1>10. CallbacksAgree'
  BY <1>1, <1>2, <1>5 DEF CallbacksAgree, Handled, poolVars
<1>11. IteratorsAgree'
  BY <1>1, <1>2, <1>4, <1>5 DEF IteratorsAgree, q
<1>12. FailedIsOver'
  <2>1. \A r \in Failed : r \notin m_requests \cup ActiveSet \cup {taken}
    BY <1>1 DEF FailedIsOver
  <2> QED
    BY <1>2, <1>4, <1>5, <2>1 DEF FailedIsOver, q
<1> QED
  BY <1>4, <1>6, <1>7, <1>8, <1>9, <1>10, <1>11, <1>12

LEMMA HandlersKeepInv ==
  ASSUME DispInv, PoolTypeOK', NEW e \in Executors,
         Succeed(e) \/ Fail(e) \/ Quit(e) \/ CallbackNext(e)
  PROVE  DispInv'
<1> USE DEF DispInv
<1>1. /\ Handled(e) \in Requests \cup {NONE}
      /\ cb[e] # "none" => /\ Handled(e) \in Requests
                           /\ e = Runner => pcR = "rejecting"
      /\ pos[e] \in ActiveSet \cup {NONE, GONE}
  BY HandledProperties DEF CallbacksAgree, IteratorsAgree
<1>2. pos = [pos EXCEPT ![e] = pos[e]]
  BY DEF DispTypeOK
<1>3. CASE Succeed(e) \/ Quit(e)
  <2>1. /\ Handled(e) \in Requests /\ e # Runner /\ cb[e] = "none"
        /\ \E c \in {"finish", "over"} : cb' = [cb EXCEPT ![e] = c]
        /\ UNCHANGED <<poolVars, listVars, flagVars, userVars, job, pos, pcR,
                       taken, pcS, finished, ub>>
    BY <1>1, <1>3 DEF Succeed, Quit, Busy
  <2>2. PICK c \in {"finish", "over"} : cb' = [cb EXCEPT ![e] = c]
    BY <2>1
  <2>3. pos' = [pos EXCEPT ![e] = pos[e]]
    BY <1>2, <2>1
  <2> QED
    BY <1>1, <2>1, <2>2, <2>3, CallbackMoves
<1>4. CASE Fail(e)
  <2>1. /\ Handled(e) \in Requests /\ e # Runner /\ cb[e] = "none"
        /\ StartScan(e)
        /\ UNCHANGED <<poolVars, listVars, flagVars, userVars, job, pcR,
                       taken, pcS, finished, ub>>
    BY <1>1, <1>4 DEF Fail, Busy
  <2>2. PICK p \in ActiveSet \cup {NONE}, c \in {"scan", "over"} :
           /\ cb' = [cb EXCEPT ![e] = c]
           /\ pos' = [pos EXCEPT ![e] = p]
           /\ c = "scan" => p # NONE
    BY <2>1, StartScanProperties
  <2> QED
    BY <2>1, <2>2, CallbackMoves
<1>5. CASE ScanNext(e)
  <2> DEFINE i == Position(pos[e]) + 1
  <2>1. /\ cb[e] = "scan" /\ pos[e] \in ActiveSet
        /\ IF i <= Len(m_active_requests)
             THEN pos' = [pos EXCEPT ![e] = m_active_requests[i]] /\ UNCHANGED cb
             ELSE /\ pos' = [pos EXCEPT ![e] = NONE]
                  /\ cb' = [cb EXCEPT ![e] = "over"]
        /\ UNCHANGED <<poolVars, listVars, flagVars, userVars, job, pcR, taken,
                       pcS, finished, ub>>
    BY <1>5 DEF ScanNext
  <2>2. m_active_requests \in Seq(Requests) /\ Len(m_active_requests) \in Nat
    BY LenProperties DEF DispTypeOK
  <2>3. Position(pos[e]) \in 1..Len(m_active_requests)
    BY <2>1, <2>2, PositionProperties
  <2>4. CASE i <= Len(m_active_requests)
    <3>1. i \in 1..Len(m_active_requests)
      BY <2>2, <2>3, <2>4
    <3>2. m_active_requests[i] \in ActiveSet
      BY <2>2, <3>1, ToSetProperties DEF ActiveSet
    <3>3. m_active_requests[i] # NONE
      BY <3>2, NoneAssumption DEF OnlySubmitted, DispTypeOK
    <3>4. cb' = [cb EXCEPT ![e] = "scan"]
      BY <2>1, <2>4 DEF DispTypeOK
    <3>5. pos' = [pos EXCEPT ![e] = m_active_requests[i]]
      BY <2>1, <2>4
    <3> HIDE DEF i
    <3> QED
      BY <1>1, <2>1, <3>2, <3>3, <3>4, <3>5, CallbackMoves
  <2>5. CASE ~(i <= Len(m_active_requests))
    <3>1. pos' = [pos EXCEPT ![e] = NONE] /\ cb' = [cb EXCEPT ![e] = "over"]
      BY <2>1, <2>5
    <3> QED
      BY <1>1, <2>1, <3>1, CallbackMoves
  <2> QED
    BY <2>4, <2>5
<1>6. CASE ScanStore(e)
  BY <1>6, ScanStoreKeepsInv
<1>7. CASE FinishedCallback(e)
  <2> DEFINE q == Handled(e)
  <2>1. /\ q \in Requests /\ ActiveFree /\ cb[e] = "finish" /\ EraseActive(q)
        /\ pos' = IteratorsAfterErase(q)
        /\ cb' = [cb EXCEPT ![e] = "over"]
        /\ finished' = finished \cup {q}
        /\ UNCHANGED <<poolVars, m_requests, m_error_requests, flagVars,
                       userVars, job, pcR, taken, pcS, ub>>
    BY <1>1, <1>7 DEF FinishedCallback
  <2> HIDE DEF q
  <2>2. /\ pos' \in [Executors -> Requests \cup {NONE, GONE}]
        /\ \A f \in Executors : pos'[f] = IF pos[f] = q THEN GONE ELSE pos[f]
    BY <2>1 DEF IteratorsAfterErase, DispTypeOK
  <2>3. finished' \in SUBSET Requests /\ finished \subseteq finished'
        /\ q \in Failed \cup finished'
    BY <2>1 DEF DispTypeOK
  <2> QED
    BY <2>1, <2>2, <2>3, ErasureKeepsInv
<1>8. CASE StoreErase(e)
  <2> DEFINE q == pos[e]
  <2>1. /\ cb[e] = "store" /\ q # GONE /\ ActiveFree /\ EraseActive(q)
        /\ pos' = [IteratorsAfterErase(q) EXCEPT ![e] = NONE]
        /\ cb' = [cb EXCEPT ![e] = "over"]
        /\ UNCHANGED <<poolVars, m_requests, m_error_requests, flagVars,
                       userVars, job, pcR, taken, pcS, finished, ub>>
    BY <1>8 DEF StoreErase
  <2>2. q \in Failed /\ q \in Requests
    BY <2>1 DEF IteratorsAgree, OnlySubmitted, DispTypeOK
  <2>3. pos[e] = q
    OBVIOUS
  <2> HIDE DEF q
  <2>4. /\ pos' \in [Executors -> Requests \cup {NONE, GONE}]
        /\ \A f \in Executors :
             pos'[f] = IF f = e THEN NONE ELSE IF pos[f] = q THEN GONE ELSE pos[f]
    BY <2>1 DEF IteratorsAfterErase, DispTypeOK
  <2>5. finished' \in SUBSET Requests /\ finished \subseteq finished'
    BY <2>1 DEF DispTypeOK
  <2> QED
    BY <2>1, <2>2, <2>3, <2>4, <2>5, ErasureKeepsInv
<1>9. CASE UseDangling(e)
  <2>1. cb[e] # "none" /\ ub' = TRUE
    BY <1>9 DEF UseDangling
  <2> QED
    BY <1>9 DEF UseDangling, poolVars, DispTypeOK, LocksExclusive, TakeIsSafe,
                TakenAgrees, OnlySubmitted, CallbacksAgree, PlacesDisjoint,
                NeverLost, IteratorsAgree, FailedIsOver, ErrorsStoredOnce,
                ActiveSet, Failed, Handled
<1> QED
  BY <1>3, <1>4, <1>5, <1>6, <1>7, <1>8, <1>9 DEF CallbackNext

\* The end of a detached thread or of a coroutine.
LEMMA EndsKeepInv ==
  ASSUME DispInv, PoolTypeOK', NEW e \in Executors,
         \/ e \in Workers /\ WorkerEnds(e)
         \/ e = Async /\ CoroutineEnds
  PROVE  DispInv'
<1> USE DEF DispInv
<1>1. /\ cb' = [cb EXCEPT ![e] = "none"]
      /\ UNCHANGED <<listVars, flagVars, userVars, pos, pcR, taken, pcS, finished,
                     ub>>
  BY DEF WorkerEnds, CoroutineEnds
<1>2. /\ job' \in [Workers -> Requests \cup {NONE}]
      /\ \A w \in Workers : w # e => job'[w] = job[w]
      /\ e # Async => current' = current
  BY DispatcherAssumption DEF WorkerEnds, CoroutineEnds, DispTypeOK, poolVars
<1>3. /\ cb' \in [Executors -> {"none", "finish", "scan", "store", "over"}]
      /\ cb'[e] = "none" /\ cb[e] # "store"
      /\ \A f \in Executors \ {e} : cb'[f] = cb[f]
      /\ ActiveSet' = ActiveSet /\ Failed' = Failed
  BY <1>1 DEF DispTypeOK, ActiveSet, Failed, WorkerEnds, CoroutineEnds
<1>4. DispTypeOK'
  BY <1>1, <1>2, <1>3 DEF DispTypeOK
<1>5. /\ TakeIsSafe' /\ TakenAgrees' /\ OnlySubmitted' /\ PlacesDisjoint'
      /\ NeverLost' /\ ErrorsStoredOnce'
  BY <1>1, <1>3 DEF TakeIsSafe, TakenAgrees, OnlySubmitted, PlacesDisjoint,
                    NeverLost, ErrorsStoredOnce
<1>6. LocksExclusive'
  BY <1>1, <1>3 DEF LocksExclusive
<1>7. IteratorsAgree' /\ FailedIsOver'
  BY <1>1, <1>3 DEF IteratorsAgree, FailedIsOver
<1>8. CallbacksAgree'
  BY <1>1, <1>2, <1>3, DispatcherAssumption
  DEF CallbacksAgree, Handled, Executors
<1> QED
  BY <1>4, <1>5, <1>6, <1>7, <1>8

\* run() is called again: no coroutine is left whose callback could run.
LEMMA RunAgainKeepsInv ==
  ASSUME DispInv, PoolAtRest, PoolTypeOK', RunAgain
  PROVE  DispInv'
<1> USE DEF DispInv
<1>1. current = NONE /\ current' = current
  BY DEF RunAgain, Renew, PoolAtRest
<1>2. /\ UNCHANGED <<listVars, execVars, taken, finished, added>>
      /\ UNCHANGED <<m_working, m_paused, halted>> /\ limit' = DefaultLimit
      /\ pcR = "exited" /\ pcR' = "starting" /\ pcS' = "idle"
      /\ ub' \in {ub, TRUE, FALSE}
  BY DEF RunAgain
<1>3. taken = NONE
  BY <1>2 DEF TakenAgrees, DispTypeOK
<1>4. /\ ub' \in BOOLEAN /\ m_working' \in BOOLEAN /\ m_paused' \in BOOLEAN
      /\ limit' \in Limits \cup {DefaultLimit}
      /\ halted' \subseteq Requests
      /\ pcR' \in RunnerStates
      /\ pcS' \in {"idle", "joining", "locking", "requeue", "returned"}
  BY <1>2 DEF DispTypeOK, RunnerStates
<1> QED
  BY <1>1, <1>2, <1>3, <1>4, QuietStep

LEMMA UsersKeepInv ==
  ASSUME DispInv, PoolTypeOK',
         \/ \E q \in Requests : AddRequest(q) \/ HaltRequest(q)
         \/ SetActiveDownloadsLimit \/ Pause \/ Resume \/ StopAsync \/ AsyncLoop
  PROVE  DispInv'
<1> USE DEF DispInv
<1>1. ASSUME NEW q \in Requests, AddRequest(q)
      PROVE  DispInv'
  <2>1. /\ q \notin added /\ added' = added \cup {q}
        /\ m_requests' = m_requests \cup {q}
        /\ UNCHANGED <<poolVars, m_active_requests, m_error_requests, flagVars,
                       execVars, halted, pcR, taken, pcS, finished, ub>>
        /\ ActiveSet' = ActiveSet /\ Failed' = Failed
    BY <1>1 DEF AddRequest, ActiveSet, Failed
  <2>2. q \notin ActiveSet \cup Failed \cup {taken}
    BY <2>1, NoneAssumption DEF OnlySubmitted
  <2>3. DispTypeOK'
    BY <2>1 DEF DispTypeOK
  <2>4. LocksExclusive' /\ TakeIsSafe' /\ TakenAgrees' /\ OnlySubmitted'
    BY <2>1 DEF LocksExclusive, TakeIsSafe, TakenAgrees, OnlySubmitted
  <2>5. PlacesDisjoint' /\ NeverLost' /\ ErrorsStoredOnce'
    BY <2>1, <2>2 DEF PlacesDisjoint, NeverLost, ErrorsStoredOnce
  <2>6. IteratorsAgree' /\ FailedIsOver'
    BY <2>1, <2>2 DEF IteratorsAgree, FailedIsOver
  <2>7. CallbacksAgree'
    BY <2>1 DEF CallbacksAgree, Handled, poolVars
  <2> QED
    BY <2>3, <2>4, <2>5, <2>6, <2>7
<1>2. CASE \/ \E q \in Requests : HaltRequest(q)
           \/ SetActiveDownloadsLimit \/ Pause \/ Resume \/ StopAsync \/ AsyncLoop
  <2>1. /\ UNCHANGED <<listVars, execVars, taken, finished, added, ub, pcR>>
        /\ m_working' = m_working /\ m_paused' \in {m_paused, TRUE, FALSE}
        /\ limit' = limit \/ limit' \in Limits
        /\ halted' \subseteq halted \cup Requests
        /\ pcS' \in {pcS, "joining"}
        /\ current' = current \/ cb[Async] = "none"
    BY <1>2 DEF HaltRequest, SetActiveDownloadsLimit, Pause, Resume, StopAsync, AsyncLoop, Halt, poolVars
  <2>2. /\ m_working' \in BOOLEAN /\ m_paused' \in BOOLEAN
        /\ limit' \in Limits \cup {DefaultLimit}
        /\ halted' \subseteq Requests /\ ub' \in BOOLEAN
        /\ pcS' \in {"idle", "joining", "locking", "requeue", "returned"}
        /\ pcR' \in RunnerStates
        /\ pcR' = "take" => m_requests # {}
    BY <2>1 DEF DispTypeOK, TakeIsSafe
  <2> QED
    BY <2>1, <2>2, QuietStep
<1> QED
  BY <1>1, <1>2

\* The steps of stop() after it has told the asynchronous handler.
LEMMA StopperKeepsInv ==
  ASSUME DispInv, PoolTypeOK', StopperNext
  PROVE  DispInv'
<1> USE DEF DispInv
<1>1. CASE StopJoin \/ StopLock \/ StopEnd
  <2>1. /\ UNCHANGED <<listVars, execVars, taken, finished, added, ub, pcR,
                       current, halted, m_paused, limit>>
        /\ m_working' \in {m_working, FALSE}
        /\ pcS' \in {"locking", "requeue", "returned"}
        /\ pcS' = "requeue" => ActiveFree
    BY <1>1 DEF StopJoin, StopLock, StopEnd, poolVars
  <2>2. /\ m_working' \in BOOLEAN /\ m_paused' \in BOOLEAN
        /\ limit' \in Limits \cup {DefaultLimit}
        /\ halted' \subseteq Requests /\ ub' \in BOOLEAN
        /\ pcS' \in {"idle", "joining", "locking", "requeue", "returned"}
        /\ pcR' \in RunnerStates
        /\ pcR' = "take" => m_requests # {}
    BY <2>1 DEF DispTypeOK, TakeIsSafe
  <2> QED
    BY <2>1, <2>2, QuietStep
<1>2. CASE StopRequeue
  <2> DEFINE q == Head(m_active_requests)
  <2>1. /\ pcS = "requeue" /\ m_active_requests # <<>>
        /\ halted' = halted \cup {q}
        /\ m_requests' = m_requests \cup {q}
        /\ pos' = IteratorsAfterErase(q)
        /\ m_active_requests' = Tail(m_active_requests)
        /\ UNCHANGED <<poolVars, m_error_requests, flagVars, job, cb, added, pcR,
                       taken, pcS, finished, ub>>
    BY <1>2 DEF StopRequeue
  <2>2. /\ m_active_requests' \in Seq(Requests)
        /\ q \in ActiveSet
        /\ ActiveSet' = ActiveSet \ {q}
        /\ IsInjective(m_active_requests')
    <3>1. m_active_requests \in Seq(Requests) /\ IsInjective(m_active_requests)
      BY DEF DispTypeOK, PlacesDisjoint
    <3>2. /\ Tail(m_active_requests) \in Seq(Requests)
          /\ q \in ToSet(m_active_requests)
          /\ ToSet(Tail(m_active_requests)) = ToSet(m_active_requests) \ {q}
          /\ IsInjective(Tail(m_active_requests))
      BY <2>1, <3>1, TailSet
    <3> QED
      BY <2>1, <3>2 DEF ActiveSet
  <2> HIDE DEF q
  <2>3. /\ q \in Requests /\ q \in added /\ q # taken
        /\ pcR \notin {"handing", "enlisting", "rejecting"}
    BY <2>1, <2>2, NoneAssumption
    DEF OnlySubmitted, DispTypeOK, LocksExclusive, PlacesDisjoint, TakenAgrees
  <2>4. /\ Failed' = Failed
        /\ pos' \in [Executors -> Requests \cup {NONE, GONE}]
        /\ \A f \in Executors : pos'[f] = IF pos[f] = q THEN GONE ELSE pos[f]
    BY <2>1 DEF Failed, IteratorsAfterErase, DispTypeOK
  <2>5. DispTypeOK'
    BY <2>1, <2>2, <2>3, <2>4 DEF DispTypeOK
  <2>6. LocksExclusive' /\ TakeIsSafe' /\ TakenAgrees' /\ OnlySubmitted'
    BY <2>1, <2>2, <2>3, <2>4
    DEF LocksExclusive, TakeIsSafe, TakenAgrees, OnlySubmitted
  <2>7. PlacesDisjoint' /\ NeverLost' /\ ErrorsStoredOnce'
    BY <2>1, <2>2, <2>3, <2>4 DEF PlacesDisjoint, NeverLost, ErrorsStoredOnce
  <2>8. CallbacksAgree'
    BY <2>1 DEF CallbacksAgree, Handled, poolVars
  <2>9. IteratorsAgree'
    BY <2>1, <2>2, <2>4, DispatcherAssumption DEF IteratorsAgree
  <2>10. FailedIsOver'
    BY <2>1, <2>2, <2>4 DEF FailedIsOver
  <2> QED
    BY <2>5, <2>6, <2>7, <2>8, <2>9, <2>10
<1> QED
  BY <1>1, <1>2 DEF StopperNext

LEMMA DispInvStep ==
  ASSUME DispInv, PoolAtRest, [DispNext]_vars
  PROVE  DispInv' /\ PoolAtRest'
<1>0. PoolTypeOK' /\ PoolAtRest'
  <2>1. DispTypeOK /\ TakenAgrees /\ PoolTypeOK
    BY DEF DispInv, DispTypeOK
  <2> QED
    BY <2>1, DispStepIsPoolStep, PoolTypeStep, PoolAtRestStep
<1>1. CASE RunnerNext
  BY <1>0, <1>1, RunnerKeepsInv
<1>2. CASE \E e \in Executors :
             Succeed(e) \/ Fail(e) \/ Quit(e) \/ CallbackNext(e)
  BY <1>0, <1>2, HandlersKeepInv
<1>3. CASE (\E w \in Workers : WorkerEnds(w)) \/ CoroutineEnds
  BY <1>0, <1>3, EndsKeepInv DEF Executors
<1>4. CASE \/ \E q \in Requests : AddRequest(q) \/ HaltRequest(q)
           \/ SetActiveDownloadsLimit \/ Pause \/ Resume \/ StopAsync \/ AsyncLoop
  BY <1>0, <1>4, UsersKeepInv
<1>5. CASE StopperNext
  BY <1>0, <1>5, StopperKeepsInv
<1>7. CASE RunAgain
  BY <1>0, <1>7, RunAgainKeepsInv
<1>6. CASE UNCHANGED vars
  <2>1. /\ UNCHANGED <<listVars, flagVars, execVars, userVars, pcR, taken, pcS,
                       finished, ub, current>>
        /\ m_working \in BOOLEAN /\ m_paused \in BOOLEAN
        /\ limit \in Limits \cup {DefaultLimit}
        /\ halted \subseteq Requests /\ ub \in BOOLEAN /\ pcR \in RunnerStates
        /\ pcS \in {"idle", "joining", "locking", "requeue", "returned"}
        /\ pcR = "take" => m_requests # {}
    BY <1>6 DEF vars, poolVars, DispInv, DispTypeOK, TakeIsSafe
  <2> QED
    BY <1>0, <2>1, QuietStep
<1> QED
  BY <1>0, <1>1, <1>2, <1>3, <1>4, <1>5, <1>6, <1>7 DEF DispNext

\* The inductive invariant holds of every behaviour, over any number of restarts.
THEOREM DispInvHolds == DispSpec => []DispInv
<1>1. DispInv /\ PoolAtRest /\ [DispNext]_vars => DispInv' /\ PoolAtRest'
  BY DispInvStep
<1>2. DispInit => PoolAtRest
  BY DEF DispInit, PoolInit, PoolAtRest
<1> QED
  BY DispInvInit, <1>1, <1>2, PTL DEF DispSpec

-----------------------------------------------------------------------------
(* What follows from it.                                                   *)

\* Every variable keeps its type, in the pool as well.
THEOREM TypeCorrect == DispSpec => []DispTypeOK
<1>1. DispInv => DispTypeOK
  BY DEF DispInv
<1> QED
  BY DispInvHolds, <1>1, PTL

\* No submitted request is ever in none of the places, whatever _run(), _stop()
\* and the callbacks of two threads do to the lists at the same time.
THEOREM NeverLostAlways == DispSpec => []NeverLost
<1>1. DispInv => NeverLost
  BY DEF DispInv
<1> QED
  BY DispInvHolds, <1>1, PTL

\* A request is never pending, in hand and active at once, nor active twice.
THEOREM PlacesDisjointAlways == DispSpec => []PlacesDisjoint
<1>1. DispInv => PlacesDisjoint
  BY DEF DispInv
<1> QED
  BY DispInvHolds, <1>1, PTL

\* begin() of the pending requests is dereferenced only when there is one.
THEOREM TakeIsSafeAlways == DispSpec => []TakeIsSafe
<1>1. DispInv => TakeIsSafe
  BY DEF DispInv
<1> QED
  BY DispInvHolds, <1>1, PTL

\* A request fails into m_error_requests at most once.
THEOREM ErrorsStoredOnceAlways == DispSpec => []ErrorsStoredOnce
<1>1. DispInv => ErrorsStoredOnce
  BY DEF DispInv
<1> QED
  BY DispInvHolds, <1>1, PTL

-----------------------------------------------------------------------------
(* The stale reading of m_working.                                         *)

\* Only the request in the Runner's hand can be on its way into the list of
\* coroutines, and it is there before the thread that stop() joins can have ended.
AdmittedAgrees ==
  /\ loop = "exited" => ~working
  /\ pcS \in {"locking", "requeue", "returned"} => loop = "exited"
  /\ \A q \in Requests : stage[q] = "admitted" => pcR = "enlisting" /\ taken = q
  /\ pcS = "returned" => pcR # "enlisting"

LEMMA AdmittedStep ==
  ASSUME DispInv, AdmittedAgrees, [DispNext]_vars
  PROVE  AdmittedAgrees'
<1> USE DEF AdmittedAgrees
<1>0. /\ DispTypeOK /\ PoolTypeOK /\ TakenAgrees /\ LocksExclusive
      /\ stage \in [Requests -> Stages]
      /\ pcS \in {"idle", "joining", "locking", "requeue", "returned"}
  BY DEF DispInv, DispTypeOK, PoolTypeOK
<1>1. CASE RunnerNext
  <2>1. pcR \in {"handing", "enlisting"} => taken \in Requests
    BY <1>0 DEF TakenAgrees, DispTypeOK
  <2>2. CASE HandToPool
    BY <1>0, <2>1, <2>2 DEF HandToPool, Offer
  <2>3. CASE EnlistTaken
    BY <1>0, <2>1, <2>3 DEF EnlistTaken, Enlist
  <2>4. CASE \E w \in Workers : HandToWorker(w)
    BY <2>4 DEF HandToWorker, poolVars
  <2>5. CASE RunStart \/ RunLoop \/ LoopTest \/ Take \/ Enter \/ RefuseUnsupported
    BY <2>5 DEF RunStart, RunLoop, LoopTest, Take, Enter, RefuseUnsupported, poolVars
  <2> QED
    BY <1>1, <2>2, <2>3, <2>4, <2>5 DEF RunnerNext
<1>2. CASE \E e \in Executors : Succeed(e) \/ Fail(e) \/ Quit(e) \/ CallbackNext(e)
  BY <1>2 DEF Succeed, Fail, Quit, CallbackNext, FinishedCallback, ScanNext,
              ScanStore, StoreErase, UseDangling, poolVars
<1>3. CASE (\E w \in Workers : WorkerEnds(w)) \/ CoroutineEnds
  BY <1>0, <1>3 DEF WorkerEnds, CoroutineEnds, Finish, poolVars
<1>4. CASE AsyncLoop
  BY <1>4 DEF AsyncLoop, Launch, Exit, Suspend, Begin
<1>5. CASE \/ \E q \in Requests : AddRequest(q) \/ HaltRequest(q)
           \/ SetActiveDownloadsLimit \/ Pause \/ Resume
  BY <1>5 DEF AddRequest, HaltRequest, SetActiveDownloadsLimit, Pause, Resume, poolVars
<1>6. CASE StopAsync
  BY <1>6 DEF StopAsync, Halt
<1>7. CASE StopperNext
  BY <1>0, <1>7
  DEF StopperNext, StopJoin, StopLock, StopRequeue, StopEnd, LocksExclusive, poolVars
<1>8. CASE RunAgain
  BY <1>8 DEF RunAgain, Renew
<1>9. CASE UNCHANGED vars
  BY <1>9 DEF vars, poolVars
<1> QED
  BY <1>1, <1>2, <1>3, <1>4, <1>5, <1>6, <1>7, <1>8, <1>9 DEF DispNext

\* addRequest() of the asynchronous handler tests m_working without a lock: when
\* _stop() has the lock of the active requests, nothing that passed the test is still
\* outside the list, for any client and any number of restarts.
THEOREM NoneAdmittedBehindStopAlways == DispSpec => []NoneAdmittedBehindStop
<1>1. DispInit => AdmittedAgrees
  BY DEF DispInit, PoolInit, AdmittedAgrees
<1>2. DispInv /\ AdmittedAgrees => NoneAdmittedBehindStop
  BY DEF DispInv, LocksExclusive, AdmittedAgrees, NoneAdmittedBehindStop
<1>3. DispInv /\ AdmittedAgrees /\ [DispNext]_vars => AdmittedAgrees'
  BY AdmittedStep
<1> QED
  BY DispInvHolds, <1>1, <1>2, <1>3, PTL DEF DispSpec

\* Composed with the dispatcher the asynchronous handler still behaves as its
\* own specification says: _run() and _stop() use it only as it may be used.
THEOREM DispUsesPool == DispSpec => PoolSpec
<1>1. DispInit => PoolInit
  BY DEF DispInit
<1>2. DispInv /\ [DispNext]_vars => [PoolNext]_poolVars
  BY DispStepIsPoolStep DEF DispInv
<1> QED
  BY DispInvHolds, <1>1, <1>2, PTL DEF DispSpec, PoolSpec
=============================================================================

------------------------ MODULE CarefulClient_proofs ------------------------
(***************************************************************************)
(* What the dispatcher does for a careful client without OUT_OF_QUEUE      *)
(* requests: more proofs about NetworkRequestsHandler, for every set of    *)
(* requests and any number of stops and restarts.                          *)
(***************************************************************************)
EXTENDS NetworkRequestsHandler_proofs

USE DEF listVars, flagVars, execVars, userVars

\* The asynchronous handler runs and admits requests, and no stop() has begun.
ServesNow == loop = "running" /\ working /\ pcS = "idle"

\* Nobody but the asynchronous handler executes a request or a callback.
OnlyAsync ==
  /\ \A w \in Workers : job[w] = NONE
  /\ \A e \in Executors \ {Async} : cb[e] = "none" /\ pos[e] = NONE

\* Where stop() and the Runner can be together: the Runner sleeps while the handler
\* does not serve.
RunnerAndStop ==
  /\ pcR \in {"take", "taken", "handing", "enlisting"} => ServesNow
  /\ pcR # "rejecting"
  /\ pcR = "exited" => pcS = "returned"
  /\ ~m_working => pcR \in {"idle", "starting"} \/ pcS = "returned"
  /\ m_requests # {} /\ ~m_paused => ServesNow
  /\ pcS = "idle" => loop # "exited" /\ (loop = "running" => working)
  /\ pcS # "idle" => m_paused /\ loop # "created" /\ pcR \in {"loop", "exited"}
  /\ pcS \in {"locking", "requeue", "returned"} => loop = "exited"
  /\ pcS = "returned" => m_active_requests = <<>>

\* Where the failed callback looks, its request is still ahead.
LooksBefore ==
  \E i, j \in 1..Len(m_active_requests) :
    /\ i <= j
    /\ m_active_requests[i] = pos[Async]
    /\ m_active_requests[j] = current

\* The callback that the asynchronous handler runs.
AsyncAgrees ==
  /\ cb[Async] \notin {"scan", "store"} => pos[Async] = NONE
  /\ cb[Async] = "scan" => LooksBefore
  /\ cb[Async] = "store" => pos[Async] = current
  /\ cb[Async] = "over" => current \notin ActiveSet \ (halted \cup InvalidUrl)
  /\ current # NONE => stage[current] = "listed"

\* A request that has a coroutine is active until a callback takes it out, and an
\* active request has one, unless it was halted or has an invalid Url.
StagesAgree ==
  /\ loop # "exited" =>
       \A q \in Requests :
         stage[q] \in {"admitted", "listed"} =>
           q \in ActiveSet \/ (q = current /\ cb[Async] = "over")
  /\ \A q \in ActiveSet :
       taken = q \/ stage[q] \in {"admitted", "listed"} \/ q \in halted \cup InvalidUrl

\* A request that was not handed over since the last start has no coroutine.
FreshAgrees ==
  loop # "exited" =>
    \A q \in Requests :
      \/ q \notin added
      \/ q \in m_requests
      \/ q = taken /\ pcR \in {"taken", "handing"}
      => stage[q] = "new"

\* What has finished is in no list any more.
FinishedIsOver ==
  /\ finished \subseteq added
  /\ finished \cap (m_requests \cup ActiveSet \cup {taken}) = {}

CarefulInv ==
  /\ ~ub
  /\ OnlyAsync
  /\ RunnerAndStop
  /\ AsyncAgrees
  /\ StagesAgree
  /\ FreshAgrees
  /\ FinishedIsOver

\* The clients these proofs are about.
Gentle == Careful /\ OutOfQueue = {}

LEMMA CarefulInit == DispInit => CarefulInv
<1> SUFFICES ASSUME DispInit PROVE CarefulInv
  OBVIOUS
<1> USE DEF DispInit, PoolInit
<1>1. ActiveSet = {}
  BY EmptySeq DEF ActiveSet, ToSet
<1>2. OnlyAsync
  BY DEF OnlyAsync, Executors
<1>3. RunnerAndStop
  BY DEF RunnerAndStop, ServesNow
<1>4. AsyncAgrees
  BY DEF AsyncAgrees, Executors
<1>5. StagesAgree /\ FreshAgrees /\ FinishedIsOver
  BY <1>1 DEF StagesAgree, FreshAgrees, FinishedIsOver
<1> QED
  BY <1>2, <1>3, <1>4, <1>5 DEF CarefulInv

-----------------------------------------------------------------------------
(* Steps that leave the active requests and the coroutines as they are.    *)

LEMMA RestKeepsCareful ==
  ASSUME CarefulInv, DispInv,
         UNCHANGED <<m_active_requests, execVars, finished, current, stage, ub>>,
         taken' \in {taken, NONE} \cup m_requests,
         \A q \in ActiveSet : taken = q =>
           taken' = q \/ stage[q] \in {"admitted", "listed"},
         halted \subseteq halted', added \subseteq added',
         m_requests' \cap added \subseteq m_requests,
         m_requests' \subseteq Requests,
         pcR' \in {"taken", "handing"} =>
           (pcR' = pcR /\ taken' = taken) \/ taken' \in m_requests,
         loop' # "exited" => loop # "exited"
  PROVE  /\ ~ub' /\ OnlyAsync' /\ AsyncAgrees' /\ StagesAgree'
         /\ FreshAgrees' /\ FinishedIsOver'
<1> USE DEF CarefulInv
<1>1. ActiveSet' = ActiveSet
  BY DEF ActiveSet
<1>2. NONE \notin finished
  BY NoneAssumption DEF DispInv, DispTypeOK
<1>3. OnlyAsync' /\ AsyncAgrees'
  BY <1>1 DEF OnlyAsync, AsyncAgrees, LooksBefore
<1>4. StagesAgree'
  BY <1>1 DEF StagesAgree
<1>5. FinishedIsOver'
  BY <1>1, <1>2 DEF FinishedIsOver
<1>6. FreshAgrees'
  BY DEF FreshAgrees
<1> QED
  BY <1>3, <1>4, <1>5, <1>6

\* The Runner does not leave its loop while the handler does not serve.
LEMMA RunnerKeepsCareful ==
  ASSUME Gentle, DispInv, CarefulInv, RunStart \/ RunLoop \/ LoopTest \/ Take
  PROVE  CarefulInv'
<1> USE DEF CarefulInv
<1>1. taken = NONE \/ pcR = "taken"
  BY DEF RunStart, RunLoop, LoopTest, Take, DispInv, TakenAgrees
<1>2. /\ UNCHANGED <<m_active_requests, execVars, finished, current, stage, ub>>
      /\ taken' \in {taken} \cup m_requests
      /\ UNCHANGED <<halted, added, loop>>
      /\ m_requests' \subseteq m_requests /\ m_requests' \subseteq Requests
      /\ pcR \in {"idle", "starting", "loop", "take"}
      /\ pcR' \in {"taken", "handing"} => taken' \in m_requests
  BY DEF RunStart, RunLoop, LoopTest, Take, poolVars, DispInv, DispTypeOK
<1>3. taken = NONE /\ NONE \notin ActiveSet
  BY <1>2, NoneAssumption DEF DispInv, TakenAgrees, OnlySubmitted, DispTypeOK
<1>4. /\ ~ub' /\ OnlyAsync' /\ AsyncAgrees' /\ StagesAgree'
      /\ FreshAgrees' /\ FinishedIsOver'
  BY <1>2, <1>3, RestKeepsCareful
<1>5. RunnerAndStop'
  BY DEF RunStart, RunLoop, LoopTest, Take, RunnerAndStop, ServesNow, poolVars
<1> QED
  BY <1>4, <1>5

LEMMA UsersKeepCareful ==
  ASSUME Gentle, DispInv, CarefulInv,
         \/ \E q \in Requests : AddRequest(q) \/ HaltRequest(q)
         \/ SetActiveDownloadsLimit \/ Pause \/ Resume
         \/ StopAsync \/ StopJoin \/ StopLock \/ StopEnd
  PROVE  CarefulInv'
<1> USE DEF CarefulInv, Gentle
<1>1. /\ UNCHANGED <<m_active_requests, execVars, finished, current, stage, ub, taken>>
      /\ halted \subseteq halted' /\ added \subseteq added'
      /\ m_requests' \cap added \subseteq m_requests /\ m_requests' \subseteq Requests
      /\ loop' = loop /\ pcR' = pcR
  BY DEF AddRequest, HaltRequest, SetActiveDownloadsLimit, Pause, Resume, StopAsync,
         Halt, StopJoin, StopLock, StopEnd, poolVars, DispInv, DispTypeOK
<1>2. /\ ~ub' /\ OnlyAsync' /\ AsyncAgrees' /\ StagesAgree'
      /\ FreshAgrees' /\ FinishedIsOver'
  BY <1>1, RestKeepsCareful
<1>3. RunnerAndStop'
  <2>1. CASE \E q \in Requests : AddRequest(q) \/ HaltRequest(q)
    BY <2>1 DEF AddRequest, HaltRequest, RunnerAndStop, ServesNow, Serving, poolVars
  <2>2. CASE SetActiveDownloadsLimit \/ Pause \/ Resume
    BY <2>2 DEF SetActiveDownloadsLimit, Pause, Resume, RunnerAndStop, ServesNow, Serving, poolVars
  <2>3. CASE StopAsync
    BY <2>3 DEF StopAsync, Halt, RunnerAndStop, ServesNow
  <2>4. CASE StopJoin \/ StopLock \/ StopEnd
    BY <2>4 DEF StopJoin, StopLock, StopEnd, RunnerAndStop, ServesNow, poolVars
  <2> QED
    BY <2>1, <2>2, <2>3, <2>4
<1> QED
  BY <1>2, <1>3

LEMMA PoolKeepsCareful ==
  ASSUME Gentle, DispInv, CarefulInv, AsyncLoop
  PROVE  CarefulInv'
<1> USE DEF CarefulInv
<1>1. /\ cb[Async] = "none"
      /\ UNCHANGED <<listVars, flagVars, execVars, userVars, pcR, taken, pcS,
                     finished, ub>>
  BY DEF AsyncLoop
<1>2. CASE Launch \/ Exit
  <2>1. /\ UNCHANGED <<current, stage>>
        /\ loop' # "exited" => loop # "exited"
    BY <1>2 DEF Launch, Exit
  <2>4. m_requests \subseteq Requests
    BY DEF DispInv, DispTypeOK
  <2>2. /\ ~ub' /\ OnlyAsync' /\ AsyncAgrees' /\ StagesAgree'
        /\ FreshAgrees' /\ FinishedIsOver'
    BY <1>1, <2>1, <2>4, RestKeepsCareful
  <2>3. RunnerAndStop'
    BY <1>1, <1>2 DEF Launch, Exit, RunnerAndStop, ServesNow
  <2> QED
    BY <2>2, <2>3
<1>3. CASE Suspend \/ \E q \in Requests : Begin(q)
  <2>1. /\ UNCHANGED <<working, loop, stage>>
        /\ current' # NONE => stage[current'] = "listed"
    BY <1>3 DEF Suspend, Begin
  <2>2. ActiveSet' = ActiveSet
    BY <1>1 DEF ActiveSet
  <2>3. OnlyAsync' /\ RunnerAndStop'
    BY <1>1, <2>1 DEF OnlyAsync, RunnerAndStop, ServesNow
  <2>4. AsyncAgrees' /\ StagesAgree' /\ FreshAgrees' /\ FinishedIsOver'
    BY <1>1, <2>1, <2>2 DEF AsyncAgrees, StagesAgree, FreshAgrees, FinishedIsOver
  <2> QED
    BY <1>1, <2>3, <2>4
<1> QED
  BY <1>2, <1>3 DEF AsyncLoop

-----------------------------------------------------------------------------
(* A request is listed and handed over.                                    *)

\* A new request is behind all others.
LEMMA EnterKeepsCareful ==
  ASSUME Gentle, DispInv, CarefulInv, Enter
  PROVE  CarefulInv'
<1> USE DEF CarefulInv
<1>1. /\ m_active_requests \in Seq(Requests)
      /\ taken \in Requests /\ taken # NONE
      /\ m_active_requests' = Append(m_active_requests, taken)
      /\ pcR = "taken" /\ pcR' = "handing" /\ pcS # "returned"
      /\ UNCHANGED <<poolVars, m_requests, m_error_requests, flagVars,
                     execVars, userVars, taken, pcS, finished, ub>>
  BY DEF Enter, DispInv, DispTypeOK, TakenAgrees, RunnerAndStop, ServesNow
<1>2. ActiveSet' = ActiveSet \cup {taken}
  BY <1>1, AppendSet DEF ActiveSet
<1>3. OnlyAsync' /\ RunnerAndStop'
  BY <1>1 DEF OnlyAsync, RunnerAndStop, ServesNow, poolVars
<1>4. LooksBefore => LooksBefore'
  <2>1. /\ Len(m_active_requests) \in Nat
        /\ Len(m_active_requests') = Len(m_active_requests) + 1
        /\ \A i \in 1..Len(m_active_requests) :
             m_active_requests'[i] = m_active_requests[i]
    BY <1>1, AppendProperties
  <2> SUFFICES ASSUME NEW i \in 1..Len(m_active_requests),
                      NEW j \in 1..Len(m_active_requests),
                      i <= j, m_active_requests[i] = pos[Async],
                      m_active_requests[j] = current
               PROVE  LooksBefore'
    BY DEF LooksBefore
  <2>2. /\ i \in 1..Len(m_active_requests') /\ j \in 1..Len(m_active_requests')
        /\ m_active_requests'[i] = pos'[Async]
        /\ m_active_requests'[j] = current'
    BY <1>1, <2>1 DEF poolVars
  <2> QED
    BY <2>2 DEF LooksBefore
<1>5. AsyncAgrees'
  <2>1. current # taken
    BY <1>1 DEF AsyncAgrees, FreshAgrees, RunnerAndStop, ServesNow
  <2> QED
    BY <1>1, <1>2, <1>4, <2>1 DEF AsyncAgrees, poolVars
<1>6. StagesAgree' /\ FreshAgrees' /\ FinishedIsOver'
  BY <1>1, <1>2 DEF StagesAgree, FreshAgrees, FinishedIsOver, poolVars
<1> QED
  BY <1>1, <1>3, <1>5, <1>6

\* A request that is handed over while the handler serves is admitted.
LEMMA HandKeepsCareful ==
  ASSUME Gentle, DispInv, CarefulInv,
         \/ HandToPool \/ EnlistTaken \/ RefuseUnsupported
         \/ \E w \in Workers : HandToWorker(w)
  PROVE  CarefulInv'
<1> USE DEF CarefulInv, Gentle
<1>1. HandToPool \/ EnlistTaken
  BY DEF RefuseUnsupported, HandToWorker
<1>2. /\ taken \in Requests /\ taken \in ActiveSet /\ taken \notin m_requests
      /\ taken \in added
      /\ stage \in [Requests -> Stages]
      /\ ServesNow
      /\ pcR \in {"handing", "enlisting"}
  BY <1>1, NoneAssumption
  DEF HandToPool, EnlistTaken, DispInv, DispTypeOK, PoolTypeOK, TakenAgrees,
      PlacesDisjoint, OnlySubmitted, RunnerAndStop
<1>3. \E s \in {"admitted", "listed"}, r \in {"enlisting", "loop"} :
        /\ stage' = [stage EXCEPT ![taken] = s]
        /\ pcR' = r
        /\ taken' = IF r = "loop" THEN NONE ELSE taken
        /\ r = "loop" <=> s = "listed"
        /\ stage[taken] = IF s = "admitted" THEN "new" ELSE "admitted"
        /\ UNCHANGED <<working, loop, current, listVars, flagVars, execVars, userVars,
                       pcS, finished, ub>>
  BY <1>1, <1>2 DEF HandToPool, EnlistTaken, Offer, Enlist, ServesNow
<1>4. ActiveSet' = ActiveSet
  BY <1>3 DEF ActiveSet
<1>5. OnlyAsync' /\ FinishedIsOver'
  BY <1>2, <1>3, <1>4, NoneAssumption
  DEF OnlyAsync, FinishedIsOver, DispInv, DispTypeOK
<1>6. RunnerAndStop'
  <2>1. m_working
    BY <1>2 DEF RunnerAndStop, ServesNow
  <2> QED
    BY <1>2, <1>3, <2>1 DEF RunnerAndStop, ServesNow
<1>7. AsyncAgrees'
  <2>1. current # taken
    BY <1>2, <1>3, NoneAssumption DEF AsyncAgrees
  <2> QED
    BY <1>2, <1>3, <1>4, <2>1 DEF AsyncAgrees, LooksBefore
<1>8. StagesAgree' /\ FreshAgrees'
  BY <1>2, <1>3, <1>4 DEF StagesAgree, FreshAgrees
<1> QED
  BY <1>3, <1>5, <1>6, <1>7, <1>8

-----------------------------------------------------------------------------
(* The asynchronous handler and its callbacks.                             *)

\* It is only in the middle of a coroutine that a callback runs.
LEMMA AsyncInCallback ==
  ASSUME DispInv, PoolAtRest, CarefulInv, cb[Async] # "none" \/ current # NONE
  PROVE  /\ current \in Requests /\ current # NONE
         /\ loop = "running" /\ pcS \in {"idle", "joining"}
         /\ stage[current] = "listed"
         /\ cb[Async] # "over" => current \in ActiveSet
<1>1. current \in Requests
  BY NoneAssumption, DispatcherAssumption
  DEF DispInv, CallbacksAgree, Handled, Executors, DispTypeOK, PoolTypeOK
<1>2. current # NONE
  BY <1>1, NoneAssumption
<1>3. loop = "running"
  BY <1>2 DEF PoolAtRest
<1>4. pcS \in {"idle", "joining"}
  BY <1>3 DEF CarefulInv, RunnerAndStop, DispInv, DispTypeOK
<1>5. stage[current] = "listed"
  BY <1>2 DEF CarefulInv, AsyncAgrees
<1>6. cb[Async] # "over" => current \in ActiveSet
  BY <1>1, <1>3, <1>5 DEF CarefulInv, StagesAgree
<1> QED
  BY <1>1, <1>2, <1>3, <1>4, <1>5, <1>6

\* The steps of its callback that change neither list but for what it erases.
LEMMA CallbackKeepsCareful ==
  ASSUME DispInv, PoolAtRest, CarefulInv, cb[Async] # "none" \/ current # NONE,
         UNCHANGED <<poolVars, m_requests, flagVars, userVars, job, pcR, taken,
                     pcS, ub>>,
         \A e \in Executors \ {Async} : cb'[e] = cb[e] /\ pos'[e] = pos[e],
         AsyncAgrees',
         \/ UNCHANGED <<m_active_requests, finished>> /\ cb'[Async] # "none"
            /\ (cb[Async] = "over" => cb'[Async] = "over")
         \/ /\ ActiveSet' = ActiveSet \ {current} /\ cb'[Async] = "over"
            /\ current \in ActiveSet /\ current # taken
            /\ finished' \in {finished, finished \cup {current}}
  PROVE  CarefulInv'
<1> USE DEF CarefulInv
<1>1. /\ current \in Requests /\ pcS \in {"idle", "joining"}
      /\ stage[current] = "listed"
  BY AsyncInCallback
<1>2. \/ ActiveSet' = ActiveSet /\ finished' = finished
      \/ /\ ActiveSet' = ActiveSet \ {current} /\ cb'[Async] = "over"
         /\ current \in ActiveSet /\ current # taken
         /\ finished' \in {finished, finished \cup {current}}
  BY DEF ActiveSet
<1>3. OnlyAsync' /\ RunnerAndStop'
  BY <1>1 DEF OnlyAsync, RunnerAndStop, ServesNow, poolVars
<1>4. FreshAgrees'
  BY DEF FreshAgrees, poolVars
<1>5. FinishedIsOver'
  <2>1. current \in ActiveSet => current \in added /\ current \notin m_requests
    BY DEF DispInv, OnlySubmitted, PlacesDisjoint
  <2> QED
    BY <1>2, <2>1 DEF FinishedIsOver
<1>6. StagesAgree'
  BY <1>2 DEF StagesAgree, poolVars
<1> QED
  BY <1>3, <1>4, <1>5, <1>6

\* Positions in a list without repetitions.
LEMMA PositionIs ==
  ASSUME DispInv, NEW i \in 1..Len(m_active_requests)
  PROVE  /\ Position(m_active_requests[i]) = i
         /\ m_active_requests[i] \in ActiveSet
<1>1. m_active_requests \in Seq(Requests) /\ IsInjective(m_active_requests)
  BY DEF DispInv, DispTypeOK, PlacesDisjoint
<1>2. m_active_requests[i] \in ActiveSet
  BY <1>1, ToSetProperties DEF ActiveSet
<1>3. /\ Position(m_active_requests[i]) \in 1..Len(m_active_requests)
      /\ m_active_requests[Position(m_active_requests[i])] = m_active_requests[i]
  BY <1>1, <1>2, PositionProperties
<1> QED
  BY <1>1, <1>2, <1>3 DEF IsInjective

\* An outcome of the coroutine: its callback begins, at the head of the list.
LEMMA OutcomesKeepCareful ==
  ASSUME Gentle, DispInv, PoolAtRest, CarefulInv, NEW e \in Executors,
         Succeed(e) \/ Fail(e) \/ Quit(e)
  PROVE  CarefulInv'
<1> USE DEF CarefulInv
<1>1. e = Async /\ current # NONE /\ cb[Async] = "none"
  BY DEF Succeed, Fail, Quit, Busy, Handled, OnlyAsync, Executors
<1>2. /\ current \in Requests /\ current \in ActiveSet
      /\ pos[Async] = NONE
  BY <1>1, AsyncInCallback DEF AsyncAgrees
<1>3. /\ m_active_requests \in Seq(Requests)
      /\ cb \in [Executors -> {"none", "finish", "scan", "store", "over"}]
      /\ pos \in [Executors -> Requests \cup {NONE, GONE}]
  BY DEF DispInv, DispTypeOK
<1>4. UNCHANGED <<poolVars, listVars, flagVars, userVars, job, pcR, taken, pcS,
                  finished, ub>>
  BY DEF Succeed, Fail, Quit
<1>5. ActiveSet' = ActiveSet
  BY <1>4 DEF ActiveSet
<1>6. CASE Succeed(e) \/ Quit(e)
  <2>1. /\ cb' = [cb EXCEPT ![Async] = IF Succeed(e) THEN "finish" ELSE "over"]
        /\ pos' = pos
        /\ ~Succeed(e) => current \in halted \cup InvalidUrl
    BY <1>1, <1>6, DispatcherAssumption DEF Succeed, Quit, Handled
  <2>2. AsyncAgrees'
    BY <1>1, <1>2, <1>3, <1>4, <1>5, <2>1 DEF AsyncAgrees, Executors, poolVars
  <2> QED
    BY <1>1, <1>3, <1>4, <2>1, <2>2, CallbackKeepsCareful DEF Executors
<1>7. CASE Fail(e)
  <2>1. PICK j \in 1..Len(m_active_requests) : m_active_requests[j] = current
    BY <1>2, <1>3, ToSetProperties DEF ActiveSet
  <2>2. m_active_requests # <<>> /\ Len(m_active_requests) \in Nat \ {0}
    BY <1>3, <2>1, EmptySeq
  <2>3. Head(m_active_requests) = m_active_requests[1]
    BY <1>3, <2>2
  <2>4. /\ cb' = [cb EXCEPT ![Async] = "scan"]
        /\ pos' = [pos EXCEPT ![Async] = m_active_requests[1]]
    BY <1>1, <1>7, <2>2, <2>3 DEF Fail, StartScan
  <2>5. LooksBefore'
    <3>1. /\ 1 \in 1..Len(m_active_requests) /\ 1 <= j
          /\ m_active_requests[1] = pos'[Async]
      BY <1>3, <2>1, <2>2, <2>4 DEF Executors
    <3> QED
      BY <1>4, <2>1, <3>1 DEF LooksBefore, poolVars
  <2>6. AsyncAgrees'
    BY <1>1, <1>2, <1>3, <1>4, <1>5, <2>4, <2>5 DEF AsyncAgrees, Executors, poolVars
  <2> QED
    BY <1>1, <1>3, <1>4, <2>4, <2>6, CallbackKeepsCareful DEF Executors
<1> QED
  BY <1>6, <1>7

\* The callback looks, stores and erases; nobody moves what it points to.
LEMMA CallbackNextKeepsCareful ==
  ASSUME Gentle, DispInv, PoolAtRest, CarefulInv, NEW e \in Executors, CallbackNext(e)
  PROVE  CarefulInv'
<1> USE DEF CarefulInv
<1>1. e = Async /\ cb[Async] \notin {"none", "over"} /\ Handled(e) = current
  BY DispatcherAssumption
  DEF CallbackNext, FinishedCallback, ScanNext, ScanStore, StoreErase, UseDangling,
      OnlyAsync, Handled
<1>2. /\ current \in Requests /\ current \in ActiveSet /\ current # NONE
      /\ GONE \notin Requests /\ Async \in Executors
  BY <1>1, AsyncInCallback, DispatcherAssumption DEF Executors
<1>3. /\ m_active_requests \in Seq(Requests) /\ IsInjective(m_active_requests)
      /\ cb \in [Executors -> {"none", "finish", "scan", "store", "over"}]
      /\ pos \in [Executors -> Requests \cup {NONE, GONE}]
  BY DEF DispInv, DispTypeOK, PlacesDisjoint
<1>4. UNCHANGED <<poolVars, m_requests, flagVars, userVars, job, pcR, taken, pcS>>
  BY DEF CallbackNext, FinishedCallback, ScanNext, ScanStore, StoreErase, UseDangling
<1>5. current \notin {NONE, GONE} /\ \A f \in Executors \ {Async} : pos[f] = NONE
  BY <1>2 DEF OnlyAsync
<1>6. CASE FinishedCallback(e)
  <2>1. /\ EraseActive(current) /\ ActiveFree
        /\ cb[Async] = "finish"
        /\ pos' = IteratorsAfterErase(current)
        /\ cb' = [cb EXCEPT ![Async] = "over"]
        /\ finished' = finished \cup {current} /\ ub' = ub
    BY <1>1, <1>6 DEF FinishedCallback
  <2>2. ActiveSet' = ActiveSet \ {current}
    BY <1>3, <2>1, EraseActiveProperties
  <2>3. current # taken
    BY <1>2, <2>1 DEF ActiveFree, DispInv, TakenAgrees, PlacesDisjoint
  <2>4. pos' = pos
    BY <1>3, <1>5, <2>1 DEF IteratorsAfterErase, AsyncAgrees
  <2>5. AsyncAgrees'
    BY <1>2, <1>3, <1>4, <2>1, <2>2, <2>4 DEF AsyncAgrees, poolVars
  <2> QED
    BY <1>1, <1>2, <1>3, <1>4, <2>1, <2>2, <2>3, <2>4, <2>5, CallbackKeepsCareful
<1>7. CASE ScanNext(e)
  <2>1. PICK i \in 1..Len(m_active_requests), j \in 1..Len(m_active_requests) :
               /\ i <= j
               /\ m_active_requests[i] = pos[Async]
               /\ m_active_requests[j] = current
    BY <1>1, <1>7 DEF ScanNext, AsyncAgrees, LooksBefore
  <2>2. Position(pos[Async]) = i /\ Len(m_active_requests) \in Nat
    BY <1>3, <2>1, PositionIs, LenProperties
  <2>3. i + 1 \in 1..Len(m_active_requests) /\ i + 1 <= j
    <3>1. i # j
      BY <1>1, <1>7, <2>1 DEF ScanNext
    <3> QED
      BY <2>1, <2>2, <3>1
  <2>4. /\ pos' = [pos EXCEPT ![Async] = m_active_requests[i + 1]]
        /\ UNCHANGED <<cb, m_active_requests, finished, ub>>
        /\ cb[Async] = "scan"
    BY <1>1, <1>7, <2>2, <2>3 DEF ScanNext
  <2>5. LooksBefore'
    <3>1. m_active_requests[i + 1] = pos'[Async]
      BY <1>2, <1>3, <2>4
    <3> QED
      BY <1>4, <2>1, <2>3, <2>4, <3>1 DEF LooksBefore, poolVars
  <2>6. AsyncAgrees'
    BY <1>4, <2>4, <2>5 DEF AsyncAgrees, poolVars
  <2> QED
    BY <1>1, <1>3, <1>4, <2>4, <2>6, CallbackKeepsCareful
<1>8. CASE ScanStore(e)
  <2>1. /\ cb' = [cb EXCEPT ![Async] = "store"]
        /\ pos[Async] = current
        /\ UNCHANGED <<m_active_requests, pos, finished, ub>>
    BY <1>1, <1>8 DEF ScanStore
  <2>2. AsyncAgrees'
    BY <1>2, <1>3, <1>4, <2>1 DEF AsyncAgrees, poolVars
  <2> QED
    BY <1>1, <1>2, <1>3, <1>4, <2>1, <2>2, CallbackKeepsCareful
<1>9. CASE StoreErase(e)
  <2>1. /\ cb[Async] = "store" /\ pos[Async] = current
        /\ EraseActive(current) /\ ActiveFree
        /\ pos' = [IteratorsAfterErase(current) EXCEPT ![Async] = NONE]
        /\ cb' = [cb EXCEPT ![Async] = "over"]
        /\ UNCHANGED <<finished, ub>>
    BY <1>1, <1>9 DEF StoreErase, AsyncAgrees
  <2>2. ActiveSet' = ActiveSet \ {current}
    BY <1>3, <2>1, EraseActiveProperties
  <2>3. current # taken
    BY <1>2, <2>1 DEF ActiveFree, DispInv, TakenAgrees, PlacesDisjoint
  <2>4. /\ pos'[Async] = NONE
        /\ \A f \in Executors \ {Async} : pos'[f] = pos[f]
    BY <1>2, <1>3, <1>5, <2>1 DEF IteratorsAfterErase
  <2>5. AsyncAgrees'
    BY <1>2, <1>3, <1>4, <2>1, <2>2, <2>4 DEF AsyncAgrees, poolVars
  <2> QED
    BY <1>1, <1>2, <1>3, <1>4, <2>1, <2>2, <2>3, <2>4, <2>5, CallbackKeepsCareful
<1>10. CASE UseDangling(e)
  <2>1. pos[Async] # GONE
    <3>1. cb[Async] = "scan" => pos[Async] \in ActiveSet
      <4>1. ASSUME cb[Async] = "scan" PROVE LooksBefore
        BY <4>1 DEF AsyncAgrees
      <4> QED
        BY <4>1, PositionIs DEF LooksBefore
    <3>2. ActiveSet \subseteq Requests
      BY <1>3, ToSetProperties DEF ActiveSet
    <3> QED
      BY <1>1, <1>2, <1>10, <3>1, <3>2 DEF UseDangling, AsyncAgrees
  <2> QED
    BY <1>1, <1>10, <2>1 DEF UseDangling
<1> QED
  BY <1>6, <1>7, <1>8, <1>9, <1>10 DEF CallbackNext

\* A coroutine returns after its callback, or because its request was halted or has
\* an invalid Url.
LEMMA EndsKeepCareful ==
  ASSUME Gentle, DispInv, PoolAtRest, CarefulInv,
         CoroutineEnds \/ \E w \in Workers : WorkerEnds(w)
  PROVE  CarefulInv'
<1> USE DEF CarefulInv
<1>1. CoroutineEnds
  BY DispatcherAssumption DEF WorkerEnds, OnlyAsync, Executors
<1>2. /\ cb[Async] = "over" /\ current \in Requests
      /\ stage' = [stage EXCEPT ![current] = "done"]
      /\ current' = NONE
      /\ cb' = [cb EXCEPT ![Async] = "none"]
      /\ UNCHANGED <<working, loop, listVars, flagVars, userVars, job, pos, pcR,
                     taken, pcS, finished, ub>>
  BY <1>1, AsyncInCallback DEF CoroutineEnds, Finish
<1>3. /\ stage \in [Requests -> Stages] /\ stage[current] = "listed"
      /\ cb \in [Executors -> {"none", "finish", "scan", "store", "over"}]
      /\ Async \in Executors
      /\ current \notin ActiveSet \ (halted \cup InvalidUrl)
  BY <1>2, NoneAssumption
  DEF DispInv, DispTypeOK, PoolTypeOK, Executors, AsyncAgrees
<1>4. ActiveSet' = ActiveSet
  BY <1>2 DEF ActiveSet
<1>5. OnlyAsync' /\ RunnerAndStop' /\ FinishedIsOver'
  BY <1>2, <1>3, <1>4 DEF OnlyAsync, RunnerAndStop, ServesNow, FinishedIsOver
<1>6. AsyncAgrees' /\ FreshAgrees'
  BY <1>2, <1>3, <1>4 DEF AsyncAgrees, FreshAgrees
<1>7. StagesAgree'
  <2>1. \A q \in Requests : stage'[q] = IF q = current THEN "done" ELSE stage[q]
    BY <1>2, <1>3
  <2>2. ActiveSet \subseteq Requests
    BY ToSetProperties DEF DispInv, DispTypeOK, ActiveSet
  <2> QED
    BY <1>2, <1>3, <1>4, <2>1, <2>2 DEF StagesAgree
<1> QED
  BY <1>2, <1>5, <1>6, <1>7

-----------------------------------------------------------------------------
(* A stop, and the next run.                                               *)

\* stop() puts the active requests back when no coroutine runs any more.
LEMMA RequeueKeepsCareful ==
  ASSUME Gentle, DispInv, PoolAtRest, CarefulInv, StopRequeue
  PROVE  CarefulInv'
<1> USE DEF CarefulInv
<1> DEFINE q == Head(m_active_requests)
<1>1. /\ pcS = "requeue" /\ m_active_requests # <<>>
      /\ halted' = halted \cup {q}
      /\ m_requests' = m_requests \cup {q}
      /\ pos' = IteratorsAfterErase(q)
      /\ m_active_requests' = Tail(m_active_requests)
      /\ UNCHANGED <<poolVars, m_error_requests, flagVars, job, cb, added, pcR,
                     taken, pcS, finished, ub>>
  BY DEF StopRequeue
<1>2. q \in ActiveSet /\ q \in Requests /\ ActiveSet' = ActiveSet \ {q}
  <2>1. m_active_requests \in Seq(Requests) /\ IsInjective(m_active_requests)
    BY DEF DispInv, DispTypeOK, PlacesDisjoint
  <2>2. /\ q \in ToSet(m_active_requests)
        /\ ToSet(Tail(m_active_requests)) = ToSet(m_active_requests) \ {q}
    BY <1>1, <2>1, TailSet
  <2>3. ToSet(m_active_requests) \subseteq Requests
    BY <2>1, ToSetProperties
  <2> QED
    BY <1>1, <2>2, <2>3 DEF ActiveSet
<1> HIDE DEF q
<1>3. loop = "exited" /\ m_paused /\ pcR \in {"loop", "exited"}
  BY <1>1 DEF RunnerAndStop
<1>4. current = NONE /\ cb[Async] = "none"
  BY <1>3, AsyncInCallback
<1>5. pos' = pos
  <2>1. \A e \in Executors : pos[e] = NONE
    BY <1>4 DEF OnlyAsync, AsyncAgrees
  <2>2. q # NONE
    BY <1>2, NoneAssumption
  <2> QED
    BY <1>1, <2>1, <2>2 DEF IteratorsAfterErase, DispInv, DispTypeOK
<1>6. OnlyAsync' /\ RunnerAndStop'
  BY <1>1, <1>3, <1>5 DEF OnlyAsync, RunnerAndStop, ServesNow, poolVars
<1>7. AsyncAgrees' /\ StagesAgree' /\ FreshAgrees' /\ FinishedIsOver'
  BY <1>1, <1>2, <1>3, <1>4, <1>5
  DEF AsyncAgrees, StagesAgree, FreshAgrees, FinishedIsOver, poolVars
<1> QED
  BY <1>1, <1>6, <1>7

\* run() again finds no active request and a Runner that a pause will hold.
LEMMA AgainKeepsCareful ==
  ASSUME Gentle, DispInv, PoolAtRest, CarefulInv, RunAgain
  PROVE  CarefulInv'
<1> USE DEF CarefulInv
<1>1. /\ pcR = "exited" /\ pcR' = "starting" /\ pcS' = "idle"
      /\ loop = "exited" /\ loop' = "created"
      /\ stage' = [q \in Requests |-> "new"] /\ current' = NONE
      /\ UNCHANGED <<listVars, m_working, m_paused, execVars, userVars, taken, finished>>
  BY DEF RunAgain, Renew
<1>2. ~ub'
  <2>1. \A w \in Workers : ~Busy(w)
    BY DispatcherAssumption DEF Busy, Handled, OnlyAsync
  <2>2. ub' = (ub \/ \E w \in Workers : Busy(w))
    BY DEF RunAgain
  <2>3. ~(\E w \in Workers : Busy(w))
    BY <2>1
  <2> QED
    BY <2>2, <2>3
<1>3. m_paused /\ m_active_requests = <<>>
  BY <1>1 DEF RunnerAndStop
<1>4. ActiveSet = {} /\ ActiveSet' = {}
  BY <1>1, <1>3, EmptySeq DEF ActiveSet, ToSet
<1>5. cb[Async] = "none"
  BY <1>1, AsyncInCallback
<1>6. OnlyAsync' /\ RunnerAndStop'
  BY <1>1, <1>3 DEF OnlyAsync, RunnerAndStop, ServesNow
<1>7. AsyncAgrees' /\ StagesAgree' /\ FreshAgrees' /\ FinishedIsOver'
  BY <1>1, <1>4, <1>5 DEF AsyncAgrees, StagesAgree, FreshAgrees, FinishedIsOver
<1> QED
  BY <1>2, <1>6, <1>7

-----------------------------------------------------------------------------
(* What follows from it.                                                   *)

LEMMA CarefulStep ==
  ASSUME Gentle, DispInv, PoolAtRest, CarefulInv, [DispNext]_vars
  PROVE  CarefulInv'
<1>1. CASE RunnerNext
  BY <1>1, RunnerKeepsCareful, EnterKeepsCareful, HandKeepsCareful DEF RunnerNext
<1>2. CASE \E e \in Executors : Succeed(e) \/ Fail(e) \/ Quit(e) \/ CallbackNext(e)
  BY <1>2, OutcomesKeepCareful, CallbackNextKeepsCareful
<1>3. CASE (\E w \in Workers : WorkerEnds(w)) \/ CoroutineEnds
  BY <1>3, EndsKeepCareful
<1>4. CASE AsyncLoop
  BY <1>4, PoolKeepsCareful
<1>5. CASE \/ \E q \in Requests : AddRequest(q) \/ HaltRequest(q)
           \/ SetActiveDownloadsLimit \/ Pause \/ Resume
           \/ StopAsync \/ StopJoin \/ StopLock \/ StopEnd
  BY <1>5, UsersKeepCareful
<1>6. CASE StopRequeue \/ RunAgain
  BY <1>6, RequeueKeepsCareful, AgainKeepsCareful
<1>7. CASE UNCHANGED vars
  BY <1>7 DEF vars, poolVars, CarefulInv, OnlyAsync, RunnerAndStop, ServesNow,
              AsyncAgrees, LooksBefore, StagesAgree, FreshAgrees, FinishedIsOver,
              ActiveSet
<1> QED
  BY <1>1, <1>2, <1>3, <1>4, <1>5, <1>6, <1>7 DEF DispNext, StopperNext

\* The inductive invariant of a careful client's handler, over any number of restarts.
THEOREM CarefulInvHolds == Gentle => (DispSpec => [](CarefulInv /\ PoolAtRest))
<1> SUFFICES ASSUME Gentle PROVE DispSpec => [](CarefulInv /\ PoolAtRest)
  OBVIOUS
<1>1. DispInit => PoolAtRest
  BY DEF DispInit, PoolInit, PoolAtRest
<1>2. DispInv /\ PoolAtRest /\ [DispNext]_vars => PoolAtRest'
  BY DispInvStep
<1>3. DispInv /\ PoolAtRest /\ CarefulInv /\ [DispNext]_vars => CarefulInv'
  BY CarefulStep
<1> QED
  BY CarefulInit, DispInvHolds, <1>1, <1>2, <1>3, PTL DEF DispSpec

\* A careful client's failed callbacks never use an iterator whose element was erased,
\* and no thread uses a handler that run() has replaced.
THEOREM NoDanglingIteratorAlways == Gentle => (DispSpec => []NoDanglingIterator)
<1> SUFFICES ASSUME Gentle PROVE DispSpec => []NoDanglingIterator
  OBVIOUS
<1>1. CarefulInv => NoDanglingIterator
  BY DEF CarefulInv, NoDanglingIterator
<1> QED
  BY CarefulInvHolds, <1>1, PTL

\* _run(): an active request is being handed over, has a coroutine that will take it
\* out of the list, or was halted, or has an invalid Url, with which the coroutine
\* returns and leaves it there.
THEOREM ActiveIsHandledAlways == Gentle => (DispSpec => []ActiveIsHandled)
<1> SUFFICES ASSUME Gentle PROVE DispSpec => []ActiveIsHandled
  OBVIOUS
<1>1. CarefulInv => ActiveIsHandled
  BY DEF CarefulInv, StagesAgree, ActiveIsHandled
<1> QED
  BY CarefulInvHolds, <1>1, PTL

\* _stop(): when it has returned no coroutine runs, no detached thread has a request,
\* and the Runner has none in hand.
THEOREM NothingRunsAfterStopAlways == Gentle => (DispSpec => []NothingRunsAfterStop)
<1> SUFFICES ASSUME Gentle PROVE DispSpec => []NothingRunsAfterStop
  OBVIOUS
<1>1. CarefulInv /\ PoolAtRest => NothingRunsAfterStop
  BY DEF CarefulInv, OnlyAsync, RunnerAndStop, PoolAtRest, NothingRunsAfterStop
<1> QED
  BY CarefulInvHolds, <1>1, PTL

\* _stop(): what it makes pending again has neither finished nor failed.
THEOREM NothingEndedIsRequeuedAlways ==
  Gentle => (DispSpec => []NothingEndedIsRequeued)
<1> SUFFICES ASSUME Gentle PROVE DispSpec => []NothingEndedIsRequeued
  OBVIOUS
<1>1. DispInv /\ PoolAtRest /\ CarefulInv => NothingEndedIsRequeued
  <2> SUFFICES ASSUME DispInv, PoolAtRest, CarefulInv, NEW q \in m_requests, q \in Failed
               PROVE  FALSE
    BY DEF NothingEndedIsRequeued, CarefulInv, FinishedIsOver
  <2>1. \A e \in Executors : cb[e] = "store" => e = Async /\ pos[e] = current
    BY DEF CarefulInv, OnlyAsync, AsyncAgrees
  <2>2. cb[Async] = "store" => current \in ActiveSet /\ current \in Requests
    BY AsyncInCallback
  <2>3. GONE \notin Requests
    BY DispatcherAssumption
  <2>4. PICK e \in Executors : cb[e] = "store" /\ pos[e] = q
    BY <2>1, <2>2, <2>3 DEF DispInv, FailedIsOver
  <2> QED
    BY <2>1, <2>2, <2>4 DEF DispInv, PlacesDisjoint
<1> QED
  BY CarefulInvHolds, DispInvHolds, <1>1, PTL

\* _run(): a careful client's request is never refused while the Runner holds the lock
\* that the failed callback takes.
THEOREM RunnerNeverLocksTwiceAlways == Gentle => (DispSpec => []RunnerNeverLocksTwice)
<1> SUFFICES ASSUME Gentle PROVE DispSpec => []RunnerNeverLocksTwice
  OBVIOUS
<1>1. CarefulInv => RunnerNeverLocksTwice
  BY DEF CarefulInv, RunnerAndStop, RunnerNeverLocksTwice
<1> QED
  BY CarefulInvHolds, <1>1, PTL
=============================================================================

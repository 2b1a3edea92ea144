-------------------- MODULE AsyncRequestHandler_proofs --------------------
(***************************************************************************)
(* Proofs about AsyncRequestHandler, for every set of requests, every      *)
(* limit and any number of passes.                                         *)
(***************************************************************************)
EXTENDS AsyncRequestHandler, SequenceLemmas

USE DEF userVars, queueVars, passVars, PassOrEnd

-----------------------------------------------------------------------------
(* Type correctness.                                                       *)

LEMMA TypeInit == AsyncInit => AsyncTypeOK
<1> SUFFICES ASSUME AsyncInit PROVE AsyncTypeOK
  OBVIOUS
<1>1. m_processed_requests \in Seq(Requests)
  BY EmptySeq DEF AsyncInit
<1>2. caller \in [Requests -> CallerStates]
  BY DEF AsyncInit, CallerStates
<1>3. m_max \in 0..255
  BY AsyncAssumption DEF AsyncInit
<1>4. refused \subseteq Requests /\ passed \subseteq Requests
  BY DEF AsyncInit
<1>5. pc \in PcStates /\ stopper \in {"idle", "joining", "returned"}
  BY DEF AsyncInit, PcStates
<1>6. iter \in Nat \ {0} /\ counter \in 0..255 /\ ended \in Nat
  BY DEF AsyncInit
<1>7. m_working \in BOOLEAN
  BY DEF AsyncInit
<1> QED
  BY <1>1, <1>2, <1>3, <1>4, <1>5, <1>6, <1>7 DEF AsyncTypeOK

\* The position of the iterator is all that type correctness needs: Erase
\* removes an element of the list.
LEMMA TypeStep ==
  ASSUME AsyncTypeOK, IteratorInRange, [AsyncNext]_asyncVars
  PROVE  AsyncTypeOK'
<1> USE DEF AsyncTypeOK, CallerStates, PcStates
<1>1. CASE Run
  BY <1>1 DEF Run
<1>2. CASE Nap \/ Spin
  <2>1. UNCHANGED asyncVars
    BY <1>2 DEF Nap, Spin
  <2> QED
    BY <2>1 DEF asyncVars
<1>3. CASE BeginPass
  BY <1>3 DEF BeginPass
<1>4. CASE Resume
  <2>1. m_processed_requests[iter] \in Requests
    BY <1>4, ElementOfSeq, LenProperties DEF Resume, IteratorInRange
  <2> QED
    BY <1>4, <2>1 DEF Resume
<1>5. CASE Suspended
  BY <1>5 DEF Suspended, Wrap8
<1>6. CASE Returned
  BY <1>6 DEF Returned
<1>7. CASE Erase
  <2>1. iter \in 1..Len(m_processed_requests)
    BY <1>7, LenProperties DEF Erase, IteratorInRange
  <2>2. m_processed_requests' \in Seq(Requests)
    BY <1>7, <2>1, RemoveAtProperties DEF Erase
  <2> QED
    BY <1>7, <2>2 DEF Erase, Wrap8
<1>8. CASE LeaveLoop
  BY <1>8 DEF LeaveLoop
<1>9. ASSUME NEW q \in Requests, AddRequestCheck(q)
      PROVE  AsyncTypeOK'
  BY <1>9 DEF AddRequestCheck
<1>10. ASSUME NEW q \in Requests, AddRequestAppend(q)
       PROVE  AsyncTypeOK'
  BY <1>10, AppendProperties DEF AddRequestAppend
<1>11. ASSUME NEW n \in Limits, SetMaxDownloadsCount(n)
       PROVE  AsyncTypeOK'
  BY <1>11, AsyncAssumption DEF SetMaxDownloadsCount
<1>12. CASE Stop \/ Join
  BY <1>12 DEF Stop, Join
<1>13. CASE UNCHANGED asyncVars
  BY <1>13 DEF asyncVars
<1> QED
  BY <1>1, <1>2, <1>3, <1>4, <1>5, <1>6, <1>7, <1>8, <1>9, <1>10, <1>11,
     <1>12, <1>13 DEF AsyncNext, Worker

-----------------------------------------------------------------------------
(* The inductive invariant.                                                *)

LEMMA InvInit == AsyncInit => AsyncInv
<1> SUFFICES ASSUME AsyncInit PROVE AsyncInv
  OBVIOUS
<1>1. AsyncTypeOK
  BY TypeInit
<1>2. pc = "created" /\ passed = {} /\ Len(m_processed_requests) = 0
  BY EmptySeq DEF AsyncInit
<1>3. IteratorInRange /\ PassedWasLetIn /\ PassedIsPrefix
      /\ CounterIsKeptMinusEnded
  BY <1>2 DEF IteratorInRange, PassedWasLetIn, PassedIsPrefix,
              CounterIsKeptMinusEnded
<1>4. OneCoroutineEach
  BY <1>2 DEF OneCoroutineEach
<1> QED
  BY <1>1, <1>3, <1>4 DEF AsyncInv

\* The steps of run() that leave the list as it is.
LEMMA InvWorkerStep ==
  ASSUME AsyncInv, AsyncTypeOK',
         \/ Run \/ Nap \/ BeginPass \/ Spin \/ Resume \/ Suspended
         \/ Returned \/ LeaveLoop
  PROVE  AsyncInv'
<1> DEFINE list == m_processed_requests
<1>0. Len(list) \in Nat /\ iter \in Nat \ {0} /\ ended \in Nat /\ counter \in 0..255
  BY LenProperties DEF AsyncInv, AsyncTypeOK
<1>1. UNCHANGED <<m_processed_requests, caller>>
  BY DEF Run, Nap, BeginPass, Spin, Resume, Suspended, Returned, 
         LeaveLoop, asyncVars
<1>2. OneCoroutineEach'
  BY <1>1 DEF OneCoroutineEach, AsyncInv
<1>3. IteratorInRange'
  BY <1>0 DEF IteratorInRange, AsyncInv, Run, Nap, BeginPass, Spin,
              Resume, Suspended, Returned, LeaveLoop, asyncVars
<1>4. PassedWasLetIn'
  <2>1. CASE Resume
    <3>1. iter \in 1..Len(list)
      BY <1>0, <2>1 DEF Resume, AsyncInv, IteratorInRange
    <3>2. caller[list[iter]] = "entered"
      BY <3>1 DEF AsyncInv, OneCoroutineEach
    <3> QED
      BY <2>1, <3>2 DEF Resume, PassedWasLetIn, AsyncInv
  <2>2. CASE ~Resume
    <3>1. passed' \subseteq passed
      BY <2>2 DEF Run, Nap, BeginPass, Spin, Suspended, Returned, 
                  LeaveLoop, asyncVars
    <3> QED
      BY <1>1, <3>1 DEF PassedWasLetIn, AsyncInv
  <2> QED
    BY <2>1, <2>2
<1>5. PassedIsPrefix'
  <2>1. CASE Resume
    <3>1. iter \in 1..Len(list) /\ iter' = iter /\ list' = list
          /\ passed' = passed \cup {list[iter]} /\ pc = "scan" /\ pc' = "running"
      BY <1>0, <2>1 DEF Resume, AsyncInv, IteratorInRange
    <3>2. ASSUME NEW i \in 1..Len(list)
          PROVE  (list[i] \in passed') <=> (i < iter \/ i = iter)
      <4>1. (list[i] \in passed) <=> (i < iter)
        BY <3>1 DEF AsyncInv, PassedIsPrefix
      <4>2. (list[i] = list[iter]) <=> (i = iter)
        BY <3>1 DEF AsyncInv, OneCoroutineEach
      <4> QED
        BY <3>1, <4>1, <4>2
    <3> QED
      BY <3>1, <3>2 DEF PassedIsPrefix
  <2>2. CASE Suspended
    <3>1. iter' = iter + 1 /\ list' = list /\ passed' = passed
          /\ pc = "running" /\ pc' \in {"scan", "loop"}
      BY <2>2 DEF Suspended
    <3>2. ASSUME NEW i \in 1..Len(list)
          PROVE  (list[i] \in passed) <=> (i < iter + 1)
      <4>1. (list[i] \in passed) <=> (i < iter \/ i = iter)
        BY <3>1 DEF AsyncInv, PassedIsPrefix
      <4> QED
        BY <1>0, <4>1
    <3> QED
      BY <3>1, <3>2 DEF PassedIsPrefix
  <2>3. CASE BeginPass
    BY <1>0, <2>3 DEF BeginPass, PassedIsPrefix
  <2>4. CASE Returned
    BY <2>4 DEF Returned, PassedIsPrefix, AsyncInv
  <2>5. CASE Run \/ LeaveLoop
    BY <2>5 DEF Run, LeaveLoop, PassedIsPrefix
  <2>6. CASE Nap \/ Spin
    BY <2>6 DEF Nap, Spin, PassedIsPrefix, AsyncInv, asyncVars
  <2> QED
    BY <2>1, <2>2, <2>3, <2>4, <2>5, <2>6
<1>6. CounterIsKeptMinusEnded'
  <2>1. CASE Suspended
    <3>1. counter = ((iter - 1) + 255 * ended) % 256
      BY <2>1 DEF Suspended, AsyncInv, CounterIsKeptMinusEnded, Wrap8
    <3>2. (counter + 1) % 256 = ((iter + 1 - 1) + 255 * ended) % 256
      BY <1>0, <3>1
    <3>3. counter' = (counter + 1) % 256 /\ iter' = iter + 1 /\ ended' = ended
      BY <2>1 DEF Suspended, Wrap8
    <3>4. counter' = ((iter' - 1) + 255 * ended') % 256
      BY <1>0, <3>2, <3>3
    <3> QED
      BY <3>4 DEF CounterIsKeptMinusEnded, Wrap8
  <2>2. CASE BeginPass
    BY <2>2 DEF BeginPass, CounterIsKeptMinusEnded, Wrap8
  <2>3. CASE Resume \/ Returned
    BY <2>3 DEF Resume, Returned, CounterIsKeptMinusEnded, AsyncInv
  <2>4. CASE Run \/ LeaveLoop
    BY <2>4 DEF Run, LeaveLoop, CounterIsKeptMinusEnded
  <2>5. CASE Nap \/ Spin
    BY <2>5 DEF Nap, Spin, CounterIsKeptMinusEnded, AsyncInv, asyncVars
  <2> QED
    BY <2>1, <2>2, <2>3, <2>4, <2>5
<1> QED
  BY <1>2, <1>3, <1>4, <1>5, <1>6 DEF AsyncInv

\* list::erase at the iterator: the elements behind it move up by one place.
LEMMA InvErase ==
  ASSUME AsyncInv, AsyncTypeOK', Erase
  PROVE  AsyncInv'
<1> DEFINE list == m_processed_requests
<1>0. Len(list) \in Nat /\ iter \in Nat \ {0} /\ ended \in Nat /\ counter \in 0..255
      /\ list \in Seq(Requests)
  BY LenProperties DEF AsyncInv, AsyncTypeOK
<1>1. pc = "erase" /\ pc' \in {"scan", "loop"} /\ iter \in 1..Len(list) /\ iter' = iter
      /\ caller' = caller /\ passed' = passed
  BY <1>0 DEF Erase, AsyncInv, IteratorInRange
<1>2. /\ Len(list') = Len(list) - 1
      /\ \A j \in 1..(Len(list) - 1) :
           list'[j] = IF j < iter THEN list[j] ELSE list[j + 1]
  BY <1>0, <1>1, RemoveAtProperties DEF Erase
<1>3. IteratorInRange'
  BY <1>1 DEF Erase, IteratorInRange
<1> HIDE DEF list
<1>4. PassedWasLetIn'
  BY <1>1 DEF PassedWasLetIn, AsyncInv
<1>5. OneCoroutineEach'
  <2>1. \A i, j \in 1..Len(list) : list[i] = list[j] => i = j
    BY DEF AsyncInv, OneCoroutineEach, list
  <2>2. \A i \in 1..Len(list) : caller[list[i]] = "entered"
    BY DEF AsyncInv, OneCoroutineEach, list
  <2>3. \A i, j \in 1..Len(list') : list'[i] = list'[j] => i = j
    BY <1>0, <1>1, <1>2, <2>1
  <2>4. \A i \in 1..Len(list') : caller'[list'[i]] = "entered"
    BY <1>0, <1>1, <1>2, <2>2
  <2> QED
    BY <2>3, <2>4 DEF OneCoroutineEach, list
<1>6. PassedIsPrefix'
  <2>1. \A i \in 1..Len(list) : (list[i] \in passed) <=> (i < iter)\/ (i = iter)
    BY <1>1 DEF AsyncInv, PassedIsPrefix, list
  <2>2. ASSUME NEW i \in 1..Len(list')
        PROVE  (list'[i] \in passed) <=> (i < iter)
    <3>1. CASE i < iter
      BY <1>0, <1>1, <1>2, <2>1, <3>1
    <3>2. CASE ~(i < iter)
      BY <1>0, <1>1, <1>2, <2>1, <3>2
    <3> QED
      BY <3>1, <3>2
  <2> QED
    BY <1>1, <2>2 DEF PassedIsPrefix, list
<1>7. CounterIsKeptMinusEnded'
  <2>1. counter = ((iter - 1) + 255 * ended) % 256
    BY <1>1 DEF AsyncInv, CounterIsKeptMinusEnded, Wrap8
  <2>2. (counter + 255) % 256 = ((iter - 1) + 255 * (ended + 1)) % 256
    BY <1>0, <2>1
  <2> QED
    BY <1>1, <2>2 DEF Erase, CounterIsKeptMinusEnded, Wrap8
<1> QED
  BY <1>3, <1>4, <1>5, <1>6, <1>7 DEF AsyncInv

\* emplace_back while the pass is anywhere: the new coroutine is behind the
\* iterator and has not been resumed.
LEMMA InvAppend ==
  ASSUME AsyncInv, AsyncTypeOK', NEW q \in Requests, AddRequestAppend(q)
  PROVE  AsyncInv'
<1> DEFINE list == m_processed_requests
<1>0. Len(list) \in Nat /\ iter \in Nat \ {0} /\ list \in Seq(Requests)
      /\ caller \in [Requests -> CallerStates]
  BY LenProperties DEF AsyncInv, AsyncTypeOK
<1>1. /\ caller[q] = "checked"
      /\ caller' = [caller EXCEPT ![q] = "entered"]
      /\ UNCHANGED <<pc, iter, counter, passed, ended>>
  BY DEF AddRequestAppend
<1>2. /\ Len(list') = Len(list) + 1
      /\ \A j \in 1..Len(list) : list'[j] = list[j]
      /\ list'[Len(list) + 1] = q
  BY <1>0, AppendProperties DEF AddRequestAppend
<1>3. \A i \in 1..Len(list) : list[i] # q /\ caller[list[i]] = "entered"
  BY <1>1 DEF AsyncInv, OneCoroutineEach
<1>4. q \notin passed
  BY <1>1 DEF AsyncInv, PassedWasLetIn
<1>5. \A r \in Requests : caller[r] = "entered" => caller'[r] = "entered"
  BY <1>0, <1>1
<1>6. caller'[q] = "entered"
  BY <1>0, <1>1
<1>7. \A i \in 1..Len(list) : list[i] \in Requests
  BY <1>0, ElementOfSeq
<1>8. /\ \A i, j \in 1..Len(list) : list[i] = list[j] => i = j
      /\ pc \in {"scan", "running", "erase"} =>
           \A i \in 1..Len(list) :
             (list[i] \in passed) <=> (i < iter \/ (i = iter /\ pc # "scan"))
  BY DEF AsyncInv, OneCoroutineEach, PassedIsPrefix
<1>9. IteratorInRange'
  BY <1>0, <1>1, <1>2 DEF IteratorInRange, AsyncInv
<1> HIDE DEF list
<1>10. PassedWasLetIn'
  <2>1. passed \subseteq Requests
    BY DEF AsyncInv, AsyncTypeOK
  <2> QED
    BY <1>1, <1>5, <2>1 DEF PassedWasLetIn, AsyncInv
<1>11. OneCoroutineEach'
  <2>1. ASSUME NEW i \in 1..Len(list'), NEW j \in 1..Len(list'),
               list'[i] = list'[j]
        PROVE  i = j
    BY <1>0, <1>2, <1>3, <1>8, <2>1
  <2>2. ASSUME NEW i \in 1..Len(list')
        PROVE  caller'[list'[i]] = "entered"
    <3>1. CASE i = Len(list) + 1
      BY <1>2, <1>6, <3>1
    <3>2. CASE i # Len(list) + 1
      <4>1. i \in 1..Len(list)
        BY <1>0, <1>2, <3>2
      <4> QED
        BY <1>2, <1>3, <1>5, <1>7, <4>1
    <3> QED
      BY <3>1, <3>2
  <2> QED
    BY <2>1, <2>2 DEF OneCoroutineEach, list
<1>12. PassedIsPrefix'
  <2> SUFFICES ASSUME pc \in {"scan", "running", "erase"},
                      NEW i \in 1..Len(list')
               PROVE  (list'[i] \in passed) <=> (i < iter \/ (i = iter /\ pc # "scan"))
    BY <1>1 DEF PassedIsPrefix, list
  <2>1. CASE i = Len(list) + 1
    <3>1. ~(i < iter \/ (i = iter /\ pc # "scan"))
      BY <1>0, <2>1 DEF AsyncInv, IteratorInRange, list
    <3> QED
      BY <1>2, <1>4, <2>1, <3>1
  <2>2. CASE i # Len(list) + 1
    <3>1. i \in 1..Len(list)
      BY <1>0, <1>2, <2>2
    <3> QED
      BY <1>2, <1>8, <3>1
  <2> QED
    BY <2>1, <2>2
<1>13. CounterIsKeptMinusEnded'
  BY <1>1 DEF CounterIsKeptMinusEnded, AsyncInv
<1> QED
  BY <1>9, <1>10, <1>11, <1>12, <1>13 DEF AsyncInv

LEMMA InvStep ==
  ASSUME AsyncInv, [AsyncNext]_asyncVars
  PROVE  AsyncInv'
<1>0. AsyncTypeOK'
  BY TypeStep DEF AsyncInv
<1>1. CASE \/ Run \/ Nap \/ BeginPass \/ Spin \/ Resume \/ Suspended
           \/ Returned \/ LeaveLoop
  BY <1>0, <1>1, InvWorkerStep
<1>2. CASE Erase
  BY <1>0, <1>2, InvErase
<1>3. ASSUME NEW q \in Requests, AddRequestAppend(q)
      PROVE  AsyncInv'
  BY <1>0, <1>3, InvAppend
<1>4. ASSUME NEW q \in Requests, AddRequestCheck(q)
      PROVE  AsyncInv'
  <2>1. UNCHANGED <<m_processed_requests, pc, iter, counter, passed, ended>>
    BY <1>4 DEF AddRequestCheck
  <2>2. \A r \in Requests : caller[r] = "entered" => caller'[r] = "entered"
    BY <1>4 DEF AddRequestCheck, AsyncInv, AsyncTypeOK
  <2>3. PassedWasLetIn'
    BY <2>1, <2>2 DEF AsyncInv, AsyncTypeOK, PassedWasLetIn
  <2>4. OneCoroutineEach'
    <3>1. \A i \in 1..Len(m_processed_requests) :
            m_processed_requests[i] \in Requests
      BY ElementOfSeq DEF AsyncInv, AsyncTypeOK
    <3> QED
      BY <2>1, <2>2, <3>1 DEF AsyncInv, OneCoroutineEach
  <2> QED
    BY <1>0, <2>1, <2>3, <2>4 DEF AsyncInv, IteratorInRange, PassedIsPrefix,
                                  CounterIsKeptMinusEnded
<1>5. ASSUME \/ \E n \in Limits : SetMaxDownloadsCount(n)
             \/ Stop \/ Join \/ UNCHANGED asyncVars
      PROVE  AsyncInv'
  <2>1. UNCHANGED <<m_processed_requests, caller, pc, iter, counter, passed,
                    ended>>
    BY <1>5 DEF SetMaxDownloadsCount, Stop, Join, asyncVars
  <2> QED
    BY <1>0, <2>1 DEF AsyncInv, IteratorInRange, PassedWasLetIn,
                      OneCoroutineEach, PassedIsPrefix, CounterIsKeptMinusEnded
<1> QED
  BY <1>1, <1>2, <1>3, <1>4, <1>5 DEF AsyncNext, Worker

\* The position of the iterator, the history of the pass and the list agree in
\* every reachable state, whatever the limit and the number of requests.
THEOREM InvHolds == AsyncSpec => []AsyncInv
<1>1. AsyncInit => AsyncInv
  BY InvInit
<1>2. AsyncInv /\ [AsyncNext]_asyncVars => AsyncInv'
  BY InvStep
<1> QED
  BY <1>1, <1>2, PTL DEF AsyncSpec

\* The handler keeps its types: the 8-bit counter and limit stay within 0..255.
THEOREM TypeCorrect == AsyncSpec => []AsyncTypeOK
<1>1. AsyncInv => AsyncTypeOK
  BY DEF AsyncInv
<1> QED
  BY <1>1, InvHolds, PTL

\* The list, the iterator and the resumptions of the pass: what stands before
\* the iterator is exactly what the pass has resumed and kept.
THEOREM PassedIsPrefixAlways == AsyncSpec => []PassedIsPrefix
<1>1. AsyncInv => PassedIsPrefix
  BY DEF AsyncInv
<1> QED
  BY <1>1, InvHolds, PTL

\* The 8-bit counter is what the pass kept minus what it erased, modulo 256.
THEOREM CounterMeaning == AsyncSpec => []CounterIsKeptMinusEnded
<1>1. AsyncInv => CounterIsKeptMinusEnded
  BY DEF AsyncInv
<1> QED
  BY <1>1, InvHolds, PTL

\* The loop can turn on the spot only after a coroutine ended in the pass, or
\* with more coroutines than the limit.
THEOREM SpinNeedsACause == AsyncSpec => []SpinHasACause
<1>1. AsyncInv => SpinHasACause
  <2> SUFFICES ASSUME AsyncInv, Spinning, ended = 0
               PROVE  iter - 1 > m_max
    BY DEF SpinHasACause, AsyncInv, AsyncTypeOK
  <2>1. /\ iter \in Nat \ {0} /\ m_max \in Nat /\ counter > m_max
        /\ counter \in 0..255
    BY DEF AsyncInv, AsyncTypeOK, Spinning, OverLimit
  <2>2. counter = ((iter - 1) + 255 * 0) % 256
    BY DEF Spinning, AsyncInv, CounterIsKeptMinusEnded, Wrap8
  <2>3. counter <= iter - 1
    BY <2>1, <2>2
  <2> QED
    BY <2>1, <2>3
<1> QED
  BY <1>1, InvHolds, PTL

\* Within one pass no coroutine is resumed twice.
THEOREM OneResumePerPassAlways == AsyncSpec => OneResumePerPass
<1>1. ASSUME AsyncInv, [AsyncNext]_asyncVars, pc = "scan", pc' = "running"
      PROVE  m_processed_requests[iter] \notin passed
  <2>1. Resume
    <3>1. CASE pc' = pc
      BY <1>1, <3>1
    <3>2. CASE Worker
      <4>1. ~(Run \/ BeginPass \/ Suspended \/ Returned \/ Erase
              \/ LeaveLoop)
        BY <1>1 DEF Run, BeginPass, Suspended, Returned, Erase, 
                    LeaveLoop
      <4>2. ~(Nap \/ Spin)
        BY <1>1 DEF Nap, Spin, asyncVars
      <4> QED
        BY <3>2, <4>1, <4>2 DEF Worker
    <3>3. Worker \/ pc' = pc
      BY <1>1 DEF AsyncNext, AddRequestCheck, AddRequestAppend,
                  SetMaxDownloadsCount, Stop, Join, asyncVars
    <3> QED
      BY <3>1, <3>2, <3>3
  <2>2. Len(m_processed_requests) \in Nat /\ iter \in Nat \ {0}
    BY <1>1, LenProperties DEF AsyncInv, AsyncTypeOK
  <2>3. iter \in 1..Len(m_processed_requests)
    BY <1>1, <2>2 DEF AsyncInv, IteratorInRange
  <2> QED
    BY <1>1, <2>3 DEF AsyncInv, PassedIsPrefix, AsyncTypeOK
<1>2. AsyncInv /\ [AsyncNext]_asyncVars =>
        [pc = "scan" /\ pc' = "running" =>
           m_processed_requests[iter] \notin passed]_asyncVars
  BY <1>1
<1> QED
  BY <1>2, InvHolds, PTL DEF AsyncSpec, OneResumePerPass

\* With the limit at the top of its type and never changed to another value,
\* the loop never turns on the spot, for any number of requests.
TopLimit == DefaultMax = 255 /\ Limits \subseteq {255}

THEOREM NeverSpinsAtTopLimit == TopLimit /\ AsyncSpec => []NeverSpins
<1> DEFINE J == TopLimit /\ m_max = 255
<1>1. TopLimit /\ AsyncInit => J
  BY DEF AsyncInit, TopLimit
<1>2. J /\ [AsyncNext]_asyncVars => J'
  <2> SUFFICES ASSUME TopLimit, m_max = 255, [AsyncNext]_asyncVars
               PROVE  m_max' = 255
    BY DEF TopLimit
  <2>1. CASE \E n \in Limits : SetMaxDownloadsCount(n)
    BY <2>1 DEF SetMaxDownloadsCount, TopLimit
  <2>2. CASE ~\E n \in Limits : SetMaxDownloadsCount(n)
    BY <2>2 DEF AsyncNext, Worker, Run, Nap, BeginPass, Spin, Resume, Suspended,
      Returned, Erase, LeaveLoop, AddRequestCheck, AddRequestAppend,
      Stop, Join, asyncVars
  <2> QED
    BY <2>1, <2>2
<1>3. AsyncInv /\ J => NeverSpins
  BY DEF AsyncInv, AsyncTypeOK, NeverSpins, Spinning, OverLimit
<1> HIDE DEF J
<1> QED
  BY <1>1, <1>2, <1>3, InvHolds, PTL DEF AsyncSpec

-----------------------------------------------------------------------------
(* The handler implements CoroutinePool.                                   *)

\* A listed coroutine is one of a request that was let in.
LEMMA ListedWasLetIn ==
  ASSUME AsyncInv
  PROVE  Listed \subseteq {q \in Requests : caller[q] = "entered"}
<1>1. \A i \in DOMAIN m_processed_requests :
        /\ m_processed_requests[i] \in Requests
        /\ caller[m_processed_requests[i]] = "entered"
  BY LenProperties, ElementOfSeq DEF AsyncInv, AsyncTypeOK, OneCoroutineEach
<1> QED
  BY <1>1 DEF Listed, ToSet

\* Steps that change neither the list nor the calls keep every stage, except
\* when a coroutine returns.
LEMMA StagesKept ==
  ASSUME UNCHANGED <<m_processed_requests, caller, iter>>,
         (pc = "erase") <=> (pc' = "erase")
  PROVE  [q \in Requests |-> StageOf(q)]' = [q \in Requests |-> StageOf(q)]
<1>1. Listed' = Listed
  BY DEF Listed, Ending
<1> QED
  BY <1>1 DEF StageOf

\* The end of the loop of a pass, where iter is of no account any more.
LEMMA StagesKeptOutsideErase ==
  ASSUME UNCHANGED <<m_processed_requests, caller>>,
         pc # "erase", pc' # "erase"
  PROVE  [q \in Requests |-> StageOf(q)]' = [q \in Requests |-> StageOf(q)]
<1>1. Listed' = Listed
  BY DEF Listed, Ending
<1> QED
  BY <1>1 DEF StageOf

LEMMA RefineInit == AsyncInit => Pool!PoolInit
<1> SUFFICES ASSUME AsyncInit PROVE Pool!PoolInit
  OBVIOUS
<1>1. Listed = {}
  BY DEF AsyncInit, Listed, ToSet
<1>2. ASSUME NEW q \in Requests
      PROVE  StageOf(q) = "new"
  BY <1>1, <1>2 DEF StageOf, AsyncInit
<1> QED
  BY <1>2 DEF Pool!PoolInit, AsyncInit, LoopState, Current

LEMMA RefineStep ==
  ASSUME AsyncInv, AsyncInv', [AsyncNext]_asyncVars
  PROVE  [Pool!PoolNext]_(Pool!poolVars)
<1> DEFINE list == m_processed_requests
           stage == [q \in Requests |-> StageOf(q)]
<1>0. /\ Len(list) \in Nat /\ iter \in Nat \ {0} /\ list \in Seq(Requests)
      /\ DOMAIN list = 1..Len(list)
      /\ caller \in [Requests -> CallerStates]
      /\ NONE \notin Requests
  BY LenProperties, AsyncAssumption DEF AsyncInv, AsyncTypeOK
<1>a. Listed \subseteq {q \in Requests : caller[q] = "entered"}
  BY ListedWasLetIn
<1>1. CASE Run
  <2>1. stage' = stage
    BY <1>1, StagesKeptOutsideErase DEF Run
  <2> QED
    BY <1>1, <2>1 DEF Run, Pool!PoolNext, Pool!Launch, LoopState, Current
<1>2. CASE Nap \/ Spin \/ UNCHANGED asyncVars
  <2>1. UNCHANGED asyncVars
    BY <1>2 DEF Nap, Spin
  <2>2. UNCHANGED <<m_working, refused, m_processed_requests, caller, iter, pc>>
    BY <2>1 DEF asyncVars
  <2>3. stage' = stage
    BY <2>2, StagesKept
  <2> QED
    BY <2>2, <2>3 DEF Pool!poolVars, LoopState, Current
<1>3. CASE BeginPass
  <2>1. /\ UNCHANGED <<m_working, refused, m_processed_requests, caller>>
        /\ pc \in {"loop", "scan"} /\ pc' \in {"loop", "scan"}
    BY <1>3 DEF BeginPass
  <2>2. stage' = stage
    BY <2>1, StagesKeptOutsideErase
  <2> QED
    BY <2>1, <2>2 DEF Pool!poolVars, LoopState, Current
<1>4. CASE Resume
  <2>1. /\ UNCHANGED <<m_working, refused, m_processed_requests, caller, iter>>
        /\ pc = "scan" /\ pc' = "running"
    BY <1>4 DEF Resume
  <2>2. stage' = stage
    BY <2>1, StagesKept
  <2>3. list[iter] \in Requests /\ list[iter] \in Listed
    BY <1>0, <1>4, ElementOfSeq DEF Resume, AsyncInv, IteratorInRange, Listed,
                                    Ending, ToSet
  <2>4. Pool!Begin(list[iter])
    BY <2>1, <2>2, <2>3 DEF Pool!Begin, LoopState, Current, StageOf
  <2> QED
    BY <2>3, <2>4 DEF Pool!PoolNext
<1>5. CASE Suspended
  <2>1. /\ UNCHANGED <<m_working, refused, m_processed_requests, caller>>
        /\ pc = "running" /\ pc' \in {"scan", "loop"}
    BY <1>5 DEF Suspended
  <2>2. stage' = stage
    BY <2>1, StagesKeptOutsideErase
  <2>3. list[iter] \in Requests
    BY <1>0, <2>1, ElementOfSeq DEF AsyncInv, IteratorInRange
  <2>4. Pool!Suspend
    BY <1>0, <2>1, <2>2, <2>3 DEF Pool!Suspend, LoopState, Current
  <2> QED
    BY <2>4 DEF Pool!PoolNext
<1>6. CASE Returned
  <2>1. /\ UNCHANGED <<m_working, refused, m_processed_requests, caller, iter>>
        /\ pc = "running" /\ pc' = "erase"
    BY <1>6 DEF Returned
  <2>2. iter \in 1..Len(list)
    BY <1>0, <2>1 DEF AsyncInv, IteratorInRange
  <2>3. list[iter] \in Requests /\ caller[list[iter]] = "entered"
    BY <1>0, <2>2, ElementOfSeq DEF AsyncInv, OneCoroutineEach
  <2>4. Listed' = Listed \ {list[iter]}
    BY <2>1 DEF Listed, Ending
  <2>5. stage' = [stage EXCEPT ![list[iter]] = "done"]
    BY <2>1, <2>3, <2>4 DEF StageOf
  <2>6. Pool!Finish
    BY <1>0, <2>1, <2>3, <2>5 DEF Pool!Finish, LoopState, Current
  <2> QED
    BY <2>6 DEF Pool!PoolNext
<1>7. CASE Erase
  <2>1. /\ UNCHANGED <<m_working, refused, caller, iter>>
        /\ pc = "erase" /\ pc' \in {"scan", "loop"}
        /\ iter \in 1..Len(list)
    BY <1>0, <1>7 DEF Erase, AsyncInv, IteratorInRange
  <2>2. IsInjective(list)
    BY <1>0 DEF AsyncInv, OneCoroutineEach, IsInjective
  <2>5. ToSet(list') = ToSet(list) \ {list[iter]}
    BY <1>0, <1>7, <2>1, <2>2, RemoveAtSet DEF Erase
  <2>6. Listed' = Listed
    BY <2>1, <2>5 DEF Listed, Ending
  <2>7. stage' = stage
    BY <2>1, <2>6 DEF StageOf
  <2> QED
    BY <2>1, <2>7 DEF Pool!poolVars, LoopState, Current
<1>8. CASE LeaveLoop
  <2>1. stage' = stage
    BY <1>8, StagesKeptOutsideErase DEF LeaveLoop
  <2> QED
    BY <1>8, <2>1 DEF LeaveLoop, Pool!PoolNext, Pool!Exit, LoopState, Current
<1>9. ASSUME NEW q \in Requests, AddRequestCheck(q)
      PROVE  Pool!Offer(q)
  <2>1. UNCHANGED <<m_working, m_processed_requests, pc, iter>>
    BY <1>9 DEF AddRequestCheck
  <2>2. Listed' = Listed
    BY <2>1 DEF Listed, Ending
  <2>3. CASE m_working
    <3>1. /\ caller[q] = "new" /\ refused' = refused
          /\ caller' = [caller EXCEPT ![q] = "checked"]
      BY <1>9, <2>3 DEF AddRequestCheck
    <3>2. q \notin Listed
      BY <1>a, <3>1
    <3>3. stage' = [stage EXCEPT ![q] = "admitted"]
      BY <1>0, <2>2, <3>1, <3>2 DEF StageOf
    <3> QED
      BY <2>1, <2>3, <3>1, <3>2, <3>3 DEF Pool!Offer, LoopState, Current, StageOf
  <2>4. CASE ~m_working
    <3>1. caller' = caller /\ refused' = refused \cup {q}
      BY <1>9, <2>4 DEF AddRequestCheck
    <3>2. stage' = stage
      BY <2>1, <3>1, StagesKept
    <3> QED
      BY <2>1, <2>4, <3>1, <3>2 DEF Pool!Offer, LoopState, Current
  <2> QED
    BY <2>3, <2>4
<1>10. ASSUME NEW q \in Requests, AddRequestAppend(q)
       PROVE  Pool!Enlist(q)
  <2>1. /\ UNCHANGED <<m_working, refused, pc, iter>>
        /\ caller[q] = "checked"
        /\ caller' = [caller EXCEPT ![q] = "entered"]
    BY <1>10 DEF AddRequestAppend
  <2>2. /\ Len(list') = Len(list) + 1
        /\ \A j \in 1..Len(list) : list'[j] = list[j]
        /\ list'[Len(list) + 1] = q
    BY <1>0, <1>10, AppendProperties DEF AddRequestAppend
  <2>4. q \notin ToSet(list)
    BY <1>0, <2>1 DEF AsyncInv, OneCoroutineEach, ToSet
  <2>5. pc = "erase" => iter \in 1..Len(list)
    BY <1>0 DEF AsyncInv, IteratorInRange
  <2> HIDE DEF list
  <2>6. ToSet(list') = ToSet(list) \cup {q}
    BY <1>0, <1>10, AppendSet DEF AddRequestAppend, list
  <2>7. Ending' = Ending /\ q \notin Ending
    <3>1. pc = "erase" => list'[iter] = list[iter] /\ list[iter] \in ToSet(list)
      BY <1>0, <2>2, <2>5 DEF ToSet
    <3> QED
      BY <2>1, <2>4, <3>1 DEF Ending, list
  <2>8. Listed' = Listed \cup {q} /\ q \notin Listed
    BY <2>4, <2>6, <2>7 DEF Listed, list
  <2>9. stage' = [stage EXCEPT ![q] = "listed"] /\ stage[q] = "admitted"
    BY <1>0, <2>1, <2>8 DEF StageOf
  <2>10. Current' = Current
    <3>1. pc = "running" => iter \in 1..Len(list)
      BY <1>0 DEF AsyncInv, IteratorInRange, list
    <3> QED
      BY <2>1, <2>2, <3>1 DEF Current, list
  <2> QED
    BY <2>1, <2>9, <2>10 DEF Pool!Enlist, LoopState
<1>11. CASE (\E n \in Limits : SetMaxDownloadsCount(n)) \/ Join
  <2>1. UNCHANGED <<m_working, refused, m_processed_requests, caller, iter, pc>>
    BY <1>11 DEF SetMaxDownloadsCount, Join
  <2>2. stage' = stage
    BY <2>1, StagesKept
  <2> QED
    BY <2>1, <2>2 DEF Pool!poolVars, LoopState, Current
<1>12. CASE Stop
  <2>1. /\ UNCHANGED <<refused, m_processed_requests, caller, iter, pc>>
        /\ m_working' = FALSE
    BY <1>12 DEF Stop
  <2>2. stage' = stage
    BY <2>1, StagesKept
  <2> QED
    BY <2>1, <2>2 DEF Pool!PoolNext, Pool!Halt, LoopState, Current
<1> QED
  <2> HIDE DEF stage, list
  <2>1. CASE \E q \in Requests : AddRequestCheck(q) \/ AddRequestAppend(q)
    BY <1>9, <1>10, <2>1 DEF Pool!PoolNext
  <2> QED
    BY <1>1, <1>2, <1>3, <1>4, <1>5, <1>6, <1>7, <1>8, <1>11, <1>12, <2>1
       DEF AsyncNext, Worker

\* For every set of requests and every limit, what the dispatcher sees of the
\* handler is a behaviour of CoroutinePool.
THEOREM AsyncImplementsPool == AsyncSpec => ImplementsPool
<1>1. AsyncInit => Pool!PoolInit
  BY RefineInit
<1>2. AsyncInv /\ AsyncInv' /\ [AsyncNext]_asyncVars
        => [Pool!PoolNext]_(Pool!poolVars)
  BY RefineStep
<1> QED
  BY <1>1, <1>2, InvHolds, PTL DEF AsyncSpec, ImplementsPool, Pool!PoolSpec
=============================================================================

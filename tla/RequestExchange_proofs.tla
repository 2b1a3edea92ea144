----------------------- MODULE RequestExchange_proofs -----------------------
(***************************************************************************)
(* Proofs about RequestExchange, for every set of users, every setting,    *)
(* every size of request and frame, and every peer.                        *)
(***************************************************************************)
EXTENDS RequestExchange, TLAPS

USE DEF statusVars, streamVars, dataVars, callVars, addVars, endVars

\* A call of setStatus() writes the step of its own thread only.
LEMMA StepOfOthers ==
  ASSUME CallsAgree, NEW t \in Threads, NEW status \in Statuses,
         SetStatus(t, status)
  PROVE  /\ step[t] = "idle"
         /\ step'[t] = "told" /\ want'[t] = status
         /\ \A s \in Threads \ {t} : step'[s] = step[s] /\ want'[s] = want[s]
         /\ step' \in [Threads -> {"idle", "told", "test", "close", "reset",
                                   "remove", "assign", "stuck"}]
         /\ want' \in [Threads -> Statuses]
BY DEF CallsAgree, SetStatus

LEMMA HandlerAndUsers ==
  /\ Handler \in Threads /\ Users \subseteq Threads
  /\ Threads \ {Handler} = Users
BY RequestAssumption DEF Threads

-----------------------------------------------------------------------------
(* The outcomes.                                                           *)

LEMMA OutcomeInit == ExchangeInit => OutcomeInv
<1> SUFFICES ASSUME ExchangeInit PROVE OutcomeInv
  OBVIOUS
<1>1. CallsAgree
  BY HandlerAndUsers DEF ExchangeInit, RequestInit, CallsAgree, Statuses
<1>2. AddingAgrees
  BY ExchangeAssumption
     DEF ExchangeInit, RequestInit, AddingAgrees, BeforeBody, Framing
<1>3. OutcomesAgree
  BY HandlerAndUsers DEF ExchangeInit, RequestInit, OutcomesAgree, Outcomes
<1> QED
  BY <1>1, <1>2, <1>3 DEF OutcomeInv

\* setStatus() in the Handler: what it announced becomes an outcome.
LEMMA HandlerSetsStatus ==
  ASSUME OutcomeInv, SetStatusNext(Handler), UNCHANGED exchangeVars
  PROVE  OutcomeInv'
<1> USE HandlerAndUsers DEF OutcomeInv, exchangeVars
<1>1. CallsAgree'
  <2>1. CASE TakeEffect(Handler)
    BY <2>1 DEF TakeEffect, CallsAgree
  <2>2. CASE TestStream(Handler) \/ CloseStream(Handler)
    BY <2>2 DEF TestStream, CloseStream, AfterStream, CallsAgree
  <2>3. CASE ResetStream(Handler) \/ RemoveFile(Handler) \/ AssignStatus(Handler)
    BY <2>3 DEF ResetStream, RemoveFile, AssignStatus, AfterStream, CallsAgree
  <2> QED
    BY <2>1, <2>2, <2>3 DEF SetStatusNext
<1>2. AddingAgrees'
  BY DEF SetStatusNext, TakeEffect, TestStream, CloseStream, ResetStream,
         RemoveFile, AssignStatus, AddingAgrees, Framing
<1>3. OutcomesAgree'
  <2>1. CASE TakeEffect(Handler)
    <3>1. /\ finished' \in Nat /\ failed' \in Nat
          /\ Outcomes' = Outcomes
      BY <2>1 DEF TakeEffect, OutcomesAgree, Outcomes, CallsAgree
    <3> QED
      BY <2>1, <3>1 DEF TakeEffect, OutcomesAgree, Framing, Body
  <2>2. ASSUME ~TakeEffect(Handler)
        PROVE  OutcomesAgree'
    <3>1. /\ step[Handler] # "told" /\ step'[Handler] # "told"
          /\ UNCHANGED <<setting, m_error, finished, failed>>
      BY <2>2 DEF SetStatusNext, TestStream, CloseStream, ResetStream, RemoveFile,
                  AssignStatus, AfterStream, CallsAgree
    <3> QED
      BY <3>1 DEF OutcomesAgree, Outcomes, Framing, Body
  <2> QED
    BY <2>1, <2>2
<1> QED
  BY <1>1, <1>2, <1>3

\* setStatus() in a user's thread: it sets no outcome.
LEMMA UserSetsStatus ==
  ASSUME OutcomeInv, NEW u \in Users, SetStatusNext(u), UNCHANGED exchangeVars
  PROVE  OutcomeInv'
<1> USE HandlerAndUsers DEF OutcomeInv, exchangeVars
<1>1. /\ UNCHANGED <<setting, m_error, want, pcW>>
      /\ \A t \in Threads \ {u} : step'[t] = step[t]
      /\ step' \in [Threads -> {"idle", "told", "test", "close", "reset",
                                "remove", "assign", "stuck"}]
      /\ finished' = finished /\ failed' = failed
  <2>1. CASE TakeEffect(u)
    BY <2>1 DEF TakeEffect, CallsAgree, OutcomesAgree
  <2>2. CASE TestStream(u) \/ CloseStream(u)
    BY <2>2 DEF TestStream, CloseStream, AfterStream, CallsAgree
  <2>3. CASE ResetStream(u) \/ RemoveFile(u) \/ AssignStatus(u)
    BY <2>3 DEF ResetStream, RemoveFile, AssignStatus, AfterStream, CallsAgree
  <2> QED
    BY <2>1, <2>2, <2>3 DEF SetStatusNext
<1>2. step'[Handler] = step[Handler]
  BY <1>1
<1>3. CallsAgree'
  BY <1>1 DEF CallsAgree
<1>4. AddingAgrees'
  BY <1>1, <1>2 DEF AddingAgrees, Framing
<1>5. OutcomesAgree'
  BY <1>1, <1>2 DEF OutcomesAgree, Outcomes, Framing, Body
<1> QED
  BY <1>3, <1>4, <1>5

\* addResponseData(): its error is the only one that does not end the exchange.
LEMMA AddingKeepsOutcome ==
  ASSUME OutcomeInv, AddNext, UNCHANGED exchangeVars
  PROVE  OutcomeInv'
<1> USE HandlerAndUsers DEF OutcomeInv, exchangeVars
<1>1. pcH = "stored" /\ step[Handler] = "idle" /\ m_error = "none" /\ setting.valid
  BY DEF AddNext, AddToMemory, RefuseEmptyPath, OpenStream, CheckStream, WriteFile,
         AddingAgrees
<1>2. UNCHANGED <<setting, finished, failed, pcH>>
  BY DEF AddNext, AddToMemory, RefuseEmptyPath, OpenStream, CheckStream, WriteFile
<1>3. CASE UNCHANGED <<m_error, step, want>>
  BY <1>1, <1>2, <1>3 DEF CallsAgree, AddingAgrees, OutcomesAgree, Outcomes,
                          Framing, Body
<1>4. CASE SetError /\ pcW' = "idle"
  <2>1. SetStatus(Handler, "ERROR") /\ m_error' = "error"
    BY <1>4 DEF SetError
  <2>2. CallsAgree'
    BY <2>1, StepOfOthers DEF CallsAgree, Statuses
  <2>3. AddingAgrees'
    BY <1>1, <1>2, <1>4, <2>1 DEF AddingAgrees, Framing
  <2>4. OutcomesAgree'
    BY <1>1, <1>2, <2>1, StepOfOthers DEF OutcomesAgree, Outcomes, Framing, Body,
                                          Statuses
  <2> QED
    BY <2>2, <2>3, <2>4
<1>5. UNCHANGED <<m_error, step, want>> \/ (SetError /\ pcW' = "idle")
  BY DEF AddNext, AddToMemory, RefuseEmptyPath, OpenStream, CheckStream, WriteFile
<1> QED
  BY <1>3, <1>4, <1>5

-----------------------------------------------------------------------------
(* The steps of the exchange are of four kinds: they call nothing, they     *)
(* set a status that is no outcome, they end it with an outcome, or they    *)
(* are the cancellation of a stopped request.                               *)

\* The Handler moves on without a call, or returns because the request was halted or
\* has an error already.
Silent ==
  /\ UNCHANGED <<setting, m_error, callVars, endVars>>
  /\ pcH # "returned" /\ HandlerFree
  /\ IF pcH' = "returned" THEN Halted \/ m_error # "none"
                          ELSE m_error = "none" \/ ~setting.valid
  /\ ~setting.valid => pcH' \in BeforeBody
  /\ pcW' # "idle" => pcH' = "stored"

Announce ==
  /\ \E status \in Statuses \ {"DONE", "ERROR", "RESUMED"} : SetStatus(Handler, status)
  /\ UNCHANGED <<setting, m_error, endVars, pcW>>
  /\ HandlerFree
  /\ m_error = "none" \/ ~setting.valid
  /\ ~setting.valid => pcH' \in BeforeBody
  /\ pcH # "returned" /\ pcH' # "returned"

Conclude ==
  /\ \/ SetStatus(Handler, "DONE") /\ UNCHANGED m_error
     \/ SetError
  /\ UNCHANGED <<setting, endVars, pcW>>
  /\ HandlerFree
  /\ m_error = "none" \/ ~setting.valid
  /\ pcH # "returned"
  /\ \/ pcH' = "returned"
     \/ /\ Framing = "length" /\ Body = <<>>
        /\ setting.valid
        /\ UNCHANGED m_error

LEMMA SilentKeepsOutcome == OutcomeInv /\ Silent => OutcomeInv'
<1> SUFFICES ASSUME OutcomeInv, Silent PROVE OutcomeInv'
  OBVIOUS
<1> USE DEF OutcomeInv, Silent, HandlerFree
<1>1. CallsAgree'
  BY DEF CallsAgree
<1>2. AddingAgrees'
  BY DEF AddingAgrees, BeforeBody, Framing
<1>3. OutcomesAgree'
  <2>1. Outcomes' = Outcomes
    BY DEF Outcomes
  <2>2. UNCHANGED <<setting, m_error, finished, failed>>
    OBVIOUS
  <2> QED
    BY <2>1, <2>2 DEF OutcomesAgree, Framing, Body
<1> QED
  BY <1>1, <1>2, <1>3

LEMMA AnnounceKeepsOutcome == OutcomeInv /\ Announce => OutcomeInv'
<1> SUFFICES ASSUME OutcomeInv, Announce PROVE OutcomeInv'
  OBVIOUS
<1> USE HandlerAndUsers DEF OutcomeInv, HandlerFree
<1>1. PICK status \in Statuses \ {"DONE", "ERROR", "RESUMED"} :
              SetStatus(Handler, status)
  BY DEF Announce
<1>2. /\ step[Handler] = "idle"
      /\ step'[Handler] = "told" /\ want'[Handler] = status
      /\ CallsAgree'
  BY <1>1, StepOfOthers DEF CallsAgree
<1>3. AddingAgrees'
  BY DEF AddingAgrees, Announce, Framing
<1>4. OutcomesAgree'
  BY <1>2 DEF OutcomesAgree, Outcomes, Framing, Body, Announce
<1> QED
  BY <1>2, <1>3, <1>4

LEMMA ConcludeKeepsOutcome == OutcomeInv /\ Conclude => OutcomeInv'
<1> SUFFICES ASSUME OutcomeInv, Conclude PROVE OutcomeInv'
  OBVIOUS
<1> USE HandlerAndUsers DEF OutcomeInv, HandlerFree
<1>1. PICK status \in {"DONE", "ERROR"} : SetStatus(Handler, status)
  BY DEF Conclude, SetError
<1>2. /\ step[Handler] = "idle"
      /\ step'[Handler] = "told" /\ want'[Handler] = status
      /\ CallsAgree'
  BY <1>1, StepOfOthers DEF CallsAgree, Statuses
<1>3. AddingAgrees'
  BY DEF AddingAgrees, BeforeBody, Conclude, SetError, Framing
<1>4. OutcomesAgree'
  BY <1>2 DEF OutcomesAgree, Outcomes, Framing, Body, Conclude
<1> QED
  BY <1>2, <1>3, <1>4

\* stop(): only a request without an outcome is canceled.
LEMMA StopKeepsOutcome == OutcomeInv /\ StopCancels => OutcomeInv'
<1> SUFFICES ASSUME OutcomeInv, StopCancels PROVE OutcomeInv'
  OBVIOUS
<1> USE HandlerAndUsers DEF OutcomeInv, HandlerFree, StopCancels
<1>1. /\ step[Handler] = "idle"
      /\ step'[Handler] = "told" /\ want'[Handler] = "CANCELED"
      /\ CallsAgree'
  <2>1. "CANCELED" \in Statuses
    BY DEF Statuses
  <2>2. SetStatus(Handler, "CANCELED")
    OBVIOUS
  <2> QED
    BY <2>1, <2>2, StepOfOthers DEF CallsAgree
<1>2. /\ UNCHANGED <<setting, m_error, finished, failed, pcW>>
      /\ pcH' = "stopped" /\ pcW = "idle"
  OBVIOUS
<1>3. /\ Outcomes = 0 /\ Outcomes' = 0
      /\ m_error = "none" \/ ~setting.valid
  BY <1>1, <1>2 DEF OutcomesAgree, Outcomes
<1>4. AddingAgrees'
  BY <1>2, <1>3 DEF AddingAgrees, BeforeBody, Framing
<1>5. OutcomesAgree'
  BY <1>2, <1>3 DEF OutcomesAgree, Framing, Body
<1> QED
  BY <1>1, <1>4, <1>5

LEMMA StepKinds ==
  ASSUME OutcomeInv,
         \/ Start \/ ConnectTurn \/ WriteTurn \/ WrittenTcp \/ WrittenHttp
         \/ HeadersTurn \/ BodyTurn \/ ChunkTurn \/ Stored \/ Complete
         \/ SizeTurn \/ SizeTurnPartial \/ TailRead \/ Quit \/ SocketFails
         \/ HandledAgain
         \/ \E status \in UserCalls : CallInCallback(status)
  PROVE  Silent \/ Announce \/ Conclude
<1> USE DEF requestVars, Turn, HandlerFree, BeforeBody
<1>0. /\ pcH \notin {"stored", "returned"} => m_error = "none" \/ ~setting.valid
      /\ ~setting.valid => m_error = "error" /\ pcH \in BeforeBody
                         /\ Framing # "tcp"
  BY DEF OutcomeInv, AddingAgrees
<1>1. CASE Start
  <2>1. HandlerFree
    BY <1>1 DEF Start, Break, SetError, SetStatus, OutcomeInv, AddingAgrees
  <2> QED
    BY <1>0, <1>1, <2>1 DEF Start, Break, Announce, Conclude, Statuses
<1>2. CASE ConnectTurn
  BY <1>0, <1>2 DEF ConnectTurn, Announce, Statuses
<1>3. CASE WriteTurn
  BY <1>0, <1>3 DEF WriteTurn, Silent
<1>4. CASE WrittenTcp
  <2>1. setting.valid
    BY <1>0, <1>4 DEF WrittenTcp
  <2> QED
    BY <1>0, <1>4, <2>1 DEF WrittenTcp, Finish, Silent, Conclude
<1>5. CASE WrittenHttp
  BY <1>0, <1>5 DEF WrittenHttp, Announce, Statuses
<1>6. CASE HeadersTurn
  <2>1. CASE HeadersEnd \/ HeadersUnframed
    BY <1>0, <2>1 DEF HeadersEnd, HeadersUnframed, HeadersAre, Finish, Break,
                      Conclude
  <2>2. CASE HeadersBad
    BY <1>0, <2>2 DEF HeadersBad, HeadersAre, Finish, Silent, Conclude
  <2>3. CASE HeadersLength
    BY <1>0, <2>3 DEF HeadersLength, HeadersAre, Announce, Statuses
  <2>4. CASE HeadersLengthZero
    BY <1>0, <2>4 DEF HeadersLengthZero, HeadersAre, Conclude
  <2>5. CASE HeadersChunked
    BY <1>0, <2>5 DEF HeadersChunked, HeadersAre, Silent
  <2>6. CASE HeadersFailed
    BY <1>0, <2>6 DEF HeadersFailed, Silent
  <2> QED
    BY <1>6, <2>1, <2>2, <2>3, <2>4, <2>5, <2>6 DEF HeadersTurn
<1>7. CASE BodyTurn \/ ChunkTurn
  BY <1>0, <1>7 DEF BodyTurn, ChunkTurn, ReadPiece, Silent
<1>8. CASE Stored
  BY <1>0, <1>8 DEF Stored, Silent
<1>9. CASE Complete
  BY <1>0, <1>9 DEF Complete, Finish, Conclude
<1>10. CASE SizeTurn
  BY <1>0, <1>10 DEF SizeTurn, Silent
<1>11. CASE SizeTurnPartial \/ TailRead
  BY <1>0, <1>11 DEF SizeTurnPartial, TailRead, Silent
<1>12. CASE Quit
  BY <1>0, <1>12 DEF Quit, Loops, Silent
<1>13. CASE SocketFails
  BY <1>0, <1>13 DEF SocketFails, Loops, Break, Conclude
<1>14. CASE \E status \in UserCalls : CallInCallback(status)
  BY <1>0, <1>14 DEF CallInCallback, Announce, Statuses
<1>15. CASE HandledAgain
  BY <1>0, <1>15 DEF HandledAgain, Silent
<1> QED
  BY <1>1, <1>2, <1>3, <1>4, <1>5, <1>6, <1>7, <1>8, <1>9, <1>10, <1>11, <1>12,
     <1>13, <1>14, <1>15

LEMMA UserCallKeepsOutcome ==
  ASSUME OutcomeInv, NEW u \in Users, NEW status \in UserCalls, UserCall(u, status)
  PROVE  OutcomeInv'
<1> USE HandlerAndUsers DEF OutcomeInv
<1>1. status \in Statuses \ {"DONE", "ERROR"}
  BY ExchangeAssumption DEF Statuses
<1>2. /\ SetStatus(u, status)
      /\ UNCHANGED <<setting, m_error, finished, failed, pcW, pcH>>
  BY DEF UserCall, exchangeVars
<1>3. /\ CallsAgree'
      /\ step'[Handler] = step[Handler] /\ want'[Handler] = want[Handler]
  BY <1>1, <1>2, StepOfOthers DEF CallsAgree
<1>4. AddingAgrees'
  BY <1>2, <1>3 DEF AddingAgrees, Framing
<1>5. OutcomesAgree'
  BY <1>2, <1>3 DEF OutcomesAgree, Outcomes, Framing, Body
<1> QED
  BY <1>3, <1>4, <1>5

LEMMA OutcomeStep == OutcomeInv /\ [ExchangeNext]_vars => OutcomeInv'
<1> SUFFICES ASSUME OutcomeInv, [ExchangeNext]_vars PROVE OutcomeInv'
  OBVIOUS
<1>1. CASE (AddNext \/ SetStatusNext(Handler)) /\ UNCHANGED exchangeVars
  BY <1>1, AddingKeepsOutcome, HandlerSetsStatus
<1>2. CASE \/ Start \/ ConnectTurn \/ WriteTurn \/ WrittenTcp \/ WrittenHttp
           \/ HeadersTurn \/ BodyTurn \/ ChunkTurn \/ Stored \/ Complete
           \/ SizeTurn \/ SizeTurnPartial \/ TailRead \/ Quit \/ SocketFails
           \/ HandledAgain
           \/ \E status \in UserCalls : CallInCallback(status)
  BY <1>2, StepKinds, SilentKeepsOutcome, AnnounceKeepsOutcome,
     ConcludeKeepsOutcome
<1>3. CASE \E status \in UserCalls, u \in Users : UserCall(u, status)
  BY <1>3, UserCallKeepsOutcome
<1>4. CASE \E u \in Users : SetStatusNext(u) /\ UNCHANGED exchangeVars
  BY <1>4, UserSetsStatus
<1>5. CASE StopCancels
  BY <1>5, StopKeepsOutcome
<1>6. CASE UNCHANGED vars
  BY <1>6 DEF vars, requestVars, exchangeVars, OutcomeInv, CallsAgree, AddingAgrees,
              OutcomesAgree, Outcomes, Framing, Body
<1> QED
  BY <1>1, <1>2, <1>3, <1>4, <1>5, <1>6 DEF ExchangeNext, HandlerNext, UserNext

\* The calls of setStatus(), addResponseData() and the exchange agree on what has
\* been announced: the inductive invariant of the outcomes.
THEOREM OutcomeInvHolds == ExchangeSpec => []OutcomeInv
<1> QED
  BY OutcomeInit, OutcomeStep, PTL DEF ExchangeSpec

\* A request has one outcome, whatever its users do and its peer sends, unless
\* the reply says Content-Length: 0 (both handlers).
THEOREM OneOutcomeAlways == ExchangeSpec => []OneOutcome
<1>1. OutcomeInv => OneOutcome
  <2> SUFFICES ASSUME OutcomeInv, ~(Framing = "length" /\ Body = <<>>)
               PROVE  ~(finished + failed > 1)
    BY DEF OneOutcome
  <2>1. finished \in Nat /\ failed \in Nat /\ Outcomes <= 1
    BY DEF OutcomeInv, OutcomesAgree
  <2> QED
    BY <2>1 DEF Outcomes
<1> QED
  BY <1>1, OutcomeInvHolds, PTL

-----------------------------------------------------------------------------
(* The stream of a careful client's request.                               *)

LEMMA StreamInit == ExchangeInit => StreamInv
BY HandlerAndUsers DEF ExchangeInit, RequestInit, StreamInv

\* A thread that can reset the stream is the only one that uses it.
LEMMA ResetIsAlone ==
  ASSUME OutcomeInv, StreamInv, setting.careful, NEW t \in Threads,
         step[t] \in {"close", "reset"}
  PROVE  /\ t = Handler
         /\ \A s \in Threads \ {t} : step[s] = "idle"
         /\ pcW = "idle"
<1> USE HandlerAndUsers
<1>1. m_output_file # "null"
  BY DEF StreamInv
<1>2. setting.output = "file"
  BY <1>1 DEF StreamInv
<1>3. \A u \in Users : step[u] = "idle"
  BY <1>2 DEF StreamInv
<1>4. t = Handler
  BY <1>3
<1> QED
  BY <1>3, <1>4 DEF OutcomeInv, AddingAgrees

\* setStatus() in any thread.
LEMMA SettingKeepsStream ==
  ASSUME OutcomeInv, StreamInv, NEW t \in Threads, SetStatusNext(t)
  PROVE  StreamInv'
<1> USE HandlerAndUsers
<1>1. step \in [Threads -> {"idle", "told", "test", "close", "reset", "remove",
                            "assign", "stuck"}]
  BY DEF OutcomeInv, CallsAgree
<1>2. t \notin Users \/ ~setting.careful \/ setting.output = "memory"
  BY DEF StreamInv, SetStatusNext, TakeEffect, TestStream, CloseStream, ResetStream,
         RemoveFile, AssignStatus
<1>3. CASE TakeEffect(t)
  BY <1>1, <1>2, <1>3 DEF TakeEffect, StreamInv
<1>4. CASE TestStream(t)
  <2>1. AfterStream(t) \in {"remove", "assign"}
    BY DEF AfterStream
  <2> QED
    BY <1>1, <1>2, <1>4, <2>1 DEF TestStream, StreamInv
<1>5. CASE CloseStream(t)
  <2>1. CASE setting.careful
    <3>1. m_output_file # "null" /\ step[t] = "close"
      BY <1>5, <2>1 DEF CloseStream, StreamInv
    <3>2. t = Handler /\ pcW = "idle"
      BY <2>1, <3>1, ResetIsAlone
    <3> QED
      BY <1>1, <1>5, <2>1, <3>1, <3>2 DEF CloseStream, StreamInv
  <2>2. CASE ~setting.careful
    BY <1>5, <2>2 DEF CloseStream, StreamInv
  <2> QED
    BY <2>1, <2>2
<1>6. CASE ResetStream(t)
  <2>1. CASE setting.careful
    <3>1. step[t] = "reset"
      BY <1>6 DEF ResetStream
    <3>2. /\ t = Handler /\ pcW = "idle"
          /\ \A s \in Threads \ {t} : step[s] = "idle"
      BY <2>1, <3>1, ResetIsAlone
    <3>3. AfterStream(t) \in {"remove", "assign"}
      BY DEF AfterStream
    <3>4. \A s \in Threads : step'[s] \notin {"close", "reset"}
      BY <1>1, <1>6, <3>2, <3>3 DEF ResetStream
    <3> QED
      BY <1>1, <1>6, <2>1, <3>2, <3>4 DEF ResetStream, StreamInv
  <2>2. CASE ~setting.careful
    BY <1>6, <2>2 DEF ResetStream, StreamInv
  <2> QED
    BY <2>1, <2>2
<1>7. CASE RemoveFile(t)
  BY <1>1, <1>2, <1>7 DEF RemoveFile, StreamInv
<1>8. CASE AssignStatus(t)
  BY <1>1, <1>2, <1>8 DEF AssignStatus, StreamInv
<1> QED
  BY <1>3, <1>4, <1>5, <1>6, <1>7, <1>8 DEF SetStatusNext

\* addResponseData() has a stream from its test on.
LEMMA AddingKeepsStream ==
  ASSUME OutcomeInv, StreamInv, AddNext
  PROVE  StreamInv'
<1> USE HandlerAndUsers
<1>1. CASE AddToMemory
  BY <1>1 DEF AddToMemory, StreamInv
<1>2. CASE RefuseEmptyPath
  <2>1. /\ step' = [step EXCEPT ![Handler] = "told"]
        /\ step \in [Threads -> {"idle", "told", "test", "close", "reset",
                                 "remove", "assign", "stuck"}]
    BY <1>2 DEF RefuseEmptyPath, SetError, SetStatus, OutcomeInv, CallsAgree
  <2> QED
    BY <1>2, <2>1 DEF RefuseEmptyPath, StreamInv
<1>3. CASE OpenStream
  BY <1>3 DEF OpenStream, StreamInv
<1>4. CASE CheckStream
  <2>1. CASE SetError /\ m_output_file = "closed" /\ pcW' = "idle"
             /\ UNCHANGED <<setting, m_output_file, ub>>
    <3>1. /\ step' = [step EXCEPT ![Handler] = "told"]
          /\ step \in [Threads -> {"idle", "told", "test", "close", "reset",
                                   "remove", "assign", "stuck"}]
      BY <2>1 DEF SetError, SetStatus, OutcomeInv, CallsAgree
    <3> QED
      BY <2>1, <3>1 DEF StreamInv
  <2>2. CASE m_output_file # "null" /\ m_output_file' = "open" /\ pcW' = "write"
             /\ UNCHANGED <<setting, step, ub>>
    BY <1>4, <2>2 DEF CheckStream, StreamInv
  <2>3. CASE m_output_file = "null" /\ pcW' = "stuck"
             /\ UNCHANGED <<setting, m_output_file, step>>
    BY <1>4, <2>3 DEF CheckStream, StreamInv
  <2> QED
    BY <1>4, <2>1, <2>2, <2>3 DEF CheckStream
<1>5. CASE WriteFile
  BY <1>5 DEF WriteFile, StreamInv
<1> QED
  BY <1>1, <1>2, <1>3, <1>4, <1>5 DEF AddNext

\* A step of the exchange leaves the stream alone.
LEMMA ExchangeKeepsStream ==
  ASSUME OutcomeInv, StreamInv, Silent \/ Announce \/ Conclude \/ StopCancels,
         m_output_file' = m_output_file, ub' \subseteq ub \cup {"headers"},
         pcW' \in {pcW, "open"}
  PROVE  StreamInv'
<1> USE HandlerAndUsers
<1>1. /\ setting' = setting
      /\ \A u \in Users : step'[u] = step[u]
      /\ \A t \in Threads : step'[t] \in {"close", "reset"} => step'[t] = step[t]
  <2>1. CASE Silent
    BY <2>1 DEF Silent
  <2>2. CASE Announce
    BY <2>2, StepOfOthers DEF Announce, OutcomeInv
  <2>3. CASE Conclude
    BY <2>3, StepOfOthers DEF Conclude, SetError, OutcomeInv, Statuses
  <2>4. CASE StopCancels
    BY <2>4, StepOfOthers DEF StopCancels, OutcomeInv, Statuses
  <2> QED
    BY <2>1, <2>2, <2>3, <2>4
<1> QED
  BY <1>1 DEF StreamInv

LEMMA ExchangeFrame ==
  ASSUME \/ Start \/ ConnectTurn \/ WriteTurn \/ WrittenTcp \/ WrittenHttp
         \/ HeadersTurn \/ BodyTurn \/ ChunkTurn \/ Stored \/ Complete
         \/ SizeTurn \/ SizeTurnPartial \/ TailRead \/ Quit \/ SocketFails
         \/ HandledAgain \/ StopCancels
         \/ \E status \in UserCalls : CallInCallback(status)
  PROVE  /\ UNCHANGED <<m_output_file, disk, m_paused, m_canceled>>
         /\ ub' \subseteq ub \cup {"headers"}
         /\ pcW' = pcW \/ (pcW' = "open" /\ ~Halted)
<1> USE DEF requestVars, Turn
<1>1. CASE \/ Start \/ ConnectTurn \/ WriteTurn \/ WrittenTcp \/ WrittenHttp
  BY <1>1 DEF Start, ConnectTurn, WriteTurn, WrittenTcp, WrittenHttp
<1>2. CASE HeadersTurn
  BY <1>2 DEF HeadersTurn, HeadersAre, HeadersEnd, HeadersBad, HeadersLength,
              HeadersLengthZero, HeadersChunked, HeadersUnframed, HeadersFailed
<1>3. CASE BodyTurn \/ ChunkTurn \/ Stored \/ Complete
  BY <1>3 DEF BodyTurn, ChunkTurn, ReadPiece, AddResponseData, Stored, Complete
<1>4. CASE SizeTurn \/ SizeTurnPartial \/ TailRead \/ Quit \/ SocketFails
  BY <1>4 DEF SizeTurn, SizeTurnPartial, TailRead, Quit, SocketFails
<1>5. CASE HandledAgain \/ StopCancels
  BY <1>5 DEF HandledAgain, StopCancels
<1>6. CASE \E status \in UserCalls : CallInCallback(status)
  BY <1>6 DEF CallInCallback
<1> QED
  BY <1>1, <1>2, <1>3, <1>4, <1>5, <1>6

\* A careful user does not call while there may be a stream.
LEMMA UserCallKeepsStream ==
  ASSUME OutcomeInv, StreamInv, NEW u \in Users, NEW status \in UserCalls,
         UserCall(u, status)
  PROVE  StreamInv'
<1> USE HandlerAndUsers
<1>1. /\ step' = [step EXCEPT ![u] = "told"]
      /\ step \in [Threads -> {"idle", "told", "test", "close", "reset",
                               "remove", "assign", "stuck"}]
  BY DEF UserCall, SetStatus, OutcomeInv, CallsAgree
<1>2. /\ UNCHANGED <<setting, m_output_file, pcW, ub>>
      /\ setting.careful => setting.output = "memory"
  BY DEF UserCall
<1> QED
  BY <1>1, <1>2 DEF StreamInv

LEMMA StreamStep ==
  OutcomeInv /\ StreamInv /\ [ExchangeNext]_vars => StreamInv'
<1> SUFFICES ASSUME OutcomeInv, StreamInv, [ExchangeNext]_vars PROVE StreamInv'
  OBVIOUS
<1> USE HandlerAndUsers
<1>1. CASE (AddNext \/ SetStatusNext(Handler)) /\ UNCHANGED exchangeVars
  BY <1>1, AddingKeepsStream, SettingKeepsStream
<1>2. CASE \/ Start \/ ConnectTurn \/ WriteTurn \/ WrittenTcp \/ WrittenHttp
           \/ HeadersTurn \/ BodyTurn \/ ChunkTurn \/ Stored \/ Complete
           \/ SizeTurn \/ SizeTurnPartial \/ TailRead \/ Quit \/ SocketFails
           \/ HandledAgain
           \/ \E status \in UserCalls : CallInCallback(status)
  BY <1>2, StepKinds, ExchangeFrame, ExchangeKeepsStream
<1>3. CASE \E status \in UserCalls, u \in Users : UserCall(u, status)
  BY <1>3, UserCallKeepsStream
<1>4. CASE \E u \in Users : SetStatusNext(u) /\ UNCHANGED exchangeVars
  BY <1>4, SettingKeepsStream
<1>5. CASE StopCancels
  BY <1>5, ExchangeFrame, ExchangeKeepsStream
<1>6. CASE UNCHANGED vars
  BY <1>6 DEF vars, requestVars, StreamInv
<1> QED
  BY <1>1, <1>2, <1>3, <1>4, <1>5, <1>6 DEF ExchangeNext, HandlerNext, UserNext

\* With a careful client one thread at a time has the stream of a request, and
\* uses it only while there is one (setStatus() and addResponseData()).
THEOREM StreamInvHolds == ExchangeSpec => []StreamInv
<1> QED
  BY StreamInit, StreamStep, OutcomeInvHolds, PTL DEF ExchangeSpec

\* setStatus() and addResponseData() use no stream that was reset, if the client
\* pauses or cancels a request with a file only in a callback.
THEOREM NoNullStreamAlways == ExchangeSpec => []NoNullStream
<1>1. StreamInv => NoNullStream
  BY DEF StreamInv, NoNullStream
<1> QED
  BY <1>1, StreamInvHolds, PTL
=============================================================================

----------------------- MODULE ExchangeResults_proofs -----------------------
(***************************************************************************)
(* What an exchange leaves behind when it is over: more proofs about       *)
(* RequestExchange, for every set of users, every setting, every size of   *)
(* request and frame, and every peer.                                      *)
(***************************************************************************)
EXTENDS RequestExchange_proofs, SequenceLemmas

USE DEF statusVars, streamVars, dataVars, callVars, addVars, endVars

\* An exchange that is over has an outcome, or has found the request halted, of
\* which a user's later call is the only trace when it has resumed it.
HaltInv ==
  /\ want[Handler] # "RESUMED"
  /\ pcH = "returned" /\ setting.valid /\ Outcomes = 0 =>
       \/ Halted
       \/ \E u \in Users : \/ want[u] = "RESUMED"
                           \/ step[u] = "told" /\ want[u] \in {"PAUSED", "CANCELED"}

\* The stream of a careful client's request and its file, while the Handler has them
\* for itself: a stream is there only in the middle of an exchange that nothing has
\* ended, or until the call that ends it resets it, and a file that has to be removed
\* only until that call removes it.
ClosingNow == step[Handler] \in {"told", "test", "close", "reset"}
                /\ want[Handler] \in Closing

RemovingNow == step[Handler] \in {"test", "close", "reset", "remove"}
                 /\ want[Handler] \in Removing

CarefulFile == setting.careful /\ setting.output = "file"

FileInv ==
  /\ setting.output # "file" => disk = NoFile
  /\ CarefulFile =>
       /\ Halted => pcW = "idle"
       /\ step[Handler] = "told" /\ want[Handler] = "ERROR" => m_error # "none"
       /\ failed > 0 => m_error # "none"
       /\ m_output_file # "null" =>
            \/ ClosingNow
            \/ ~Halted /\ m_error = "none" /\ pcH # "returned"
       /\ disk # NoFile /\ (m_canceled \/ failed > 0) => RemovingNow

\* What is in the file: everything that was read but the piece that is being added,
\* as long as nothing removes it.
Clean ==
  ~m_canceled /\ failed = 0 /\ ~(step[Handler] = "told" /\ want[Handler] = "ERROR")

Got(content) == IF content = NoFile THEN <<>> ELSE content

TextsInv ==
  /\ setting \in Settings
  /\ net \in Seq(Tokens) /\ received \in Seq(Tokens) /\ piece \in Seq(Tokens)
  /\ disk \in Seq(Tokens) \cup {NoFile}
  /\ linked => disk # NoFile
  /\ pcH \in {"body", "size", "chunk", "stored", "called", "tail"} =>
       ~(Framing = "length" /\ Body = <<>>)

\* A call that closes the stream has taken effect before.
Effective ==
  /\ step[Handler] = "remove" => want[Handler] \in Removing
  /\ step[Handler] \in {"test", "close", "reset"} => want[Handler] \in Closing
  /\ step[Handler] \in {"test", "close", "reset", "remove"} =>
       /\ want[Handler] = "CANCELED" => m_canceled
       /\ want[Handler] = "PAUSED" => m_paused
       /\ want[Handler] = "ERROR" => failed > 0
       /\ want[Handler] = "DONE" => finished > 0

WrittenInv ==
  CarefulFile =>
    /\ Effective
    /\ m_output_file = "null" /\ disk # NoFile => Halted \/ failed > 0 \/ finished > 0
    /\ m_output_file = "open" => linked
    /\ Clean /\ pcW = "idle" => disk = IF received = <<>> THEN NoFile ELSE received
    /\ pcW # "idle" => piece # <<>> /\ received = Got(disk) \o piece
    /\ pcW = "write" => m_output_file = "open"

-----------------------------------------------------------------------------
(* A request without an outcome.                                           *)

LEMMA HaltInit == ExchangeInit => HaltInv
BY HandlerAndUsers DEF ExchangeInit, RequestInit, HaltInv

\* A step of the exchange that returns without an outcome has found a reason.
LEMMA ExchangeKeepsHalt ==
  ASSUME OutcomeInv, HaltInv, Silent \/ Announce \/ Conclude \/ StopCancels,
         UNCHANGED <<m_paused, m_canceled>>
  PROVE  HaltInv'
<1> USE HandlerAndUsers
<1>1. CASE Silent
  <2>1. /\ UNCHANGED <<setting, m_error, step, want, finished, failed>>
        /\ Outcomes' = Outcomes
    BY <1>1 DEF Silent, Outcomes
  <2>2. CASE pcH' = "returned" /\ setting.valid /\ Outcomes = 0
    <3>1. Halted
      BY <1>1, <2>2 DEF Silent, OutcomeInv, OutcomesAgree
    <3> QED
      BY <2>1, <3>1 DEF HaltInv, Halted
  <2> QED
    BY <2>1, <2>2 DEF HaltInv
<1>2. CASE Announce
  <2>1. want'[Handler] # "RESUMED"
    BY <1>2, StepOfOthers DEF Announce, OutcomeInv
  <2> QED
    BY <1>2, <2>1 DEF Announce, HaltInv
<1>3. CASE Conclude
  <2>1. PICK status \in {"DONE", "ERROR"} : SetStatus(Handler, status)
    BY <1>3 DEF Conclude, SetError
  <2>2. step'[Handler] = "told" /\ want'[Handler] = status
    BY <2>1, StepOfOthers DEF OutcomeInv, Statuses
  <2>3. Outcomes' # 0
    BY <1>3, <2>2 DEF Conclude, Outcomes, OutcomeInv, OutcomesAgree
  <2> QED
    BY <2>2, <2>3 DEF HaltInv
<1>4. CASE StopCancels
  <2>1. want'[Handler] = "CANCELED"
    BY <1>4, StepOfOthers DEF StopCancels, OutcomeInv, Statuses
  <2> QED
    BY <1>4, <2>1 DEF StopCancels, HaltInv
<1> QED
  BY <1>1, <1>2, <1>3, <1>4

\* Only a user's call takes a pause back.
LEMMA HandlerKeepsHalt ==
  ASSUME OutcomeInv, HaltInv, SetStatusNext(Handler), UNCHANGED exchangeVars
  PROVE  HaltInv'
<1> USE HandlerAndUsers DEF exchangeVars
<1>1. /\ UNCHANGED <<setting, want, pcH>>
      /\ \A u \in Users : step'[u] = step[u]
  BY DEF SetStatusNext, TakeEffect, TestStream, CloseStream, ResetStream, RemoveFile,
         AssignStatus, OutcomeInv, CallsAgree
<1>2. Outcomes' = Outcomes
  <2>1. CASE TakeEffect(Handler)
    BY <2>1 DEF TakeEffect, OutcomesAgree, Outcomes, OutcomeInv, CallsAgree
  <2>2. CASE ~TakeEffect(Handler)
    <3>1. /\ step[Handler] # "told" /\ step'[Handler] # "told"
          /\ UNCHANGED <<finished, failed>>
      BY <2>2 DEF SetStatusNext, TestStream, CloseStream, ResetStream, RemoveFile,
                  AssignStatus, AfterStream, OutcomeInv, CallsAgree
    <3> QED
      BY <3>1 DEF Outcomes
  <2> QED
    BY <2>1, <2>2
<1>3. Halted => Halted'
  BY DEF SetStatusNext, TakeEffect, TestStream, CloseStream, ResetStream, RemoveFile,
         AssignStatus, HaltInv, Halted
<1> QED
  BY <1>1, <1>2, <1>3 DEF HaltInv

LEMMA UserKeepsHalt ==
  ASSUME OutcomeInv, HaltInv, NEW u \in Users, SetStatusNext(u), UNCHANGED exchangeVars
  PROVE  HaltInv'
<1> USE HandlerAndUsers DEF exchangeVars
<1>1. /\ UNCHANGED <<setting, want, pcH>>
      /\ \A t \in Threads \ {u} : step'[t] = step[t]
      /\ want[u] \notin {"DONE", "ERROR"}
  BY DEF SetStatusNext, TakeEffect, TestStream, CloseStream, ResetStream, RemoveFile,
         AssignStatus, OutcomeInv, CallsAgree
<1>2. step'[Handler] = step[Handler]
  BY <1>1
<1>3. UNCHANGED <<finished, failed>>
  BY <1>1 DEF SetStatusNext, TakeEffect, TestStream, CloseStream, ResetStream,
              RemoveFile, AssignStatus, OutcomeInv, OutcomesAgree
<1>4. Outcomes' = Outcomes
  BY <1>1, <1>2, <1>3 DEF Outcomes
<1>5. CASE TakeEffect(u)
  <2>1. want[u] = "RESUMED" \/ (Halted => Halted')
    BY <1>5 DEF TakeEffect, Halted
  <2>2. want[u] \in {"PAUSED", "CANCELED"} => Halted'
    BY <1>5 DEF TakeEffect, Halted
  <2> QED
    BY <1>1, <1>4, <2>1, <2>2 DEF HaltInv
<1>6. CASE ~TakeEffect(u)
  <2>1. step[u] # "told" /\ UNCHANGED <<m_paused, m_canceled>>
    BY <1>6 DEF SetStatusNext, TestStream, CloseStream, ResetStream, RemoveFile,
                AssignStatus
  <2> QED
    BY <1>1, <1>4, <2>1 DEF HaltInv, Halted
<1> QED
  BY <1>5, <1>6

LEMMA UserCallKeepsHalt ==
  ASSUME OutcomeInv, HaltInv, NEW u \in Users, NEW status \in UserCalls,
         UserCall(u, status)
  PROVE  HaltInv'
<1> USE HandlerAndUsers
<1>1. /\ status \in {"PAUSED", "RESUMED", "CANCELED"}
      /\ status \in Statuses
  BY ExchangeAssumption DEF Statuses
<1>2. /\ SetStatus(u, status)
      /\ UNCHANGED <<setting, finished, failed, m_paused, m_canceled, pcH>>
  BY DEF UserCall, exchangeVars
<1>3. /\ step'[u] = "told" /\ want'[u] = status
      /\ step'[Handler] = step[Handler] /\ want'[Handler] = want[Handler]
  BY <1>1, <1>2, StepOfOthers DEF OutcomeInv
<1>4. Outcomes' = Outcomes
  BY <1>2, <1>3 DEF Outcomes
<1> QED
  BY <1>1, <1>2, <1>3, <1>4 DEF HaltInv, Halted

LEMMA AddingKeepsHalt ==
  ASSUME OutcomeInv, HaltInv, AddNext, UNCHANGED exchangeVars
  PROVE  HaltInv'
<1> USE HandlerAndUsers DEF exchangeVars
<1>1. pcH = "stored"
  BY DEF AddNext, AddToMemory, RefuseEmptyPath, OpenStream, CheckStream, WriteFile,
         OutcomeInv, AddingAgrees
<1>2. CASE UNCHANGED want
  BY <1>1, <1>2 DEF HaltInv
<1>3. CASE SetError
  <2>1. want'[Handler] = "ERROR"
    BY <1>3, StepOfOthers DEF SetError, OutcomeInv, Statuses
  <2> QED
    BY <1>1, <2>1 DEF HaltInv
<1> QED
  BY <1>2, <1>3 DEF AddNext, AddToMemory, RefuseEmptyPath, OpenStream, CheckStream,
                    WriteFile

LEMMA HaltStep == OutcomeInv /\ HaltInv /\ [ExchangeNext]_vars => HaltInv'
<1> SUFFICES ASSUME OutcomeInv, HaltInv, [ExchangeNext]_vars PROVE HaltInv'
  OBVIOUS
<1>1. CASE (AddNext \/ SetStatusNext(Handler)) /\ UNCHANGED exchangeVars
  BY <1>1, AddingKeepsHalt, HandlerKeepsHalt
<1>2. CASE \/ Start \/ ConnectTurn \/ WriteTurn \/ WrittenTcp \/ WrittenHttp
           \/ HeadersTurn \/ BodyTurn \/ ChunkTurn \/ Stored \/ Complete
           \/ SizeTurn \/ SizeTurnPartial \/ TailRead \/ Quit \/ SocketFails
           \/ HandledAgain
           \/ \E status \in UserCalls : CallInCallback(status)
  BY <1>2, StepKinds, ExchangeFrame, ExchangeKeepsHalt
<1>3. CASE \E status \in UserCalls, u \in Users : UserCall(u, status)
  BY <1>3, UserCallKeepsHalt
<1>4. CASE \E u \in Users : SetStatusNext(u) /\ UNCHANGED exchangeVars
  BY <1>4, UserKeepsHalt
<1>5. CASE StopCancels
  BY <1>5, ExchangeFrame, ExchangeKeepsHalt
<1>6. CASE UNCHANGED vars
  BY <1>6 DEF vars, requestVars, exchangeVars, HaltInv, Outcomes, Halted
<1> QED
  BY <1>1, <1>2, <1>3, <1>4, <1>5, <1>6 DEF ExchangeNext, HandlerNext, UserNext

\* Only users resume a request, and an exchange that is over without an outcome has
\* found a halt: the inductive invariant behind OutcomeUnlessHalted.
THEOREM HaltInvHolds == ExchangeSpec => []HaltInv
<1> QED
  BY HaltInit, HaltStep, OutcomeInvHolds, PTL DEF ExchangeSpec

\* An exchange of a request with a valid Url that is over, of which the dispatcher is
\* not told, was paused or canceled (both handlers).
THEOREM OutcomeUnlessHaltedAlways == ExchangeSpec => []OutcomeUnlessHalted
<1>1. OutcomeInv /\ HaltInv => OutcomeUnlessHalted
  <2> SUFFICES ASSUME OutcomeInv, HaltInv, AtRest, setting.valid,
                      finished + failed = 0
               PROVE  Halted \/ \E u \in Users : want[u] = "RESUMED"
    BY DEF OutcomeUnlessHalted
  <2>1. Outcomes = 0
    BY DEF AtRest, Ended, HandlerFree, Outcomes
  <2> QED
    BY <2>1 DEF AtRest, Ended, HaltInv
<1> QED
  BY <1>1, HaltInvHolds, OutcomeInvHolds, PTL
-----------------------------------------------------------------------------
(* The file and the stream of a careful client's request.                  *)

LEMMA FileInit == ExchangeInit => FileInv
BY HandlerAndUsers DEF ExchangeInit, RequestInit, FileInv, CarefulFile

LEMMA ExchangeKeepsFile ==
  ASSUME OutcomeInv, FileInv, Silent \/ Announce \/ Conclude \/ StopCancels,
         UNCHANGED <<m_output_file, disk, m_paused, m_canceled>>,
         pcW' = pcW \/ (pcW' = "open" /\ ~Halted)
  PROVE  FileInv'
<1> USE HandlerAndUsers DEF FileInv, CarefulFile, Halted
<1>1. /\ UNCHANGED <<setting, failed>>
      /\ step[Handler] = "idle"
  BY DEF Silent, Announce, Conclude, StopCancels, HandlerFree
<1>2. ~ClosingNow /\ ~RemovingNow
  BY <1>1 DEF ClosingNow, RemovingNow
<1>3. CASE Silent
  BY <1>1, <1>2, <1>3 DEF Silent
<1>4. CASE Announce
  <2>1. want'[Handler] # "ERROR"
    BY <1>4, StepOfOthers DEF Announce, OutcomeInv
  <2> QED
    BY <1>1, <1>2, <1>4, <2>1 DEF Announce
<1>5. CASE Conclude
  <2>1. PICK status \in {"DONE", "ERROR"} : /\ SetStatus(Handler, status)
                                            /\ status = "ERROR" => m_error' # "none"
                                            /\ m_error # "none" => m_error' # "none"
    BY <1>5 DEF Conclude, SetError
  <2>2. step'[Handler] = "told" /\ want'[Handler] = status
    BY <2>1, StepOfOthers DEF OutcomeInv, Statuses
  <2>3. ClosingNow'
    BY <2>2 DEF ClosingNow, Closing
  <2> QED
    BY <1>1, <1>2, <2>1, <2>2, <2>3
<1>6. CASE StopCancels
  <2>1. step'[Handler] = "told" /\ want'[Handler] = "CANCELED"
    BY <1>6, StepOfOthers DEF StopCancels, OutcomeInv, Statuses
  <2>2. ClosingNow'
    BY <2>1 DEF ClosingNow, Closing
  <2> QED
    BY <1>1, <1>2, <1>6, <2>1, <2>2 DEF StopCancels
<1> QED
  BY <1>3, <1>4, <1>5, <1>6

\* setStatus() in the Handler: for a status that closes the stream it does not come to
\* its end before the stream is gone, and the file if it is to be removed.
LEMMA HandlerKeepsFile ==
  ASSUME OutcomeInv, StreamInv, FileInv, SetStatusNext(Handler),
         UNCHANGED exchangeVars
  PROVE  FileInv'
<1> USE HandlerAndUsers DEF FileInv, CarefulFile, exchangeVars
<1>1. step \in [Threads -> {"idle", "told", "test", "close", "reset", "remove",
                            "assign", "stuck"}]
  BY DEF OutcomeInv, CallsAgree
<1>2. /\ UNCHANGED <<setting, want, m_error, pcH, pcW>>
      /\ pcW = "idle"
  BY DEF SetStatusNext, TakeEffect, TestStream, CloseStream, ResetStream, RemoveFile,
         AssignStatus, OutcomeInv, AddingAgrees
<1>3. finished \in Nat /\ failed \in Nat
  BY DEF OutcomeInv, OutcomesAgree
<1>4. CASE TakeEffect(Handler)
  <2>1. /\ step[Handler] = "told"
        /\ step'[Handler] = IF want[Handler] \in Closing THEN "test" ELSE "assign"
        /\ UNCHANGED <<m_output_file, disk>>
    BY <1>1, <1>4 DEF TakeEffect
  <2>2. want[Handler] \notin Closing => (Halted' => Halted)
    BY <1>4 DEF TakeEffect, Closing, Halted
  <2>3. ClosingNow => ClosingNow'
    BY <1>2, <2>1 DEF ClosingNow
  <2>4. want[Handler] \in Closing => ClosingNow'
    BY <1>2, <2>1 DEF ClosingNow
  <2>5. want[Handler] \in Removing => RemovingNow'
    BY <1>2, <2>1 DEF RemovingNow, Removing, Closing
  <2>6. want[Handler] \notin Removing =>
          (m_canceled' => m_canceled) /\ failed' = failed
    <3>1. want[Handler] \notin Removing => (m_canceled' => m_canceled)
      BY <1>4 DEF TakeEffect, Removing
    <3>2. want[Handler] \notin Removing => failed' = failed
      BY <1>3, <1>4 DEF TakeEffect, Removing
    <3> QED
      BY <3>1, <3>2
  <2>7. ~RemovingNow
    BY <2>1 DEF RemovingNow
  <2>8. CarefulFile /\ failed' > 0 => m_error # "none"
    BY <1>3, <1>4, <2>1 DEF TakeEffect
  <2> QED
    BY <1>2, <2>1, <2>2, <2>3, <2>4, <2>5, <2>6, <2>7, <2>8
<1>5. CASE TestStream(Handler)
  <2>1. /\ step[Handler] = "test"
        /\ step'[Handler] = IF m_output_file = "null" THEN AfterStream(Handler)
                                                      ELSE "close"
        /\ UNCHANGED <<m_output_file, disk, m_paused, m_canceled, failed>>
    BY <1>1, <1>5 DEF TestStream
  <2>2. m_output_file # "null" /\ ClosingNow => ClosingNow'
    BY <1>2, <2>1 DEF ClosingNow
  <2>3. RemovingNow => RemovingNow'
    BY <1>2, <2>1 DEF RemovingNow, AfterStream
  <2>4. step'[Handler] # "told"
    BY <2>1 DEF AfterStream
  <2> QED
    BY <1>2, <2>1, <2>2, <2>3, <2>4 DEF Halted
<1>6. CASE CloseStream(Handler)
  <2>1. /\ step[Handler] = "close"
        /\ step'[Handler] = IF m_output_file = "null" THEN "stuck" ELSE "reset"
        /\ m_output_file = "null" => m_output_file' = "null"
        /\ UNCHANGED <<disk, m_paused, m_canceled, failed>>
    BY <1>1, <1>6 DEF CloseStream
  <2>2. CarefulFile => m_output_file # "null"
    BY <2>1 DEF StreamInv
  <2>3. CarefulFile /\ ClosingNow => ClosingNow'
    BY <1>2, <2>1, <2>2 DEF ClosingNow
  <2>4. CarefulFile /\ RemovingNow => RemovingNow'
    BY <1>2, <2>1, <2>2 DEF RemovingNow
  <2> QED
    BY <1>2, <2>1, <2>2, <2>3, <2>4 DEF Halted
<1>7. CASE ResetStream(Handler)
  <2>1. /\ step[Handler] = "reset"
        /\ step'[Handler] = AfterStream(Handler)
        /\ m_output_file' = "null"
        /\ UNCHANGED <<disk, m_paused, m_canceled, failed>>
    BY <1>1, <1>7 DEF ResetStream
  <2>2. RemovingNow => RemovingNow'
    BY <1>2, <2>1 DEF RemovingNow, AfterStream
  <2>3. step'[Handler] # "told"
    BY <2>1 DEF AfterStream
  <2> QED
    BY <1>2, <2>1, <2>2, <2>3 DEF Halted
<1>8. CASE RemoveFile(Handler)
  <2>1. /\ step[Handler] = "remove" /\ step'[Handler] = "assign"
        /\ disk' = NoFile
        /\ UNCHANGED <<m_output_file, m_paused, m_canceled, failed>>
    BY <1>1, <1>8 DEF RemoveFile
  <2>2. ~ClosingNow
    BY <2>1 DEF ClosingNow
  <2> QED
    BY <1>2, <2>1, <2>2 DEF Halted
<1>9. CASE AssignStatus(Handler)
  <2>1. /\ step[Handler] = "assign" /\ step'[Handler] = "idle"
        /\ UNCHANGED <<m_output_file, disk, m_paused, m_canceled, failed>>
    BY <1>1, <1>9 DEF AssignStatus
  <2>2. ~ClosingNow /\ ~RemovingNow
    BY <2>1 DEF ClosingNow, RemovingNow
  <2> QED
    BY <1>2, <2>1, <2>2 DEF Halted
<1> QED
  BY <1>4, <1>5, <1>6, <1>7, <1>8, <1>9 DEF SetStatusNext

\* addResponseData() runs only while nothing has halted or failed the request.
LEMMA AddingKeepsFile ==
  ASSUME OutcomeInv, StreamInv, FileInv, AddNext, UNCHANGED exchangeVars
  PROVE  FileInv'
<1> USE HandlerAndUsers DEF exchangeVars
<1>1. pcH = "stored" /\ step[Handler] = "idle" /\ m_error = "none" /\ pcW # "idle"
  BY DEF AddNext, AddToMemory, RefuseEmptyPath, OpenStream, CheckStream, WriteFile,
         OutcomeInv, AddingAgrees
<1>2. UNCHANGED <<setting, m_paused, m_canceled, failed, pcH>>
  BY DEF AddNext, AddToMemory, RefuseEmptyPath, OpenStream, CheckStream, WriteFile
<1>3. setting.output # "file" => disk' = disk
  BY DEF AddNext, AddToMemory, RefuseEmptyPath, OpenStream, CheckStream, WriteFile,
         StreamInv
<1>4. \/ UNCHANGED <<m_error, step, want>>
      \/ /\ SetError
         /\ pcW' = "idle"
  BY DEF AddNext, AddToMemory, RefuseEmptyPath, OpenStream, CheckStream, WriteFile
<1>5. CarefulFile => ~Halted /\ ~(failed > 0)
  BY <1>1 DEF FileInv
<1>6. CASE UNCHANGED <<m_error, step, want>>
  BY <1>1, <1>2, <1>3, <1>5, <1>6 DEF FileInv, CarefulFile, Halted
<1>7. CASE SetError /\ pcW' = "idle"
  <2>1. /\ m_error' # "none"
        /\ step'[Handler] = "told" /\ want'[Handler] = "ERROR"
    BY <1>7, StepOfOthers DEF SetError, OutcomeInv, Statuses
  <2>2. ClosingNow'
    BY <2>1 DEF ClosingNow, Closing
  <2> QED
    BY <1>1, <1>2, <1>3, <1>5, <1>7, <2>1, <2>2 DEF FileInv, CarefulFile, Halted
<1> QED
  BY <1>4, <1>6, <1>7

\* The users of a careful client leave a request with a file alone.
LEMMA UserKeepsFile ==
  ASSUME OutcomeInv, StreamInv, FileInv, NEW u \in Users,
         \/ SetStatusNext(u) /\ UNCHANGED exchangeVars
         \/ \E status \in UserCalls : UserCall(u, status)
  PROVE  FileInv'
<1> USE HandlerAndUsers
<1>1. CASE SetStatusNext(u)
  <2>1. step[u] # "idle" /\ setting' = setting
    BY <1>1 DEF SetStatusNext, TakeEffect, TestStream, CloseStream, ResetStream,
                RemoveFile, AssignStatus
  <2>2. ~CarefulFile
    BY <2>1 DEF StreamInv, CarefulFile
  <2>3. disk' = disk \/ disk' = NoFile
    BY <1>1 DEF SetStatusNext, TakeEffect, TestStream, CloseStream, ResetStream,
                RemoveFile, AssignStatus
  <2> QED
    BY <2>1, <2>2, <2>3 DEF FileInv, CarefulFile
<1>2. CASE \E status \in UserCalls : UserCall(u, status)
  BY <1>2 DEF UserCall, FileInv, CarefulFile
<1> QED
  BY <1>1, <1>2

LEMMA FileStep == OutcomeInv /\ StreamInv /\ FileInv /\ [ExchangeNext]_vars => FileInv'
<1> SUFFICES ASSUME OutcomeInv, StreamInv, FileInv, [ExchangeNext]_vars PROVE FileInv'
  OBVIOUS
<1>1. CASE (AddNext \/ SetStatusNext(Handler)) /\ UNCHANGED exchangeVars
  BY <1>1, AddingKeepsFile, HandlerKeepsFile
<1>2. CASE \/ Start \/ ConnectTurn \/ WriteTurn \/ WrittenTcp \/ WrittenHttp
           \/ HeadersTurn \/ BodyTurn \/ ChunkTurn \/ Stored \/ Complete
           \/ SizeTurn \/ SizeTurnPartial \/ TailRead \/ Quit \/ SocketFails
           \/ HandledAgain
           \/ \E status \in UserCalls : CallInCallback(status)
  BY <1>2, StepKinds, ExchangeFrame, ExchangeKeepsFile
<1>3. CASE \E u \in Users : \/ SetStatusNext(u) /\ UNCHANGED exchangeVars
                            \/ \E status \in UserCalls : UserCall(u, status)
  BY <1>3, UserKeepsFile
<1>4. CASE StopCancels
  BY <1>4, ExchangeFrame, ExchangeKeepsFile
<1>5. CASE UNCHANGED vars
  BY <1>5 DEF vars, requestVars, exchangeVars, FileInv, CarefulFile, ClosingNow,
              RemovingNow, Halted
<1> QED
  BY <1>1, <1>2, <1>3, <1>4, <1>5 DEF ExchangeNext, HandlerNext, UserNext

\* The Handler has a stream only while nothing has ended the request, and a file that
\* is to be removed is removed before the call that does so ends.
THEOREM FileInvHolds == ExchangeSpec => []FileInv
<1> QED
  BY FileInit, FileStep, OutcomeInvHolds, StreamInvHolds, PTL DEF ExchangeSpec

\* setStatus(): with a careful client a request that failed or was canceled leaves no
\* file behind, also when stop() canceled it, and no request leaves a stream.
THEOREM NoRemainsAlways == ExchangeSpec => []NoRemains
<1>1. OutcomeInv /\ StreamInv /\ FileInv => NoRemains
  <2> SUFFICES ASSUME OutcomeInv, StreamInv, FileInv, setting.careful, AtRest
               PROVE  /\ m_output_file = "null"
                      /\ failed > 0 \/ m_canceled => disk = NoFile
    BY DEF NoRemains
  <2>1. pcH = "returned" /\ step[Handler] = "idle"
    BY DEF AtRest, Ended, HandlerFree
  <2>2. ~ClosingNow /\ ~RemovingNow
    BY <2>1 DEF ClosingNow, RemovingNow
  <2>3. CASE setting.output # "file"
    BY <2>3 DEF StreamInv, FileInv
  <2>4. CASE setting.output = "file"
    BY <2>1, <2>2, <2>4 DEF FileInv, CarefulFile
  <2> QED
    BY <2>3, <2>4
<1> QED
  BY <1>1, FileInvHolds, StreamInvHolds, OutcomeInvHolds, PTL
-----------------------------------------------------------------------------
(* What is in the file of a careful client's request.                      *)

\* The places at which the exchange reads or is about to read a body.
LEMMA TextsInit == ExchangeInit => TextsInv
<1> SUFFICES ASSUME ExchangeInit PROVE TextsInv
  OBVIOUS
<1>1. net \in Seq(Tokens)
  BY ExchangeAssumption DEF ExchangeInit
<1>2. <<>> \in Seq(Tokens)
  BY EmptySeq
<1> QED
  BY <1>1, <1>2 DEF ExchangeInit, RequestInit, TextsInv

\* A turn that hands a piece to addResponseData().
Reads ==
  /\ pcH \in {"body", "chunk"} /\ HandlerFree /\ ~Halted
  /\ pcH' = "stored" /\ pcW' = "open"
  /\ piece' \in Seq(Tokens) /\ piece' # <<>>
  /\ received' = received \o piece'
  /\ net' \in Seq(Tokens)
  /\ UNCHANGED <<linked, setting, m_error, want, step, finished, failed>>

\* A step that does not.
ReadsNothing ==
  /\ UNCHANGED <<linked, setting, received, piece, pcW>>
  /\ net' \in Seq(Tokens)
  /\ pcH' \in {"body", "size", "chunk", "stored", "called", "tail"} =>
       ~(Framing = "length" /\ Body = <<>>)

LEMMA ReadPieceReads ==
  ASSUME TextsInv, BodyTurn \/ ChunkTurn
  PROVE  Reads
<1> USE DEF TextsInv
<1>1. PICK n \in 1..MaxFrame : /\ n <= Len(net)
                               /\ AddResponseData(SubSeq(net, 1, n))
                               /\ received' = received \o SubSeq(net, 1, n)
                               /\ net' = Left(net, n)
  BY DEF BodyTurn, ChunkTurn, ReadPiece
<1>2. n \in Nat /\ n # 0
  BY ExchangeAssumption
<1>3. /\ SubSeq(net, 1, n) \in Seq(Tokens)
      /\ Len(SubSeq(net, 1, n)) = n
      /\ net' \in Seq(Tokens)
  BY <1>1, <1>2, CutProperties DEF Left
<1>4. SubSeq(net, 1, n) # <<>>
  BY <1>2, <1>3, EmptySeq
<1>5. piece' = SubSeq(net, 1, n) /\ pcW' = "open"
  BY <1>1 DEF AddResponseData
<1> QED
  BY <1>1, <1>3, <1>4, <1>5 DEF BodyTurn, ChunkTurn, Turn, ReadPiece, Reads

LEMMA StepReads ==
  ASSUME TextsInv,
         \/ Start \/ ConnectTurn \/ WriteTurn \/ WrittenTcp \/ WrittenHttp
         \/ HeadersTurn \/ BodyTurn \/ ChunkTurn \/ Stored \/ Complete
         \/ SizeTurn \/ SizeTurnPartial \/ TailRead \/ Quit \/ SocketFails
         \/ HandledAgain \/ StopCancels
         \/ \E status \in UserCalls : CallInCallback(status)
  PROVE  Reads \/ ReadsNothing
<1> USE DEF requestVars, Turn, TextsInv, ReadsNothing
<1>1. CASE BodyTurn \/ ChunkTurn
  BY <1>1, ReadPieceReads
<1>2. CASE Start \/ ConnectTurn \/ WriteTurn \/ WrittenHttp
  BY <1>2 DEF Start, Break, ConnectTurn, WriteTurn, WrittenHttp
<1>3. CASE WrittenTcp
  BY <1>3 DEF WrittenTcp, Finish
<1>4. CASE HeadersTurn
  BY <1>4 DEF HeadersTurn, HeadersAre, HeadersEnd, HeadersBad, HeadersLength,
              HeadersLengthZero, HeadersChunked, HeadersUnframed, HeadersFailed,
              Finish, Break
<1>5. CASE Stored \/ Complete \/ Quit \/ SocketFails \/ StopCancels
  BY <1>5 DEF Stored, Complete, Quit, SocketFails, StopCancels, Finish, Break
<1>6. CASE SizeTurn
  <2>1. PICK i \in 2..Len(net) : net' = Left(net, i)
    BY <1>6 DEF SizeTurn
  <2>2. Len(net) \in Nat /\ i \in Nat /\ i <= Len(net)
    BY LenProperties
  <2>3. net' \in Seq(Tokens)
    BY <2>1, <2>2, CutProperties DEF Left
  <2> QED
    BY <1>6, <2>3 DEF SizeTurn
<1>7. CASE SizeTurnPartial
  <2>1. PICK n \in 1..Len(net) : net' = Left(net, n)
    BY <1>7 DEF SizeTurnPartial
  <2>2. Len(net) \in Nat /\ n \in Nat /\ n <= Len(net)
    BY LenProperties
  <2>3. net' \in Seq(Tokens)
    BY <2>1, <2>2, CutProperties DEF Left
  <2> QED
    BY <1>7, <2>3 DEF SizeTurnPartial
<1>8. CASE TailRead
  <2>1. PICK n \in 0..2 : n <= Len(net) /\ net' = Left(net, n)
    BY <1>8 DEF TailRead
  <2>2. net' \in Seq(Tokens)
    BY <2>1, CutProperties DEF Left
  <2> QED
    BY <1>8, <2>2 DEF TailRead
<1>9. CASE HandledAgain
  BY <1>9, ExchangeAssumption DEF HandledAgain
<1>10. CASE \E status \in UserCalls : CallInCallback(status)
  BY <1>10 DEF CallInCallback
<1> QED
  BY <1>1, <1>2, <1>3, <1>4, <1>5, <1>6, <1>7, <1>8, <1>9, <1>10

LEMMA ExchangeKeepsTexts ==
  ASSUME TextsInv, disk' = disk, Reads \/ ReadsNothing
  PROVE  TextsInv'
<1> USE DEF TextsInv, Framing, Body
<1>1. CASE Reads
  <2>1. received \o piece' \in Seq(Tokens)
    BY <1>1, ConcatProperties DEF Reads
  <2> QED
    BY <1>1, <2>1 DEF Reads
<1>2. CASE ReadsNothing
  BY <1>2 DEF ReadsNothing
<1> QED
  BY <1>1, <1>2

LEMMA AddingKeepsTexts ==
  ASSUME TextsInv, AddNext, UNCHANGED exchangeVars
  PROVE  TextsInv'
<1> USE DEF TextsInv, exchangeVars, Framing, Body
<1>1. UNCHANGED <<setting, piece>>
  BY DEF AddNext, AddToMemory, RefuseEmptyPath, OpenStream, CheckStream, WriteFile
<1>2. <<>> \in Seq(Tokens) /\ <<>> # NoFile
  BY EmptySeq, ExchangeAssumption
<1>3. disk' \in Seq(Tokens) \cup {NoFile} /\ (linked' => disk' # NoFile)
  <2>1. CASE AddToMemory \/ RefuseEmptyPath
    BY <2>1 DEF AddToMemory, RefuseEmptyPath
  <2>2. CASE disk' = <<>>
    BY <1>2, <2>2, Zenon
  <2>3. CASE OpenStream \/ CheckStream
    <3>1. UNCHANGED <<linked, disk>> \/ disk' = <<>> \/ (disk' = disk /\ disk # NoFile)
      BY <2>3 DEF OpenStream, CheckStream
    <3> QED
      BY <2>2, <3>1
  <2>4. CASE WriteFile
    <3>1. linked => disk \o piece \in Seq(Tokens)
      BY ConcatProperties
    <3> QED
      BY <2>4, <3>1, ExchangeAssumption DEF WriteFile
  <2> QED
    BY <2>1, <2>2, <2>3, <2>4 DEF AddNext
<1> QED
  BY <1>1, <1>3

LEMMA SettingKeepsTexts ==
  ASSUME TextsInv, NEW t \in Threads, SetStatusNext(t), UNCHANGED exchangeVars
  PROVE  TextsInv'
BY DEF SetStatusNext, TakeEffect, TestStream, CloseStream, ResetStream, RemoveFile,
       AssignStatus, TextsInv, exchangeVars, Framing, Body

LEMMA TextsStep == TextsInv /\ [ExchangeNext]_vars => TextsInv'
<1> SUFFICES ASSUME TextsInv, [ExchangeNext]_vars PROVE TextsInv'
  OBVIOUS
<1> USE HandlerAndUsers
<1>1. CASE (AddNext \/ SetStatusNext(Handler)) /\ UNCHANGED exchangeVars
  BY <1>1, AddingKeepsTexts, SettingKeepsTexts
<1>2. CASE \/ Start \/ ConnectTurn \/ WriteTurn \/ WrittenTcp \/ WrittenHttp
           \/ HeadersTurn \/ BodyTurn \/ ChunkTurn \/ Stored \/ Complete
           \/ SizeTurn \/ SizeTurnPartial \/ TailRead \/ Quit \/ SocketFails
           \/ HandledAgain \/ StopCancels
           \/ \E status \in UserCalls : CallInCallback(status)
  <2>1. disk' = disk
    BY <1>2, ExchangeFrame
  <2>2. Reads \/ ReadsNothing
    BY <1>2, StepReads
  <2> QED
    BY <2>1, <2>2, ExchangeKeepsTexts
<1>3. CASE \E status \in UserCalls, u \in Users : UserCall(u, status)
  BY <1>3 DEF UserCall, TextsInv, exchangeVars, Framing, Body
<1>4. CASE \E u \in Users : SetStatusNext(u) /\ UNCHANGED exchangeVars
  BY <1>4, SettingKeepsTexts
<1>5. CASE UNCHANGED vars
  BY <1>5 DEF vars, requestVars, exchangeVars, TextsInv, Framing, Body
<1> QED
  BY <1>1, <1>2, <1>3, <1>4, <1>5 DEF ExchangeNext, HandlerNext, UserNext

\* The tokens are tokens, and a body is read only where there is one.
THEOREM TextsInvHolds == ExchangeSpec => []TextsInv
<1> QED
  BY TextsInit, TextsStep, PTL DEF ExchangeSpec

LEMMA WrittenInit == ExchangeInit => WrittenInv
BY HandlerAndUsers DEF ExchangeInit, RequestInit, WrittenInv, Effective, CarefulFile

\* A piece is read while nothing has ended the request.
LEMMA ReadingIsClean ==
  ASSUME OutcomeInv, TextsInv, ~Halted, m_error = "none", setting.valid,
         pcH \in {"body", "chunk", "stored"}
  PROVE  finished = 0 /\ failed = 0 /\ Clean
<1> USE HandlerAndUsers
<1>1. Outcomes = 0 /\ finished \in Nat /\ failed \in Nat
  BY DEF OutcomeInv, OutcomesAgree, TextsInv
<1> QED
  BY <1>1 DEF Outcomes, Clean, Halted

LEMMA ReadingKeepsWritten ==
  ASSUME OutcomeInv, TextsInv, WrittenInv, Reads,
         UNCHANGED <<m_output_file, disk, m_paused, m_canceled>>
  PROVE  WrittenInv'
<1> USE DEF Reads, HandlerFree, CarefulFile
<1>1. setting.valid /\ m_error = "none"
  BY DEF OutcomeInv, AddingAgrees, BeforeBody
<1>2. Clean
  BY <1>1, ReadingIsClean
<1>3. CarefulFile => received = Got(disk)
  BY <1>2, ExchangeAssumption DEF WrittenInv, Got, TextsInv
<1> QED
  BY <1>3 DEF WrittenInv, Effective, Got, Halted

LEMMA RestKeepsWritten ==
  ASSUME OutcomeInv, WrittenInv, ReadsNothing, Silent \/ Announce \/ Conclude \/ StopCancels,
         UNCHANGED <<m_output_file, disk, m_paused, m_canceled>>
  PROVE  WrittenInv'
<1> USE HandlerAndUsers DEF ReadsNothing, CarefulFile, HandlerFree
<1>1. step[Handler] = "idle" /\ UNCHANGED <<finished, failed>>
  BY DEF Silent, Announce, Conclude, StopCancels
<1>2. step'[Handler] \in {"idle", "told"}
  <2>1. CASE Silent
    BY <1>1, <2>1 DEF Silent
  <2>2. CASE Announce
    BY <2>2, StepOfOthers DEF Announce, OutcomeInv
  <2>3. CASE Conclude
    BY <2>3, StepOfOthers DEF Conclude, SetError, OutcomeInv, Statuses
  <2>4. CASE StopCancels
    BY <2>4, StepOfOthers DEF StopCancels, OutcomeInv, Statuses
  <2> QED
    BY <2>1, <2>2, <2>3, <2>4
<1>3. Clean' => Clean
  BY <1>1 DEF Clean
<1> QED
  BY <1>1, <1>2, <1>3 DEF WrittenInv, Effective, Got, Halted

\* addResponseData() writes the piece to the file that has the path.
LEMMA AddingKeepsWritten ==
  ASSUME OutcomeInv, StreamInv, FileInv, TextsInv, WrittenInv, AddNext,
         UNCHANGED exchangeVars
  PROVE  WrittenInv'
<1> USE HandlerAndUsers DEF exchangeVars
<1>1. /\ pcH = "stored" /\ step[Handler] = "idle" /\ m_error = "none" /\ setting.valid
      /\ pcW # "idle"
  BY DEF AddNext, AddToMemory, RefuseEmptyPath, OpenStream, CheckStream, WriteFile,
         OutcomeInv, AddingAgrees, BeforeBody
<1>2. UNCHANGED <<setting, m_paused, m_canceled, finished, failed, piece>>
  BY DEF AddNext, AddToMemory, RefuseEmptyPath, OpenStream, CheckStream, WriteFile
<1>3. SUFFICES ASSUME CarefulFile PROVE WrittenInv'
  BY <1>2 DEF WrittenInv, CarefulFile
<1>4. ~Halted /\ finished = 0 /\ failed = 0 /\ Clean
  BY <1>1, <1>3, ReadingIsClean DEF FileInv
<1>5. /\ piece # <<>> /\ received = Got(disk) \o piece
      /\ m_output_file = "null" => disk = NoFile
      /\ m_output_file = "open" => linked
      /\ pcW = "write" => m_output_file = "open"
  BY <1>1, <1>3, <1>4 DEF WrittenInv
<1>6. CASE AddToMemory \/ RefuseEmptyPath
  BY <1>3, <1>6 DEF AddToMemory, RefuseEmptyPath, CarefulFile
<1>7. CASE OpenStream
  <2>1. UNCHANGED <<step, want>> /\ pcW' = "check"
    BY <1>7 DEF OpenStream
  <2>2. Got(disk)' = Got(disk)
    <3>1. disk' = disk \/ (disk = NoFile /\ disk' = <<>>)
      BY <1>5, <1>7 DEF OpenStream
    <3> QED
      BY <3>1, Zenon DEF Got
  <2>3. /\ m_output_file' # "null" \/ disk' = NoFile
        /\ m_output_file' = "open" => linked'
    BY <1>5, <1>7 DEF OpenStream
  <2> QED
    BY <1>1, <1>2, <1>5, <2>1, <2>2, <2>3 DEF WrittenInv, Effective
<1>8. CASE CheckStream
  <2>1. CASE SetError /\ m_output_file = "closed" /\ pcW' = "idle"
             /\ UNCHANGED streamVars
    <3>1. step'[Handler] = "told" /\ want'[Handler] = "ERROR"
      BY <2>1, StepOfOthers DEF SetError, OutcomeInv, Statuses
    <3> QED
      BY <2>1, <3>1 DEF WrittenInv, Effective, Clean
  <2>2. CASE pcW' = "write" /\ m_output_file' = "open" /\ linked'
             /\ (disk' = disk \/ (disk = NoFile /\ disk' = <<>>))
             /\ UNCHANGED callVars
    <3>1. Got(disk)' = Got(disk)
      BY <2>2, Zenon DEF Got
    <3> QED
      BY <1>1, <1>2, <1>5, <2>2, <3>1 DEF WrittenInv, Effective
  <2>3. CASE m_output_file = "null"
    BY <1>3, <1>8, <2>3 DEF CheckStream, StreamInv, CarefulFile
  <2> QED
    BY <1>5, <1>8, <2>1, <2>2, <2>3 DEF CheckStream
<1>9. CASE WriteFile
  <2>1. m_output_file = "open" /\ linked /\ disk # NoFile
    BY <1>5, <1>9 DEF WriteFile, TextsInv
  <2>2. /\ disk' = disk \o piece /\ pcW' = "idle"
        /\ UNCHANGED <<step, want, m_output_file, linked>>
    BY <1>9, <2>1 DEF WriteFile
  <2>3. disk' = received
    BY <1>5, <2>1, <2>2 DEF Got
  <2>4. received # <<>>
    BY <1>5, <2>1, ConcatEqualIffEmpty DEF Got, TextsInv
  <2> QED
    BY <1>1, <1>2, <2>1, <2>2, <2>3, <2>4 DEF WrittenInv, Effective
<1> QED
  BY <1>6, <1>7, <1>8, <1>9 DEF AddNext

\* setStatus() resets the stream after the flag or the outcome that says why, and
\* removes the file only of a request that failed or was canceled.
LEMMA HandlerKeepsWritten ==
  ASSUME OutcomeInv, HaltInv, StreamInv, FileInv, WrittenInv, SetStatusNext(Handler),
         UNCHANGED exchangeVars
  PROVE  WrittenInv'
<1> USE HandlerAndUsers DEF exchangeVars
<1>1. step \in [Threads -> {"idle", "told", "test", "close", "reset", "remove",
                            "assign", "stuck"}]
  BY DEF OutcomeInv, CallsAgree
<1>2. /\ UNCHANGED <<setting, want, m_error, piece, pcW>>
      /\ pcW = "idle"
  BY DEF SetStatusNext, TakeEffect, TestStream, CloseStream, ResetStream, RemoveFile,
         AssignStatus, OutcomeInv, AddingAgrees
<1>3. finished \in Nat /\ failed \in Nat /\ want[Handler] # "RESUMED"
  BY DEF OutcomeInv, OutcomesAgree, HaltInv
<1>4. SUFFICES ASSUME CarefulFile PROVE WrittenInv'
  BY <1>2 DEF WrittenInv, CarefulFile
<1>5. /\ Effective
      /\ m_output_file = "null" /\ disk # NoFile => Halted \/ failed > 0 \/ finished > 0
      /\ m_output_file = "open" => linked
      /\ Clean => disk = IF received = <<>> THEN NoFile ELSE received
  BY <1>2, <1>4 DEF WrittenInv
<1>6. CASE TakeEffect(Handler)
  <2>1. /\ step[Handler] = "told"
        /\ step'[Handler] = IF want[Handler] \in Closing THEN "test" ELSE "assign"
        /\ UNCHANGED <<m_output_file, linked, disk>>
    BY <1>1, <1>6 DEF TakeEffect
  <2>2. /\ Halted => Halted'
        /\ m_canceled => m_canceled'
        /\ want[Handler] = "CANCELED" => m_canceled'
        /\ want[Handler] = "PAUSED" => m_paused'
    <3>1. want[Handler] # "RESUMED"
      BY <1>3
    <3> QED
      BY <1>6, <3>1 DEF TakeEffect, Halted
  <2>3. /\ failed' = failed + (IF want[Handler] = "ERROR" THEN 1 ELSE 0)
        /\ finished' = finished + (IF want[Handler] = "DONE" THEN 1 ELSE 0)
    BY <1>6 DEF TakeEffect
  <2>4. /\ failed > 0 => failed' > 0
        /\ finished > 0 => finished' > 0
        /\ want[Handler] = "ERROR" => failed' > 0
        /\ want[Handler] = "DONE" => finished' > 0
        /\ failed' = 0 => failed = 0 /\ want[Handler] # "ERROR"
    BY <1>3, <2>3
  <2>5. Clean' => Clean
    BY <2>2, <2>4 DEF Clean
  <2>6. Effective'
    BY <1>2, <2>1, <2>2, <2>4 DEF Effective
  <2> QED
    BY <1>2, <1>5, <2>1, <2>2, <2>4, <2>5, <2>6 DEF WrittenInv
<1>7. ASSUME ~TakeEffect(Handler)
      PROVE  UNCHANGED <<m_paused, m_canceled, finished, failed>>
             /\ step[Handler] # "told"
  BY <1>7 DEF SetStatusNext, TestStream, CloseStream, ResetStream, RemoveFile,
              AssignStatus
<1>8. CASE TestStream(Handler)
  <2>1. /\ step[Handler] = "test"
        /\ step'[Handler] = IF m_output_file = "null" THEN AfterStream(Handler)
                                                      ELSE "close"
        /\ UNCHANGED <<m_output_file, linked, disk, m_paused, m_canceled, finished,
                       failed>>
    BY <1>1, <1>8 DEF TestStream
  <2>2. Effective'
    BY <1>2, <1>5, <2>1 DEF Effective, AfterStream
  <2>3. Clean' => Clean
    BY <2>1 DEF Clean
  <2> QED
    BY <1>2, <1>5, <2>1, <2>2, <2>3 DEF WrittenInv, Halted
<1>9. CASE CloseStream(Handler)
  <2>1. step[Handler] = "close" /\ m_output_file # "null"
    BY <1>4, <1>9 DEF CloseStream, StreamInv, CarefulFile
  <2>2. /\ step'[Handler] = "reset" /\ m_output_file' = "closed"
        /\ UNCHANGED <<linked, disk, m_paused, m_canceled, finished, failed>>
    BY <1>1, <1>9, <2>1 DEF CloseStream
  <2>3. Effective'
    BY <1>2, <1>5, <2>1, <2>2 DEF Effective
  <2>4. Clean' => Clean
    BY <2>1, <2>2 DEF Clean
  <2> QED
    BY <1>2, <1>5, <2>2, <2>3, <2>4 DEF WrittenInv
<1>10. CASE ResetStream(Handler)
  <2>1. /\ step[Handler] = "reset" /\ step'[Handler] = AfterStream(Handler)
        /\ m_output_file' = "null"
        /\ UNCHANGED <<linked, disk, m_paused, m_canceled, finished, failed>>
    BY <1>1, <1>10 DEF ResetStream
  <2>2. Halted' \/ failed' > 0 \/ finished' > 0
    BY <1>5, <2>1 DEF Effective, Closing, Halted
  <2>3. Effective'
    BY <1>2, <1>5, <2>1 DEF Effective, AfterStream
  <2>4. Clean' => Clean
    BY <2>1 DEF Clean
  <2> QED
    BY <1>2, <1>5, <2>1, <2>2, <2>3, <2>4 DEF WrittenInv
<1>11. CASE RemoveFile(Handler)
  <2>1. /\ step[Handler] = "remove" /\ step'[Handler] = "assign"
        /\ disk' = NoFile
        /\ UNCHANGED <<m_output_file, m_paused, m_canceled, finished, failed>>
    BY <1>1, <1>11 DEF RemoveFile
  <2>2. m_canceled \/ failed > 0
    BY <1>5, <2>1 DEF Effective, Removing
  <2>3. m_output_file = "null"
    <3>1. Halted \/ m_error # "none"
      BY <1>4, <2>2 DEF FileInv, Halted
    <3> QED
      BY <1>4, <2>1, <3>1 DEF FileInv, ClosingNow
  <2>4. ~Clean'
    BY <1>3, <2>1, <2>2 DEF Clean
  <2> QED
    BY <1>2, <2>1, <2>3, <2>4 DEF WrittenInv, Effective
<1>12. CASE AssignStatus(Handler)
  <2>1. /\ step[Handler] = "assign" /\ step'[Handler] = "idle"
        /\ UNCHANGED <<m_output_file, linked, disk, m_paused, m_canceled, finished,
                       failed>>
    BY <1>1, <1>12 DEF AssignStatus
  <2>2. Clean' => Clean
    BY <2>1 DEF Clean
  <2> QED
    BY <1>2, <1>5, <2>1, <2>2 DEF WrittenInv, Effective, Halted
<1> QED
  BY <1>6, <1>8, <1>9, <1>10, <1>11, <1>12 DEF SetStatusNext

LEMMA UserKeepsWritten ==
  ASSUME OutcomeInv, StreamInv, WrittenInv, NEW u \in Users,
         \/ SetStatusNext(u) /\ UNCHANGED exchangeVars
         \/ \E status \in UserCalls : UserCall(u, status)
  PROVE  WrittenInv'
<1> USE HandlerAndUsers
<1>1. setting' = setting
  BY DEF SetStatusNext, TakeEffect, TestStream, CloseStream, ResetStream, RemoveFile,
         AssignStatus, UserCall
<1>2. ~CarefulFile
  BY DEF SetStatusNext, TakeEffect, TestStream, CloseStream, ResetStream, RemoveFile,
         AssignStatus, UserCall, StreamInv, CarefulFile
<1> QED
  BY <1>1, <1>2 DEF WrittenInv, CarefulFile

LEMMA WrittenStep ==
  /\ OutcomeInv /\ HaltInv /\ StreamInv /\ FileInv /\ TextsInv
  /\ WrittenInv
  /\ [ExchangeNext]_vars
  => WrittenInv'
<1> SUFFICES ASSUME OutcomeInv, HaltInv, StreamInv, FileInv, TextsInv, WrittenInv,
                    [ExchangeNext]_vars
             PROVE  WrittenInv'
  OBVIOUS
<1>1. CASE (AddNext \/ SetStatusNext(Handler)) /\ UNCHANGED exchangeVars
  BY <1>1, AddingKeepsWritten, HandlerKeepsWritten
<1>2. CASE \/ Start \/ ConnectTurn \/ WriteTurn \/ WrittenTcp \/ WrittenHttp
           \/ HeadersTurn \/ BodyTurn \/ ChunkTurn \/ Stored \/ Complete
           \/ SizeTurn \/ SizeTurnPartial \/ TailRead \/ Quit \/ SocketFails
           \/ HandledAgain
           \/ \E status \in UserCalls : CallInCallback(status)
  BY <1>2, StepKinds, ExchangeFrame, StepReads, ReadingKeepsWritten, RestKeepsWritten
<1>3. CASE \E u \in Users : \/ SetStatusNext(u) /\ UNCHANGED exchangeVars
                            \/ \E status \in UserCalls : UserCall(u, status)
  BY <1>3, UserKeepsWritten
<1>4. CASE StopCancels
  BY <1>4, ExchangeFrame, StepReads, ReadingKeepsWritten, RestKeepsWritten
<1>5. CASE UNCHANGED vars
  BY <1>5 DEF vars, requestVars, exchangeVars, WrittenInv, CarefulFile, Effective,
              Clean, Halted, Got
<1> QED
  BY <1>1, <1>2, <1>3, <1>4, <1>5 DEF ExchangeNext, HandlerNext, UserNext

\* addResponseData(): the file of a careful client's request holds every byte that
\* was read, once and in its order, also when the request was paused in a callback,
\* unless it failed or was canceled.
THEOREM CarefulFileAlways == ExchangeSpec => []CarefulFileHoldsWhatWasRead
<1>1. WrittenInv => CarefulFileHoldsWhatWasRead
  <2> SUFFICES ASSUME WrittenInv, setting.careful, AtRest, setting.output = "file",
                      failed = 0, ~m_canceled
               PROVE  disk = IF received = <<>> THEN NoFile ELSE received
    BY DEF CarefulFileHoldsWhatWasRead, FileHoldsWhatWasRead
  <2>1. step[Handler] = "idle" /\ pcW = "idle"
    BY DEF AtRest, Ended, HandlerFree
  <2> QED
    BY <2>1 DEF WrittenInv, CarefulFile, Clean
<1>2. ExchangeSpec => []WrittenInv
  BY WrittenInit, WrittenStep, OutcomeInvHolds, HaltInvHolds, StreamInvHolds,
     FileInvHolds, TextsInvHolds, PTL DEF ExchangeSpec
<1> QED
  BY <1>1, <1>2, PTL

-----------------------------------------------------------------------------
(* Types.                                                                  *)

\* A line of digits is a number.
LEMMA NumberType ==
  ASSUME NEW digits \in Seq(Tokens)
  PROVE  Number(digits) \in Nat
<1> DEFINE N == Len(digits)
           next == [p \in Nat \X (1..N) |->
                      2 * p[1] + (IF digits[p[2]] = "1" THEN 1 ELSE 0)]
           value[n \in 0..N] ==
             IF n = 0 THEN 0
             ELSE 2 * value[n - 1] + (IF digits[n] = "1" THEN 1 ELSE 0)
<1>1. N \in Nat
  BY LenProperties
<1>2. next \in Steps(Nat, N)
  BY DEF Steps
<1>3. \A v \in Nat, n \in 1..N :
        next[<<v, n>>] = 2 * v + (IF digits[n] = "1" THEN 1 ELSE 0)
  OBVIOUS
<1> HIDE DEF N, next
<1>4. PICK f \in [0..N -> Nat] :
        f[0] = 0 /\ \A n \in 1..N : f[n] = next[<<f[n - 1], n>>]
  <2>1. CanFollow(N, Nat, 0, next)
    BY <1>1, <1>2, RecursionUpTo
  <2> QED
    BY <2>1 DEF CanFollow, Follows
<1>5. f = [n \in 0..N |->
             IF n = 0 THEN 0
             ELSE 2 * f[n - 1] + (IF digits[n] = "1" THEN 1 ELSE 0)]
  <2>1. ASSUME NEW n \in 0..N, n # 0
        PROVE  f[n] = 2 * f[n - 1] + (IF digits[n] = "1" THEN 1 ELSE 0)
    <3>1. n \in 1..N /\ n - 1 \in 0..N
      BY <1>1, <2>1
    <3>2. f[n - 1] \in Nat
      BY <3>1
    <3> QED
      BY <1>3, <1>4, <3>1, <3>2
  <2>2. f = [n \in 0..N |-> f[n]]
    OBVIOUS
  <2> QED
    BY <1>4, <2>1, <2>2
<1>6. value = [n \in 0..N |->
                 IF n = 0 THEN 0
                 ELSE 2 * value[n - 1] + (IF digits[n] = "1" THEN 1 ELSE 0)]
  BY <1>5
<1> HIDE DEF value
<1>7. \A n \in 0..N : value[n] \in Nat
  <2> DEFINE T == {n \in 0..N : value[n] \in Nat}
  <2>1. 0 \in T
    BY <1>1, <1>6
  <2>2. \A n \in 1..N : n - 1 \in T => n \in T
    <3> SUFFICES ASSUME NEW n \in 1..N, n - 1 \in T
                 PROVE  n \in T
      OBVIOUS
    <3>1. n \in 0..N /\ n # 0
      BY <1>1
    <3>2. value[n] = 2 * value[n - 1] + (IF digits[n] = "1" THEN 1 ELSE 0)
      BY <1>6, <3>1
    <3> QED
      BY <3>1, <3>2
  <2> HIDE DEF T
  <2>3. \A n \in 0..N : n \in T
    BY <1>1, <2>1, <2>2, InductionUpTo
  <2> QED
    BY <2>3 DEF T
<1>8. Number(digits) = value[N]
  BY DEF Number, value, N
<1> QED
  BY <1>1, <1>7, <1>8

\* A run of characters of one kind ends somewhere in the line.
LEMMA RunEndExists ==
  ASSUME NEW line \in Seq(Tokens), NEW a \in 0..Len(line), NEW chars
  PROVE  \E b \in a..Len(line) : RunEnds(line, a, b, chars)
<1> SUFFICES ASSUME \A b \in a..Len(line) : ~RunEnds(line, a, b, chars)
             PROVE  FALSE
  OBVIOUS
<1> DEFINE N == Len(line) - a
           T == {n \in 0..N : \A j \in (a + 1)..(a + n) : line[j] \in chars}
<1>1. Len(line) \in Nat /\ a \in Nat /\ N \in Nat
  BY LenProperties
<1>2. 0 \in T
  BY <1>1
<1>3. \A n \in 1..N : n - 1 \in T => n \in T
  <2> SUFFICES ASSUME NEW n \in 1..N, n - 1 \in T
               PROVE  n \in T
    OBVIOUS
  <2>1. a + (n - 1) \in a..Len(line) /\ a + (n - 1) < Len(line)
    BY <1>1
  <2>2. line[a + (n - 1) + 1] \in chars
    BY <2>1 DEF RunEnds
  <2>3. \A j \in (a + 1)..(a + n) : j = a + (n - 1) + 1 \/ j \in (a + 1)..(a + (n - 1))
    BY <1>1
  <2> QED
    BY <1>1, <2>2, <2>3
<1> HIDE DEF T
<1>4. N \in 0..N
  BY <1>1
<1>5. N \in T
  BY <1>1, <1>2, <1>3, <1>4, InductionUpTo
<1>6. Len(line) \in a..Len(line) /\ a + N = Len(line)
  BY <1>1
<1> QED
  BY <1>5, <1>6 DEF T, RunEnds

\* The first line of s, which ends with its i-th token, says a number.
LEMMA LineNumber ==
  ASSUME NEW s \in Seq(Tokens), NEW i \in 2..Len(s)
  PROVE  Number(Digits(SubSeq(s, 1, i))) \in Nat
<1> DEFINE line == SubSeq(s, 1, i)
           blanks == CHOOSE n \in 0..Len(line) : RunEnds(line, 0, n, {"\r", "\n"})
           end == CHOOSE n \in blanks..Len(line) : RunEnds(line, blanks, n, {"0", "1"})
<1>1. line \in Seq(Tokens)
  BY LenProperties, CutProperties
<1>2. Len(line) \in Nat
  BY <1>1, LenProperties
<1> HIDE DEF line
<1>3. blanks \in 0..Len(line)
  <2>1. \E n \in 0..Len(line) : RunEnds(line, 0, n, {"\r", "\n"})
    BY <1>1, <1>2, RunEndExists
  <2> QED
    BY <2>1
<1> HIDE DEF blanks
<1>4. end \in blanks..Len(line)
  <2>1. \E n \in blanks..Len(line) : RunEnds(line, blanks, n, {"0", "1"})
    BY <1>1, <1>3, RunEndExists
  <2> QED
    BY <2>1
<1> HIDE DEF end
<1>5. \A j \in (blanks + 1)..end : line[j] \in Tokens
  BY <1>1, <1>2, <1>3, <1>4, ElementOfSeq
<1>6. SubSeq(line, blanks + 1, end) \in Seq(Tokens)
  BY <1>2, <1>3, <1>4, <1>5, SubSeqProperties
<1>7. Digits(line) = SubSeq(line, blanks + 1, end)
  BY DEF Digits, blanks, end
<1> QED
  BY <1>6, <1>7, NumberType DEF line

\* The types that no invariant above states.
FlagTypes ==
  /\ m_status \in Statuses
  /\ m_error \in {"none", "error"}
  /\ m_paused \in BOOLEAN /\ m_canceled \in BOOLEAN

DataTypes ==
  /\ m_output_file \in {"null", "closed", "open"}
  /\ linked \in BOOLEAN
  /\ m_response \in Seq(Tokens) /\ m_bytes_read \in Nat
  /\ pcW \in {"idle", "open", "check", "write", "stuck"}
  /\ ub \subseteq {"stream", "headers"}

PlaceTypes ==
  /\ pcH \in {"start", "connect", "writing", "written", "headers", "body", "size",
             "chunk", "stored", "called", "tail", "last", "returned", "thrown",
             "stopped"}
  /\ unwritten \in 0..RequestSize
  /\ remain \in Nat

LEMMA TypesInit == ExchangeInit => FlagTypes /\ DataTypes /\ PlaceTypes
<1> SUFFICES ASSUME ExchangeInit PROVE FlagTypes /\ DataTypes /\ PlaceTypes
  OBVIOUS
<1>1. m_response \in Seq(Tokens)
  BY EmptySeq DEF ExchangeInit, RequestInit
<1>2. FlagTypes
  BY DEF ExchangeInit, RequestInit, FlagTypes, Statuses
<1>3. DataTypes
  BY <1>1 DEF ExchangeInit, RequestInit, DataTypes
<1>4. PlaceTypes
  BY DEF ExchangeInit, PlaceTypes
<1> QED
  BY <1>2, <1>3, <1>4

\* What setStatus() does, in any thread.
LEMMA SettingKeepsTypes ==
  ASSUME CallsAgree, FlagTypes, DataTypes, NEW t \in Threads, SetStatusNext(t)
  PROVE  FlagTypes' /\ DataTypes'
<1>1. want[t] \in Statuses
  BY DEF CallsAgree
<1>2. FlagTypes'
  <2>1. CASE TakeEffect(t)
    BY <2>1 DEF TakeEffect, FlagTypes
  <2>2. CASE AssignStatus(t)
    BY <1>1, <2>2 DEF AssignStatus, FlagTypes
  <2>3. CASE TestStream(t) \/ CloseStream(t) \/ ResetStream(t) \/ RemoveFile(t)
    BY <2>3 DEF TestStream, CloseStream, ResetStream, RemoveFile, FlagTypes
  <2> QED
    BY <2>1, <2>2, <2>3 DEF SetStatusNext
<1>3. DataTypes'
  BY DEF SetStatusNext, TakeEffect, TestStream, CloseStream, ResetStream, RemoveFile,
         AssignStatus, DataTypes
<1> QED
  BY <1>2, <1>3

LEMMA AddingKeepsTypes ==
  ASSUME TextsInv, FlagTypes, DataTypes, AddNext
  PROVE  FlagTypes' /\ DataTypes'
<1>1. FlagTypes'
  BY DEF AddNext, AddToMemory, RefuseEmptyPath, OpenStream, CheckStream, WriteFile,
         SetError, FlagTypes
<1>2. /\ m_response \o piece \in Seq(Tokens)
      /\ m_bytes_read + Len(piece) \in Nat
  BY ConcatProperties, LenProperties DEF TextsInv, DataTypes
<1>3. DataTypes'
  BY <1>2 DEF AddNext, AddToMemory, RefuseEmptyPath, OpenStream, CheckStream,
              WriteFile, DataTypes
<1> QED
  BY <1>1, <1>3

LEMMA ExchangeKeepsTypes ==
  ASSUME TextsInv, FlagTypes, DataTypes, PlaceTypes,
         \/ Start \/ ConnectTurn \/ WriteTurn \/ WrittenTcp \/ WrittenHttp
         \/ HeadersTurn \/ BodyTurn \/ ChunkTurn \/ Stored \/ Complete
         \/ SizeTurn \/ SizeTurnPartial \/ TailRead \/ Quit \/ SocketFails
         \/ HandledAgain \/ StopCancels
         \/ \E status \in UserCalls : CallInCallback(status)
  PROVE  FlagTypes' /\ DataTypes' /\ PlaceTypes'
<1> USE DEF requestVars, Turn
<1>1. /\ UNCHANGED <<m_output_file, m_paused, m_canceled>>
      /\ ub' \subseteq ub \cup {"headers"}
      /\ pcW' = pcW \/ pcW' = "open"
  BY ExchangeFrame
<1>2. /\ UNCHANGED <<m_status, linked, m_bytes_read>>
      /\ m_error' \in {m_error, "error"}
      /\ m_response' = m_response \/ m_response' = <<>>
  BY DEF Start, ConnectTurn, WriteTurn, WrittenTcp, WrittenHttp, HeadersTurn, HeadersAre,
         HeadersEnd, HeadersBad, HeadersLength, HeadersLengthZero, HeadersChunked,
         HeadersUnframed, HeadersFailed, BodyTurn, ChunkTurn, ReadPiece, Stored,
         Complete, SizeTurn, SizeTurnPartial, TailRead, Quit, SocketFails,
         HandledAgain, StopCancels, CallInCallback, Finish, Break, SetError
<1>3. m_response' \in Seq(Tokens)
  BY <1>2, EmptySeq DEF DataTypes
<1>4. FlagTypes' /\ DataTypes'
  BY <1>1, <1>2, <1>3 DEF FlagTypes, DataTypes
<1>5. PlaceTypes'
  <2> USE DEF PlaceTypes
  <2>1. Len(Body) \in Nat
    BY PeerAssumption, LenProperties DEF Body, TextsInv
  <2>2. CASE Start \/ ConnectTurn \/ WrittenTcp \/ WrittenHttp \/ Stored \/ Complete
               \/ SizeTurnPartial \/ TailRead \/ Quit \/ SocketFails \/ StopCancels
               \/ \E status \in UserCalls : CallInCallback(status)
    BY <2>1, <2>2 DEF Start, ConnectTurn, WrittenTcp, WrittenHttp, Stored, Complete,
         SizeTurnPartial, TailRead, Quit, SocketFails, StopCancels, CallInCallback,
         Finish, Break
  <2>3. CASE WriteTurn
    BY <2>3, ExchangeAssumption DEF WriteTurn
  <2>4. CASE HeadersTurn
    BY <2>1, <2>4 DEF HeadersTurn, HeadersAre, HeadersEnd, HeadersBad, HeadersLength,
         HeadersLengthZero, HeadersChunked, HeadersUnframed, HeadersFailed, Finish, Break
  <2>5. CASE BodyTurn \/ ChunkTurn
    <3>1. PICK n \in 1..MaxFrame : n <= remain /\ remain' = remain - n
      BY <2>5 DEF BodyTurn, ChunkTurn, ReadPiece
    <3>2. n \in Nat /\ remain \in Nat
      BY ExchangeAssumption
    <3>3. remain' \in Nat
      BY <3>1, <3>2
    <3> QED
      BY <2>5, <3>3 DEF BodyTurn, ChunkTurn, ReadPiece
  <2>6. CASE SizeTurn
    <3>1. PICK i \in 2..Len(net) : /\ remain' = Number(Digits(SubSeq(net, 1, i)))
                                   /\ pcH' \in {"thrown", "last", "chunk"}
      BY <2>6 DEF SizeTurn
    <3>2. remain' \in Nat
      BY <3>1, LineNumber DEF TextsInv
    <3> QED
      BY <2>6, <3>1, <3>2 DEF SizeTurn
  <2>7. CASE HandledAgain
    BY <2>7 DEF HandledAgain
  <2> QED
    BY <2>2, <2>3, <2>4, <2>5, <2>6, <2>7
<1> QED
  BY <1>4, <1>5

LEMMA TypesStep ==
  /\ OutcomeInv /\ TextsInv /\ FlagTypes /\ DataTypes /\ PlaceTypes
  /\ [ExchangeNext]_vars
  => FlagTypes' /\ DataTypes' /\ PlaceTypes'
<1> SUFFICES ASSUME OutcomeInv, TextsInv, FlagTypes, DataTypes, PlaceTypes,
                    [ExchangeNext]_vars
             PROVE  FlagTypes' /\ DataTypes' /\ PlaceTypes'
  OBVIOUS
<1> USE HandlerAndUsers
<1>1. ASSUME UNCHANGED exchangeVars
      PROVE  PlaceTypes'
  BY <1>1 DEF exchangeVars, PlaceTypes
<1>2. CASE (AddNext \/ SetStatusNext(Handler)) /\ UNCHANGED exchangeVars
  BY <1>1, <1>2, AddingKeepsTypes, SettingKeepsTypes DEF OutcomeInv
<1>3. CASE \/ Start \/ ConnectTurn \/ WriteTurn \/ WrittenTcp \/ WrittenHttp
           \/ HeadersTurn \/ BodyTurn \/ ChunkTurn \/ Stored \/ Complete
           \/ SizeTurn \/ SizeTurnPartial \/ TailRead \/ Quit \/ SocketFails
           \/ HandledAgain \/ StopCancels
           \/ \E status \in UserCalls : CallInCallback(status)
  BY <1>3, ExchangeKeepsTypes
<1>4. CASE \E status \in UserCalls, u \in Users : UserCall(u, status)
  BY <1>1, <1>4 DEF UserCall, FlagTypes, DataTypes
<1>5. CASE \E u \in Users : SetStatusNext(u) /\ UNCHANGED exchangeVars
  BY <1>1, <1>5, SettingKeepsTypes DEF OutcomeInv
<1>6. CASE UNCHANGED vars
  BY <1>6 DEF vars, requestVars, exchangeVars, FlagTypes, DataTypes, PlaceTypes
<1> QED
  BY <1>2, <1>3, <1>4, <1>5, <1>6 DEF ExchangeNext, HandlerNext, UserNext

THEOREM TypesHold == ExchangeSpec => [](FlagTypes /\ DataTypes /\ PlaceTypes)
<1> QED
  BY TypesInit, TypesStep, OutcomeInvHolds, TextsInvHolds, PTL DEF ExchangeSpec

\* The types of a request's members and of what its exchange keeps, the number that
\* a line of a chunk's size says among them.
THEOREM ExchangeTypeCorrect == ExchangeSpec => []ExchangeTypeOK
<1>1. /\ OutcomeInv /\ TextsInv /\ FlagTypes /\ DataTypes /\ PlaceTypes
      => ExchangeTypeOK
  BY DEF OutcomeInv, OutcomesAgree, CallsAgree, TextsInv, FlagTypes, DataTypes,
         PlaceTypes, ExchangeTypeOK, RequestTypeOK
<1> QED
  BY <1>1, TypesHold, OutcomeInvHolds, TextsInvHolds, PTL
-----------------------------------------------------------------------------
(* What is read of the body.                                               *)

\* Nothing of the reply has been read, and what of the body has not.
Fresh == received = <<>> /\ net = setting.reply.stream
Missing == Left(Body, Len(received))

\* Where an exchange can be: it comes to the body only by the framing of its reply,
\* and one that is handled again was canceled and does not come there.
Placed ==
  /\ pcH = "stopped" =>
       m_canceled \/ (step[Handler] = "told" /\ want[Handler] = "CANCELED")
  /\ pcH \in {"start", "connect"} => Fresh \/ m_canceled
  /\ pcH \in {"writing", "written", "headers"} => Fresh
  /\ pcH = "body" => Framing \in {"tcp", "length"}
  /\ pcH \in {"size", "chunk", "tail"} => Framing = "chunked"
  /\ pcH \in {"stored", "called"} => Framing \in {"tcp", "length", "chunked"}

\* What of the body or of the chunk is still to be read follows in the stream.
Ahead ==
  /\ Carries(net, Missing, remain)
  /\ IF Framing = "chunked"
       THEN remain + 2 <= Len(net) =>
              [stream |-> Left(net, remain + 2), body |-> Left(Missing, remain)]
                \in Chunkings
       ELSE remain = Len(Missing)

Done == finished > 0 \/ (step[Handler] = "told" /\ want[Handler] = "DONE")

\* What was read of a punctual peer's reply is the beginning of its body, and all of
\* it where the exchange has come to its end.
BodyInv ==
  setting.punctual =>
    /\ Carries(received, Body, Len(received))
    /\ pcH = "size" => [stream |-> net, body |-> Missing] \in Chunkings
    /\ pcH \in {"body", "chunk", "stored", "called", "tail"} => Ahead
    /\ pcH = "tail" => remain = 0
    /\ pcH = "last" => received = Body
    /\ Done => received = Body /\ pcH \in {"last", "returned"}

\* What is in memory is what was read but for the piece that is being added.
MemoryInv ==
  setting.output = "memory" =>
    /\ m_bytes_read = Len(m_response)
    /\ pcW = "idle" => m_response = received
    /\ pcW # "idle" => pcW = "open" /\ received = m_response \o piece
LEMMA LeftProperties ==
  ASSUME NEW s \in Seq(Tokens), NEW n \in 0..Len(s)
  PROVE  /\ Left(s, n) \in Seq(Tokens)
         /\ Len(Left(s, n)) = Len(s) - n
         /\ \A j \in 1..(Len(s) - n) : Left(s, n)[j] = s[n + j]
<1>1. Len(s) \in Nat /\ n \in Nat /\ n <= Len(s)
  BY LenProperties
<1>2. \A j \in (n + 1)..Len(s) : s[j] \in Tokens
  BY <1>1, ElementOfSeq
<1>3. /\ Left(s, n) \in Seq(Tokens)
      /\ Len(Left(s, n)) = IF n + 1 <= Len(s) THEN Len(s) - (n + 1) + 1 ELSE 0
      /\ \A j \in 1..(Len(s) - (n + 1) + 1) : Left(s, n)[j] = s[n + 1 + j - 1]
  BY <1>1, <1>2, SubSeqProperties DEF Left
<1> QED
  BY <1>1, <1>3

LEMMA LeftOfLeft ==
  ASSUME NEW s \in Seq(Tokens), NEW a \in Nat, NEW b \in Nat, a + b <= Len(s)
  PROVE  Left(Left(s, a), b) = Left(s, a + b)
<1> DEFINE t == Left(s, a)
           x == Left(t, b)
           y == Left(s, a + b)
<1>1. Len(s) \in Nat /\ a \in 0..Len(s) /\ a + b \in 0..Len(s)
  BY LenProperties
<1>2. /\ t \in Seq(Tokens)
      /\ Len(t) = Len(s) - a
      /\ \A j \in 1..(Len(s) - a) : t[j] = s[a + j]
  BY <1>1, LeftProperties
<1>3. /\ y \in Seq(Tokens)
      /\ Len(y) = Len(s) - (a + b)
      /\ \A j \in 1..(Len(s) - (a + b)) : y[j] = s[(a + b) + j]
  BY <1>1, LeftProperties
<1> HIDE DEF t, y
<1>4. /\ x \in Seq(Tokens)
      /\ Len(x) = Len(t) - b
      /\ \A j \in 1..(Len(t) - b) : x[j] = t[b + j]
  <2>1. b \in 0..Len(t)
    BY <1>1, <1>2
  <2> QED
    BY <1>2, <2>1, LeftProperties
<1> HIDE DEF x
<1>5. Len(x) = Len(y)
  BY <1>1, <1>2, <1>3, <1>4
<1>6. \A j \in 1..Len(x) : x[j] = y[j]
  BY <1>1, <1>2, <1>3, <1>4
<1>7. x = y
  BY <1>3, <1>4, <1>5, <1>6, SeqEqual
<1> QED
  BY <1>7 DEF x, y, t

LEMMA NothingTaken ==
  ASSUME NEW s \in Seq(Tokens)
  PROVE  Left(s, 0) = s
<1>1. Len(s) \in Nat /\ 0 \in 0..Len(s)
  BY LenProperties
<1>2. /\ Left(s, 0) \in Seq(Tokens)
      /\ Len(Left(s, 0)) = Len(s)
      /\ \A j \in 1..Len(s) : Left(s, 0)[j] = s[j]
  BY <1>1, LeftProperties
<1> QED
  BY <1>2, SeqEqual

\* What the stream carries of the body is still what it carries after a piece is read.
LEMMA CarriesOn ==
  ASSUME NEW s \in Seq(Tokens), NEW body \in Seq(Tokens), NEW r \in Nat,
         Carries(s, body, r), NEW n \in Nat, n <= r, n <= Len(s)
  PROVE  Carries(Left(s, n), Left(body, n), r - n)
<1>1. Len(s) \in Nat /\ Len(body) \in Nat /\ r <= Len(body)
  BY LenProperties DEF Carries
<1>2. /\ Len(Left(s, n)) = Len(s) - n
      /\ \A j \in 1..(Len(s) - n) : Left(s, n)[j] = s[n + j]
  <2>1. n \in 0..Len(s)
    BY <1>1
  <2> QED
    BY <2>1, LeftProperties
<1>3. /\ Len(Left(body, n)) = Len(body) - n
      /\ \A j \in 1..(Len(body) - n) : Left(body, n)[j] = body[n + j]
  <2>1. n \in 0..Len(body)
    BY <1>1
  <2> QED
    BY <2>1, LeftProperties
<1>4. ASSUME NEW j \in 1..(r - n), j <= Len(Left(s, n))
      PROVE  Left(s, n)[j] = Left(body, n)[j]
  <2>1. n + j \in 1..r /\ n + j <= Len(s)
    BY <1>1, <1>2, <1>4
  <2>2. s[n + j] = body[n + j]
    BY <2>1 DEF Carries
  <2>3. j \in 1..(Len(s) - n) /\ j \in 1..(Len(body) - n)
    BY <1>1, <1>2, <1>4
  <2> QED
    BY <1>2, <1>3, <2>2, <2>3
<1> QED
  BY <1>1, <1>3, <1>4 DEF Carries

\* The piece that is read is the next one of the body.
LEMMA PieceFits ==
  ASSUME NEW got \in Seq(Tokens), NEW body \in Seq(Tokens), NEW s \in Seq(Tokens),
         Carries(got, body, Len(got)), NEW r \in Nat,
         Carries(s, Left(body, Len(got)), r),
         NEW n \in Nat, n <= r, n <= Len(s)
  PROVE  /\ got \o SubSeq(s, 1, n) \in Seq(Tokens)
         /\ Len(got \o SubSeq(s, 1, n)) = Len(got) + n
         /\ Len(got) + n <= Len(body)
         /\ Carries(got \o SubSeq(s, 1, n), body, Len(got) + n)
<1> DEFINE p == SubSeq(s, 1, n)
           g == Len(got)
<1>1. g \in Nat /\ Len(s) \in Nat /\ Len(body) \in Nat /\ g <= Len(body)
  BY LenProperties DEF Carries
<1>2. p \in Seq(Tokens) /\ Len(p) = n /\ \A j \in 1..n : p[j] = s[j]
  <2>1. \A j \in 1..n : s[j] \in Tokens
    BY <1>1, ElementOfSeq
  <2>2. /\ p \in Seq(Tokens)
        /\ Len(p) = IF 1 <= n THEN n - 1 + 1 ELSE 0
        /\ \A j \in 1..(n - 1 + 1) : p[j] = s[1 + j - 1]
    BY <2>1, SubSeqProperties
  <2> QED
    BY <1>1, <2>2
<1>3. /\ Len(Left(body, g)) = Len(body) - g
      /\ \A j \in 1..(Len(body) - g) : Left(body, g)[j] = body[g + j]
  <2>1. g \in 0..Len(body)
    BY <1>1
  <2> QED
    BY <2>1, LeftProperties
<1>4. r <= Len(body) - g
  BY <1>3 DEF Carries
<1> HIDE DEF p
<1>5. /\ got \o p \in Seq(Tokens)
      /\ Len(got \o p) = g + n
      /\ \A j \in 1..(g + n) : (got \o p)[j] = IF j <= g THEN got[j] ELSE p[j - g]
  BY <1>2, ConcatProperties
<1>6. ASSUME NEW j \in 1..(g + n)
      PROVE  (got \o p)[j] = body[j]
  <2>1. CASE j <= g
    <3>1. j \in 1..g
      BY <1>1, <2>1
    <3>2. got[j] = body[j]
      BY <1>1, <2>1, <3>1 DEF Carries
    <3> QED
      BY <1>5, <2>1, <3>2
  <2>2. CASE ~(j <= g)
    <3>1. /\ j - g \in 1..n /\ j - g \in 1..r /\ j - g <= Len(s)
          /\ j - g \in 1..(Len(body) - g) /\ g + (j - g) = j
      BY <1>1, <1>4, <2>2
    <3>2. p[j - g] = s[j - g]
      BY <1>2, <3>1
    <3>3. s[j - g] = Left(body, g)[j - g]
      BY <3>1 DEF Carries
    <3>4. Left(body, g)[j - g] = body[j]
      BY <1>3, <3>1
    <3> QED
      BY <1>5, <2>2, <3>2, <3>3, <3>4
  <2> QED
    BY <2>1, <2>2
<1>7. g + n <= Len(body)
  BY <1>1, <1>4
<1>8. Carries(got \o p, body, g + n)
  BY <1>6, <1>7 DEF Carries
<1> QED
  BY <1>5, <1>7, <1>8 DEF p

LEMMA AllCarried ==
  ASSUME NEW got \in Seq(Tokens), NEW body \in Seq(Tokens),
         Carries(got, body, Len(got)), Len(Left(body, Len(got))) = 0
  PROVE  got = body
<1>1. Len(got) \in 0..Len(body) /\ Len(body) \in Nat
  BY LenProperties DEF Carries
<1>2. Len(got) = Len(body)
  BY <1>1, LeftProperties
<1>3. \A j \in 1..Len(got) : got[j] = body[j]
  BY <1>1 DEF Carries
<1> QED
  BY <1>2, <1>3, SeqEqual
LEMMA BodyInit == ExchangeInit => Placed /\ BodyInv /\ MemoryInv
<1> SUFFICES ASSUME ExchangeInit PROVE Placed /\ BodyInv /\ MemoryInv
  OBVIOUS
<1> USE HandlerAndUsers DEF ExchangeInit, RequestInit
<1>1. Body \in Seq(Tokens) /\ Len(Body) \in Nat
  BY PeerAssumption, LenProperties DEF Body
<1>2. Len(<<>>) = 0 /\ Len(received) = 0 /\ Len(m_response) = 0
  BY EmptySeq
<1>3. Placed
  BY DEF Placed, Fresh
<1>4. BodyInv
  BY <1>1, <1>2 DEF BodyInv, Carries, Done
<1>5. MemoryInv
  BY <1>2 DEF MemoryInv
<1> QED
  BY <1>3, <1>4, <1>5

LEMMA ExchangeKeepsPlaced ==
  ASSUME OutcomeInv, Placed,
         \/ Start \/ ConnectTurn \/ WriteTurn \/ WrittenTcp \/ WrittenHttp
         \/ HeadersTurn \/ BodyTurn \/ ChunkTurn \/ Stored \/ Complete
         \/ SizeTurn \/ SizeTurnPartial \/ TailRead \/ Quit \/ SocketFails
         \/ HandledAgain \/ StopCancels
         \/ \E status \in UserCalls : CallInCallback(status)
  PROVE  Placed'
<1> USE HandlerAndUsers DEF requestVars, Turn, Placed, Fresh, Framing
<1>1. CASE Start \/ ConnectTurn \/ WriteTurn \/ WrittenHttp
  BY <1>1 DEF Start, Break, ConnectTurn, WriteTurn, WrittenHttp, Halted
<1>2. CASE WrittenTcp
  BY <1>2 DEF WrittenTcp, Finish
<1>3. CASE HeadersTurn
  BY <1>3 DEF HeadersTurn, HeadersAre, HeadersEnd, HeadersBad, HeadersLength,
              HeadersLengthZero, HeadersChunked, HeadersUnframed, HeadersFailed,
              Finish, Break
<1>4. CASE BodyTurn \/ ChunkTurn
  BY <1>4 DEF BodyTurn, ChunkTurn, ReadPiece
<1>5. CASE Stored \/ Complete \/ Quit \/ SocketFails
  BY <1>5 DEF Stored, Complete, Quit, SocketFails, Finish, Break
<1>6. CASE SizeTurn \/ SizeTurnPartial \/ TailRead
  BY <1>6 DEF SizeTurn, SizeTurnPartial, TailRead
<1>7. CASE HandledAgain
  BY <1>7 DEF HandledAgain, HandlerFree
<1>8. CASE StopCancels
  <2>1. step'[Handler] = "told" /\ want'[Handler] = "CANCELED"
    BY <1>8, StepOfOthers DEF StopCancels, OutcomeInv, Statuses
  <2> QED
    BY <1>8, <2>1 DEF StopCancels
<1>9. CASE \E status \in UserCalls : CallInCallback(status)
  BY <1>9 DEF CallInCallback
<1> QED
  BY <1>1, <1>2, <1>3, <1>4, <1>5, <1>6, <1>7, <1>8, <1>9

\* Nothing else moves the exchange, and what is canceled stays so.
LEMMA RestKeepsPlaced ==
  ASSUME OutcomeInv, Placed, UNCHANGED exchangeVars,
         \/ AddNext
         \/ \E t \in Threads : SetStatusNext(t)
         \/ \E status \in UserCalls, u \in Users : UserCall(u, status)
  PROVE  Placed'
<1> USE HandlerAndUsers DEF exchangeVars
<1>1. setting' = setting /\ (m_canceled => m_canceled')
  <2>1. CASE AddNext
    BY <2>1 DEF AddNext, AddToMemory, RefuseEmptyPath, OpenStream, CheckStream,
         WriteFile
  <2>2. ASSUME NEW t \in Threads, TakeEffect(t)
        PROVE  setting' = setting /\ (m_canceled => m_canceled')
    BY <2>2, Zenon DEF TakeEffect
  <2>3. ASSUME NEW t \in Threads, SetStatusNext(t), ~TakeEffect(t)
        PROVE  UNCHANGED <<setting, m_canceled>>
    BY <2>3 DEF SetStatusNext, TestStream, CloseStream, ResetStream, RemoveFile,
         AssignStatus
  <2>4. CASE \E status \in UserCalls, u \in Users : UserCall(u, status)
    BY <2>4 DEF UserCall
  <2> QED
    BY <2>1, <2>2, <2>3, <2>4
<1>2. ASSUME pcH = "stopped", step[Handler] = "told", want[Handler] = "CANCELED"
      PROVE  m_canceled' \/ (step'[Handler] = "told" /\ want'[Handler] = "CANCELED")
  <2>1. CASE AddNext
    BY <1>2, <2>1 DEF AddNext, AddToMemory, RefuseEmptyPath, OpenStream, CheckStream,
         WriteFile, SetError, SetStatus
  <2>2. CASE SetStatusNext(Handler)
    BY <1>2, <2>2 DEF SetStatusNext, TakeEffect, TestStream, CloseStream, ResetStream,
         RemoveFile, AssignStatus
  <2>3. ASSUME NEW u \in Users, SetStatusNext(u)
        PROVE  step'[Handler] = "told" /\ want'[Handler] = "CANCELED"
    <3>1. /\ want' = want
          /\ \A s \in Threads \ {u} : step'[s] = step[s]
      BY <2>3 DEF SetStatusNext, TakeEffect, TestStream, CloseStream, ResetStream,
           RemoveFile, AssignStatus, OutcomeInv, CallsAgree
    <3> QED
      BY <1>2, <3>1
  <2>4. ASSUME NEW u \in Users, NEW status \in UserCalls, UserCall(u, status)
        PROVE  step'[Handler] = "told" /\ want'[Handler] = "CANCELED"
    <3>1. status \in Statuses /\ SetStatus(u, status)
      BY <2>4, ExchangeAssumption DEF UserCall, Statuses
    <3> QED
      BY <1>2, <3>1, StepOfOthers DEF OutcomeInv
  <2> QED
    BY <2>1, <2>2, <2>3, <2>4
<1> QED
  BY <1>1, <1>2 DEF Placed, Fresh, Framing

LEMMA PlacedStep == OutcomeInv /\ Placed /\ [ExchangeNext]_vars => Placed'
<1> SUFFICES ASSUME OutcomeInv, Placed, [ExchangeNext]_vars PROVE Placed'
  OBVIOUS
<1> USE HandlerAndUsers
<1>1. CASE \/ Start \/ ConnectTurn \/ WriteTurn \/ WrittenTcp \/ WrittenHttp
           \/ HeadersTurn \/ BodyTurn \/ ChunkTurn \/ Stored \/ Complete
           \/ SizeTurn \/ SizeTurnPartial \/ TailRead \/ Quit \/ SocketFails
           \/ HandledAgain \/ StopCancels
           \/ \E status \in UserCalls : CallInCallback(status)
  BY <1>1, ExchangeKeepsPlaced
<1>2. CASE \/ (AddNext \/ SetStatusNext(Handler)) /\ UNCHANGED exchangeVars
           \/ \E u \in Users : SetStatusNext(u) /\ UNCHANGED exchangeVars
           \/ \E status \in UserCalls, u \in Users : UserCall(u, status)
  <2>1. UNCHANGED exchangeVars
    BY <1>2 DEF UserCall
  <2> QED
    BY <1>2, <2>1, RestKeepsPlaced
<1>3. CASE UNCHANGED vars
  BY <1>3 DEF vars, requestVars, exchangeVars, Placed, Fresh, Framing
<1> QED
  BY <1>1, <1>2, <1>3 DEF ExchangeNext, HandlerNext, UserNext
\* The body of a setting, and what is left of it.
LEMMA BodyTypes ==
  ASSUME TextsInv
  PROVE  /\ Body \in Seq(Tokens) /\ Len(Body) \in Nat
         /\ net \in Seq(Tokens) /\ Len(net) \in Nat
         /\ received \in Seq(Tokens) /\ Len(received) \in Nat
         /\ Carries(received, Body, Len(received)) =>
              /\ Len(received) <= Len(Body)
              /\ Missing \in Seq(Tokens)
              /\ Len(Missing) = Len(Body) - Len(received)
<1>1. /\ Body \in Seq(Tokens) /\ Len(Body) \in Nat
      /\ net \in Seq(Tokens) /\ Len(net) \in Nat
      /\ received \in Seq(Tokens) /\ Len(received) \in Nat
  BY PeerAssumption, LenProperties DEF TextsInv, Body
<1>2. ASSUME Carries(received, Body, Len(received))
      PROVE  /\ Len(received) <= Len(Body)
             /\ Missing \in Seq(Tokens)
             /\ Len(Missing) = Len(Body) - Len(received)
  <2>1. Len(received) \in 0..Len(Body)
    BY <1>1, <1>2 DEF Carries
  <2> QED
    BY <1>1, <2>1, LeftProperties DEF Missing
<1> QED
  BY <1>1, <1>2

LEMMA ReadingKeepsBody ==
  ASSUME TextsInv, PlaceTypes, BodyInv, setting.punctual, BodyTurn \/ ChunkTurn
  PROVE  BodyInv'
<1>1. PICK n \in 1..MaxFrame : /\ n <= remain /\ n <= Len(net)
                               /\ received' = received \o SubSeq(net, 1, n)
                               /\ net' = Left(net, n)
                               /\ remain' = remain - n
  BY DEF BodyTurn, ChunkTurn, ReadPiece
<1>2. /\ pcH \in {"body", "chunk"} /\ pcH' = "stored"
      /\ UNCHANGED <<setting, finished, step, want>>
  BY DEF BodyTurn, ChunkTurn, ReadPiece, Turn
<1>3. Carries(received, Body, Len(received)) /\ Ahead /\ ~Done
  BY <1>2 DEF BodyInv
<1>4. /\ Body \in Seq(Tokens) /\ Len(Body) \in Nat
      /\ net \in Seq(Tokens) /\ Len(net) \in Nat
      /\ received \in Seq(Tokens) /\ Len(received) \in Nat
      /\ Missing \in Seq(Tokens)
      /\ Len(Missing) = Len(Body) - Len(received)
      /\ n \in Nat /\ remain \in Nat /\ remain' \in Nat
  BY <1>1, <1>3, BodyTypes, ExchangeAssumption DEF PlaceTypes
<1>5. Carries(net, Missing, remain) /\ remain <= Len(Missing)
  BY <1>3 DEF Ahead, Carries
<1>6. Body' = Body /\ Framing' = Framing
  BY <1>2 DEF Body, Framing
<1>7. /\ Len(received') = Len(received) + n
      /\ Len(received) + n <= Len(Body)
      /\ Carries(received', Body, Len(received'))
  BY <1>1, <1>3, <1>4, <1>5, PieceFits DEF Missing
<1>8. Missing' = Left(Missing, n) /\ Len(Missing') = Len(Missing) - n
  <2>1. Missing' = Left(Body, Len(received) + n)
    BY <1>6, <1>7 DEF Missing
  <2>2. Left(Missing, n) = Left(Body, Len(received) + n)
    BY <1>4, <1>7, LeftOfLeft DEF Missing
  <2>3. n \in 0..Len(Missing)
    BY <1>1, <1>4, <1>5
  <2> QED
    BY <1>4, <2>1, <2>2, <2>3, LeftProperties
<1>9. Carries(net', Missing', remain')
  BY <1>1, <1>4, <1>5, <1>8, CarriesOn
<1>10. ASSUME remain' + 2 <= Len(net'), Framing = "chunked"
       PROVE  [stream |-> Left(net', remain' + 2), body |-> Left(Missing', remain')]
                \in Chunkings
  <2>1. Len(net') = Len(net) - n
    <3>1. n \in 0..Len(net)
      BY <1>1, <1>4
    <3> QED
      BY <1>1, <1>4, <3>1, LeftProperties
  <2>2. remain' + 2 \in Nat /\ n + (remain' + 2) = remain + 2 /\ n + remain' = remain
    BY <1>1, <1>4
  <2>3. remain + 2 <= Len(net)
    <3>1. remain' + 2 <= Len(net) - n
      BY <1>10, <2>1
    <3>2. n \in Nat /\ remain' \in Nat /\ Len(net) \in Nat
      BY <1>4
    <3>3. \A a, b, c \in Nat : b + 2 <= c - a => a + (b + 2) <= c
      OBVIOUS
    <3>4. n + (remain' + 2) <= Len(net)
      BY <3>1, <3>2, <3>3
    <3> QED
      BY <2>2, <3>4
  <2>4. Left(net', remain' + 2) = Left(net, remain + 2)
    BY <1>1, <1>4, <2>2, <2>3, LeftOfLeft
  <2>5. Left(Missing', remain') = Left(Missing, remain)
    BY <1>4, <1>5, <1>8, <2>2, LeftOfLeft
  <2> QED
    BY <1>3, <1>10, <2>3, <2>4, <2>5 DEF Ahead
<1>11. ASSUME Framing # "chunked"
       PROVE  remain' = Len(Missing')
  BY <1>1, <1>3, <1>4, <1>8, <1>11 DEF Ahead
<1>12. Ahead'
  BY <1>6, <1>9, <1>10, <1>11 DEF Ahead
<1>13. ~Done'
  BY <1>2, <1>3 DEF Done
<1> QED
  BY <1>2, <1>6, <1>7, <1>12, <1>13 DEF BodyInv

LEMMA SizeKeepsBody ==
  ASSUME TextsInv, Placed, BodyInv, setting.punctual, SizeTurn
  PROVE  BodyInv'
<1> DEFINE digits(i) == Digits(SubSeq(net, 1, i))
<1>1. PICK i \in 2..Len(net) :
        /\ LineEnds(net, i)
        /\ net' = Left(net, i)
        /\ remain' = Number(digits(i))
        /\ pcH' = IF digits(i) = <<>> THEN "thrown"
                  ELSE IF Number(digits(i)) = 0 THEN "last" ELSE "chunk"
  BY DEF SizeTurn
<1> HIDE DEF digits
<1>2. /\ pcH = "size" /\ Framing = "chunked"
      /\ UNCHANGED <<setting, finished, step, want, received>>
  BY DEF SizeTurn, Turn, Placed, requestVars
<1>3. /\ Carries(received, Body, Len(received)) /\ ~Done
      /\ [stream |-> net, body |-> Missing] \in Chunkings
  BY <1>2 DEF BodyInv
<1>4. Body' = Body /\ Framing' = Framing /\ Missing' = Missing /\ ~Done'
  BY <1>2, <1>3 DEF Body, Framing, Missing, Done
<1>5. ASSUME digits(i) # <<>>
      PROVE  IsChunk([stream |-> net, body |-> Missing], i, remain')
  <2> DEFINE c == [stream |-> net, body |-> Missing]
  <2>1. c \in Chunkings /\ c.stream = net
    BY <1>3
  <2> HIDE DEF c
  <2>2. LineEnds(c.stream, i) /\ Digits(SubSeq(c.stream, 1, i)) # <<>> =>
          IsChunk(c, i, Number(Digits(SubSeq(c.stream, 1, i))))
    BY <2>1, PeerAssumption
  <2> QED
    BY <1>1, <1>5, <2>1, <2>2 DEF c, digits
<1>6. CASE pcH' = "last"
  <2>1. digits(i) # <<>> /\ remain' = 0
    BY <1>1, <1>6
  <2>2. Missing = <<>>
    BY <1>5, <2>1 DEF IsChunk
  <2>3. Len(Missing) = 0
    BY <2>2, EmptySeq
  <2>4. received = Body
    BY <1>3, <2>3, BodyTypes, AllCarried DEF Missing
  <2> QED
    BY <1>2, <1>3, <1>4, <1>6, <2>4 DEF BodyInv
<1>7. CASE pcH' = "chunk"
  <2>1. digits(i) # <<>> /\ remain' # 0
    BY <1>1, <1>7
  <2>2. /\ Carries(net', Missing, remain')
        /\ remain' + 2 <= Len(net') =>
             [stream |-> Left(net', remain' + 2), body |-> Left(Missing, remain')]
               \in Chunkings
    BY <1>1, <1>5, <2>1 DEF IsChunk
  <2>3. Ahead'
    BY <1>2, <1>4, <2>2 DEF Ahead
  <2> QED
    BY <1>2, <1>3, <1>4, <1>7, <2>3 DEF BodyInv
<1>8. CASE pcH' = "thrown"
  BY <1>2, <1>3, <1>4, <1>8 DEF BodyInv
<1> QED
  BY <1>1, <1>6, <1>7, <1>8

LEMMA TailKeepsBody ==
  ASSUME TextsInv, Placed, BodyInv, setting.punctual, TailRead
  PROVE  BodyInv'
<1>1. /\ net' = Left(net, 2) /\ 2 <= Len(net)
      /\ pcH = "tail" /\ pcH' = "size"
      /\ UNCHANGED <<setting, finished, step, want, received>>
  BY DEF TailRead, requestVars
<1>2. /\ Carries(received, Body, Len(received)) /\ ~Done
      /\ Ahead /\ remain = 0
  BY <1>1 DEF BodyInv
<1>3. Body' = Body /\ Missing' = Missing /\ ~Done'
  BY <1>1, <1>2 DEF Body, Missing, Done
<1>4. Left(Missing, 0) = Missing
  BY <1>2, BodyTypes, NothingTaken
<1>5. [stream |-> net', body |-> Missing'] \in Chunkings
  <2>1. 0 + 2 = 2
    OBVIOUS
  <2> QED
    BY <1>1, <1>2, <1>3, <1>4, <2>1 DEF Ahead, Placed
<1> QED
  BY <1>1, <1>2, <1>3, <1>5 DEF BodyInv

LEMMA StoredKeepsBody ==
  ASSUME TextsInv, PlaceTypes, Placed, BodyInv, setting.punctual, Stored
  PROVE  BodyInv'
<1>1. /\ pcH \in {"stored", "called"}
      /\ UNCHANGED <<setting, finished, step, want, received, net, remain>>
      /\ pcH' \in {"returned", "chunk", "body", "tail", "last"}
      /\ pcH' = "tail" => ~(remain > 0)
      /\ pcH' = "last" => ~(remain > 0) /\ Framing # "chunked"
  BY DEF Stored, requestVars
<1>2. /\ Carries(received, Body, Len(received)) /\ ~Done /\ Ahead
  BY <1>1 DEF BodyInv
<1>3. Body' = Body /\ Framing' = Framing /\ Missing' = Missing /\ ~Done'
  BY <1>1, <1>2 DEF Body, Framing, Missing, Done
<1>4. Ahead'
  BY <1>1, <1>2, <1>3 DEF Ahead
<1>5. pcH' = "tail" => remain' = 0
  BY <1>1 DEF PlaceTypes
<1>6. ASSUME pcH' = "last"
      PROVE  received' = Body
  <2>1. Len(Missing) = 0
    BY <1>1, <1>2, <1>6 DEF Ahead, PlaceTypes
  <2> QED
    BY <1>1, <1>2, <2>1, BodyTypes, AllCarried DEF Missing
<1> QED
  BY <1>1, <1>2, <1>3, <1>4, <1>5, <1>6 DEF BodyInv
\* Before anything is read, all of the body is ahead.
LEMMA FreshBody ==
  ASSUME TextsInv, Fresh
  PROVE  /\ Missing = Body
         /\ Framing \in {"tcp", "length"} => Carries(net, Missing, Len(Body))
         /\ Framing = "chunked" => [stream |-> net, body |-> Missing] \in Chunkings
         /\ Framing \in {"refused", "unchunked", "bad"} => Body = <<>>
<1>1. Len(received) = 0
  BY EmptySeq DEF Fresh
<1>2. Missing = Body
  BY <1>1, BodyTypes, NothingTaken DEF Missing
<1> QED
  BY <1>2, PeerAssumption DEF Fresh, TextsInv, Framing, Body

\* A step that reads nothing, and ends the exchange only where the body is there.
LEMMA QuietKeepsBody ==
  ASSUME BodyInv, setting.punctual, UNCHANGED <<setting, received>>,
         \/ pcH' \notin {"size", "body", "chunk", "stored", "called", "tail"}
         \/ UNCHANGED <<net, remain, pcH>>
         \/ UNCHANGED <<net, remain>> /\ pcH = "stored" /\ pcH' = "called",
         pcH' = "last" => received = Body,
         Done' => received = Body /\ pcH' \in {"last", "returned"}
  PROVE  BodyInv'
<1>1. Body' = Body /\ Framing' = Framing /\ Missing' = Missing
  BY DEF Body, Framing, Missing
<1>2. UNCHANGED <<net, remain>> => Ahead' = Ahead
  BY <1>1 DEF Ahead
<1> QED
  BY <1>1, <1>2 DEF BodyInv

\* A call that tells of no outcome.
LEMMA NotDone ==
  ASSUME OutcomeInv, ~Done, NEW status \in Statuses, status # "DONE",
         SetStatus(Handler, status), finished' = finished
  PROVE  ~Done'
BY HandlerAndUsers, StepOfOthers DEF Done, OutcomeInv

LEMMA StartingKeepsBody ==
  ASSUME OutcomeInv, TextsInv, Placed, BodyInv, setting.punctual,
         Start \/ ConnectTurn \/ WriteTurn \/ WrittenTcp \/ WrittenHttp
  PROVE  BodyInv'
<1> USE DEF requestVars
<1>1. /\ pcH \in {"start", "connect", "writing", "written"}
      /\ UNCHANGED <<setting, received, net, finished>>
  BY DEF Start, ConnectTurn, WriteTurn, WrittenTcp, WrittenHttp, Turn
<1>2. ~Done /\ Carries(received, Body, Len(received))
  BY <1>1 DEF BodyInv
<1>3. CASE WriteTurn
  <2>1. UNCHANGED <<step, want>> /\ pcH' \in {"writing", "written"}
    BY <1>3 DEF WriteTurn
  <2>2. ~Done'
    BY <1>1, <1>2, <2>1 DEF Done
  <2> QED
    BY <1>1, <2>1, <2>2, QuietKeepsBody
<1>4. CASE Start \/ ConnectTurn \/ WrittenHttp
  <2>1. PICK status \in {"PROCESSED", "WRITING", "READING", "ERROR"} :
          SetStatus(Handler, status)
    BY <1>4 DEF Start, ConnectTurn, WrittenHttp, Break, SetError
  <2>2. ~Done'
    BY <1>1, <1>2, <2>1, NotDone DEF Statuses
  <2>3. pcH' \in {"connect", "written", "writing", "headers", "returned"}
    BY <1>4 DEF Start, ConnectTurn, WrittenHttp, Break
  <2> QED
    BY <1>1, <2>2, <2>3, QuietKeepsBody
<1>5. CASE WrittenTcp
  <2>1. Fresh /\ Framing = "tcp" /\ remain' = Len(Body)
    BY <1>5 DEF WrittenTcp, Placed
  <2>2. CASE Body = <<>>
    <3>1. pcH' = "returned" /\ received = Body
      BY <1>5, <2>1, <2>2 DEF WrittenTcp, Finish, Fresh
    <3> QED
      BY <1>1, <3>1, QuietKeepsBody
  <2>3. CASE Body # <<>>
    <3>1. pcH' = "body" /\ UNCHANGED <<step, want>>
      BY <1>5, <2>3 DEF WrittenTcp
    <3>2. Body' = Body /\ Framing' = Framing /\ Missing' = Missing /\ ~Done'
      BY <1>1, <1>2, <3>1 DEF Body, Framing, Missing, Done
    <3>3. Ahead'
      BY <1>1, <2>1, <3>2, FreshBody DEF Ahead
    <3> QED
      BY <1>1, <1>2, <3>1, <3>2, <3>3 DEF BodyInv
  <2> QED
    BY <2>2, <2>3
<1> QED
  BY <1>3, <1>4, <1>5

LEMMA HeadersKeepBody ==
  ASSUME OutcomeInv, TextsInv, Placed, BodyInv, setting.punctual, HeadersTurn
  PROVE  BodyInv'
<1> USE DEF HeadersAre
<1>1. /\ pcH = "headers"
      /\ UNCHANGED <<setting, received, net, finished>>
  BY DEF HeadersTurn, HeadersEnd, HeadersBad, HeadersLength, HeadersLengthZero,
         HeadersChunked, HeadersUnframed, HeadersFailed, Turn
<1>2. ~Done /\ Fresh /\ Carries(received, Body, Len(received))
  BY <1>1 DEF BodyInv, Placed
<1>3. Body' = Body /\ Framing' = Framing /\ Missing' = Missing
  BY <1>1 DEF Body, Framing, Missing
<1>4. CASE HeadersEnd \/ HeadersBad
  <2>1. received = Body /\ pcH' \in {"returned", "thrown"}
    BY <1>2, <1>4, FreshBody DEF HeadersEnd, HeadersBad, Finish, Fresh
  <2>2. pcH' = "thrown" => ~Done'
    BY <1>1, <1>2, <1>4 DEF HeadersEnd, HeadersBad, Finish, Done
  <2> QED
    BY <1>1, <2>1, <2>2, QuietKeepsBody
<1>5. CASE HeadersLength
  <2>1. /\ Framing = "length" /\ remain' = Len(Body) /\ pcH' = "body"
        /\ SetStatus(Handler, "READING")
    BY <1>5 DEF HeadersLength
  <2>2. ~Done'
    BY <1>1, <1>2, <2>1, NotDone DEF Statuses
  <2>3. Ahead'
    BY <1>1, <1>2, <1>3, <2>1, FreshBody DEF Ahead
  <2> QED
    BY <1>1, <1>2, <1>3, <2>1, <2>2, <2>3 DEF BodyInv
<1>6. CASE HeadersLengthZero
  <2>1. received = Body /\ pcH' = "last"
    BY <1>2, <1>6 DEF HeadersLengthZero, Fresh
  <2> QED
    BY <1>1, <2>1, QuietKeepsBody
<1>7. CASE HeadersChunked
  <2>1. Framing = "chunked" /\ pcH' = "size" /\ UNCHANGED <<step, want>>
    BY <1>7 DEF HeadersChunked
  <2>2. ~Done'
    BY <1>1, <1>2, <2>1 DEF Done
  <2> QED
    BY <1>1, <1>2, <1>3, <2>1, <2>2, FreshBody DEF BodyInv
<1>8. CASE HeadersUnframed
  <2>1. pcH' = "returned" /\ SetStatus(Handler, "ERROR")
    BY <1>8 DEF HeadersUnframed, Break, SetError
  <2>2. ~Done'
    BY <1>1, <1>2, <2>1, NotDone DEF Statuses
  <2> QED
    BY <1>1, <2>1, <2>2, QuietKeepsBody
<1>9. CASE HeadersFailed
  <2>1. pcH' = "returned" /\ UNCHANGED <<step, want>>
    BY <1>9 DEF HeadersFailed
  <2>2. ~Done'
    BY <1>1, <1>2, <2>1 DEF Done
  <2> QED
    BY <1>1, <2>1, <2>2, QuietKeepsBody
<1> QED
  BY <1>4, <1>5, <1>6, <1>7, <1>8, <1>9 DEF HeadersTurn

LEMMA EndingKeepsBody ==
  ASSUME OutcomeInv, BodyInv, setting.punctual,
         \/ Complete \/ Quit \/ SocketFails \/ HandledAgain \/ StopCancels
         \/ \E status \in UserCalls : CallInCallback(status)
  PROVE  BodyInv'
<1> USE DEF requestVars
<1>1. UNCHANGED <<setting, received, finished>>
  BY DEF Complete, Quit, SocketFails, HandledAgain, StopCancels, CallInCallback
<1>2. CASE Complete
  <2>1. received = Body /\ pcH' = "returned"
    BY <1>2 DEF Complete, Finish, BodyInv
  <2> QED
    BY <1>1, <2>1, QuietKeepsBody
<1>3. CASE Quit \/ HandledAgain
  <2>1. pcH \in Loops \cup {"stopped"} /\ pcH' \in {"returned", "start"}
        /\ UNCHANGED <<step, want>>
    BY <1>3 DEF Quit, HandledAgain
  <2>2. ~Done'
    BY <1>1, <2>1 DEF Done, BodyInv, Loops
  <2> QED
    BY <1>1, <2>1, <2>2, QuietKeepsBody
<1>4. CASE SocketFails
  <2>1. pcH \in Loops \cup {"tail"} /\ pcH' = "returned" /\ SetStatus(Handler, "ERROR")
    BY <1>4 DEF SocketFails, Break, SetError
  <2>2. ~Done
    BY <2>1 DEF BodyInv, Loops
  <2>3. ~Done'
    BY <1>1, <2>1, <2>2, NotDone DEF Statuses
  <2> QED
    BY <1>1, <2>1, <2>3, QuietKeepsBody
<1>5. CASE StopCancels
  <2>1. pcH' = "stopped" /\ SetStatus(Handler, "CANCELED") /\ HandlerFree
    BY <1>5 DEF StopCancels
  <2>2. ~Done
    BY <1>5, <2>1 DEF StopCancels, Done, HandlerFree, OutcomeInv, OutcomesAgree
  <2>3. ~Done'
    BY <1>1, <2>1, <2>2, NotDone DEF Statuses
  <2> QED
    BY <1>1, <2>1, <2>3, QuietKeepsBody
<1>6. ASSUME NEW status \in UserCalls, CallInCallback(status)
      PROVE  BodyInv'
  <2>1. /\ pcH = "stored" /\ pcH' = "called" /\ UNCHANGED <<net, remain>>
        /\ status \in {"PAUSED", "CANCELED"} /\ SetStatus(Handler, status)
    BY <1>6 DEF CallInCallback
  <2>2. ~Done
    BY <2>1 DEF BodyInv
  <2>3. ~Done'
    BY <1>1, <2>1, <2>2, NotDone DEF Statuses
  <2> QED
    BY <1>1, <2>1, <2>3, QuietKeepsBody
<1> QED
  BY <1>2, <1>3, <1>4, <1>5, <1>6
\* Where the exchange does not move, what the Handler announced takes effect, and
\* users announce no outcome.
LEMMA RestKeepsBody ==
  ASSUME OutcomeInv, BodyInv, setting.punctual, UNCHANGED exchangeVars,
         \/ AddNext
         \/ \E t \in Threads : SetStatusNext(t)
         \/ \E status \in UserCalls, u \in Users : UserCall(u, status)
  PROVE  BodyInv'
<1> USE HandlerAndUsers DEF exchangeVars
<1>1. /\ setting' = setting
      /\ UNCHANGED <<pcH, net, remain, received>>
  BY DEF AddNext, AddToMemory, RefuseEmptyPath, OpenStream, CheckStream, WriteFile,
         SetStatusNext, TakeEffect, TestStream, CloseStream, ResetStream, RemoveFile,
         AssignStatus, UserCall
<1>2. finished \in Nat
  BY DEF OutcomeInv, OutcomesAgree
<1>3. ASSUME ~Done
      PROVE  ~Done'
  <2>1. CASE AddNext
    <3>1. finished' = finished
      BY <2>1 DEF AddNext, AddToMemory, RefuseEmptyPath, OpenStream, CheckStream,
           WriteFile
    <3>2. UNCHANGED <<step, want>> \/ SetStatus(Handler, "ERROR")
      BY <2>1 DEF AddNext, AddToMemory, RefuseEmptyPath, OpenStream, CheckStream,
           WriteFile, SetError
    <3>3. UNCHANGED <<step, want>> => ~Done'
      BY <1>3, <3>1 DEF Done
    <3> QED
      BY <1>3, <3>1, <3>2, <3>3, NotDone DEF Statuses
  <2>2. CASE TakeEffect(Handler)
    <3>1. /\ step[Handler] = "told" /\ want[Handler] # "DONE"
          /\ want' = want
      BY <1>3, <2>2 DEF TakeEffect, Done
    <3>2. finished' = finished
      BY <1>2, <2>2, <3>1 DEF TakeEffect
    <3> QED
      BY <1>3, <3>1, <3>2 DEF Done
  <2>3. CASE SetStatusNext(Handler) /\ ~TakeEffect(Handler)
    <3>1. /\ step'[Handler] # "told" /\ finished' = finished
      BY <2>3 DEF SetStatusNext, TestStream, CloseStream, ResetStream, RemoveFile,
           AssignStatus, AfterStream, OutcomeInv, CallsAgree
    <3> QED
      BY <1>3, <3>1 DEF Done
  <2>4. ASSUME NEW u \in Users, SetStatusNext(u)
        PROVE  ~Done'
    <3>1. /\ want' = want /\ want[u] # "DONE"
          /\ \A s \in Threads \ {u} : step'[s] = step[s]
      BY <2>4 DEF SetStatusNext, TakeEffect, TestStream, CloseStream, ResetStream,
           RemoveFile, AssignStatus, OutcomeInv, CallsAgree
    <3>2. step'[Handler] = step[Handler]
      BY <3>1
    <3>3. finished' = finished
      BY <1>2, <2>4, <3>1 DEF SetStatusNext, TakeEffect, TestStream, CloseStream,
           ResetStream, RemoveFile, AssignStatus
    <3> QED
      BY <1>3, <3>1, <3>2, <3>3 DEF Done
  <2>5. ASSUME NEW u \in Users, NEW status \in UserCalls, UserCall(u, status)
        PROVE  ~Done'
    <3>1. status \in Statuses /\ SetStatus(u, status) /\ finished' = finished
      BY <2>5, ExchangeAssumption DEF UserCall, Statuses
    <3>2. step'[Handler] = step[Handler] /\ want'[Handler] = want[Handler]
      BY <3>1, StepOfOthers DEF OutcomeInv
    <3> QED
      BY <1>3, <3>1, <3>2 DEF Done
  <2> QED
    BY <2>1, <2>2, <2>3, <2>4, <2>5
<1>4. Body' = Body
  BY <1>1 DEF Body
<1>5. pcH' = "last" => received = Body
  BY <1>1 DEF BodyInv
<1>6. Done' => received = Body /\ pcH' \in {"last", "returned"}
  BY <1>1, <1>3 DEF BodyInv
<1> QED
  BY <1>1, <1>5, <1>6, QuietKeepsBody

LEMMA SettingStays == [ExchangeNext]_vars => setting' = setting
BY DEF ExchangeNext, HandlerNext, UserNext, AddNext, AddToMemory, RefuseEmptyPath,
       OpenStream, CheckStream, WriteFile, SetStatusNext, TakeEffect, TestStream,
       CloseStream, ResetStream, RemoveFile, AssignStatus, Start, ConnectTurn,
       WriteTurn, WrittenTcp, WrittenHttp, HeadersTurn, HeadersAre, HeadersEnd,
       HeadersBad, HeadersLength, HeadersLengthZero, HeadersChunked, HeadersUnframed,
       HeadersFailed, BodyTurn, ChunkTurn, ReadPiece, Stored, Complete, SizeTurn,
       SizeTurnPartial, TailRead, Quit, SocketFails, UserCall, CallInCallback,
       StopCancels, HandledAgain, vars, requestVars

LEMMA BodyStep ==
  /\ OutcomeInv /\ TextsInv /\ PlaceTypes /\ Placed /\ BodyInv
  /\ [ExchangeNext]_vars
  => BodyInv'
<1> SUFFICES ASSUME OutcomeInv, TextsInv, PlaceTypes, Placed, BodyInv,
                    [ExchangeNext]_vars
             PROVE  BodyInv'
  OBVIOUS
<1> USE HandlerAndUsers
<1>1. setting' = setting
  BY SettingStays
<1>2. CASE ~setting.punctual
  BY <1>1, <1>2 DEF BodyInv
<1>3. CASE setting.punctual
  <2> USE <1>3
  <2>1. CASE Start \/ ConnectTurn \/ WriteTurn \/ WrittenTcp \/ WrittenHttp
    BY <2>1, StartingKeepsBody
  <2>2. CASE HeadersTurn
    BY <2>2, HeadersKeepBody
  <2>3. CASE BodyTurn \/ ChunkTurn
    BY <2>3, ReadingKeepsBody
  <2>4. CASE Stored
    BY <2>4, StoredKeepsBody
  <2>5. CASE SizeTurn
    BY <2>5, SizeKeepsBody
  <2>6. CASE TailRead
    BY <2>6, TailKeepsBody
  <2>7. CASE \/ Complete \/ Quit \/ SocketFails \/ HandledAgain \/ StopCancels
             \/ \E status \in UserCalls : CallInCallback(status)
    BY <2>7, EndingKeepsBody
  <2>8. CASE \/ (AddNext \/ SetStatusNext(Handler)) /\ UNCHANGED exchangeVars
             \/ \E u \in Users : SetStatusNext(u) /\ UNCHANGED exchangeVars
             \/ \E status \in UserCalls, u \in Users : UserCall(u, status)
    <3>1. UNCHANGED exchangeVars
      BY <2>8 DEF UserCall
    <3> QED
      BY <2>8, <3>1, RestKeepsBody
  <2>9. CASE UNCHANGED vars
    BY <2>9 DEF vars, requestVars, exchangeVars, BodyInv, Ahead, Missing, Body,
         Framing, Done
  <2>10. ~SizeTurnPartial
    BY DEF SizeTurnPartial
  <2> QED
    BY <2>1, <2>2, <2>3, <2>4, <2>5, <2>6, <2>7, <2>8, <2>9, <2>10
       DEF ExchangeNext, HandlerNext, UserNext
<1> QED
  BY <1>2, <1>3

\* The beginning of the body is read, and all of it by the end: the inductive
\* invariant behind PunctualDoneMeansComplete and MemoryIsPrefix.
THEOREM BodyInvHolds == ExchangeSpec => [](Placed /\ BodyInv)
<1> QED
  BY BodyInit, PlacedStep, BodyStep, TypesHold, TextsInvHolds, OutcomeInvHolds, PTL
     DEF ExchangeSpec

\* A request to a peer that sends each size and each chunk's end in one piece is DONE
\* only when the whole body was read, be its length said by the client, by a header
\* or by the chunks (both handlers).
THEOREM PunctualDoneMeansCompleteAlways ==
  ExchangeSpec => []PunctualDoneMeansComplete
<1>1. OutcomeInv /\ BodyInv => PunctualDoneMeansComplete
  BY DEF BodyInv, Done, PunctualDoneMeansComplete, DoneMeansComplete
<1> QED
  BY <1>1, BodyInvHolds, OutcomeInvHolds, PTL
LEMMA ExchangeKeepsMemory ==
  ASSUME OutcomeInv, TextsInv, DataTypes, Placed, MemoryInv,
         \/ Start \/ ConnectTurn \/ WriteTurn \/ WrittenTcp \/ WrittenHttp
         \/ HeadersTurn \/ BodyTurn \/ ChunkTurn \/ Stored \/ Complete
         \/ SizeTurn \/ SizeTurnPartial \/ TailRead \/ Quit \/ SocketFails
         \/ HandledAgain \/ StopCancels
         \/ \E status \in UserCalls : CallInCallback(status)
  PROVE  MemoryInv'
<1> USE DEF requestVars, Turn
<1>1. CASE BodyTurn \/ ChunkTurn
  <2>1. pcW = "idle" /\ pcW' = "open" /\ received' = received \o piece'
    BY <1>1 DEF BodyTurn, ChunkTurn, ReadPiece, AddResponseData
  <2>2. UNCHANGED <<setting, m_response, m_bytes_read>>
    BY <1>1 DEF BodyTurn, ChunkTurn, ReadPiece
  <2> QED
    BY <2>1, <2>2 DEF MemoryInv
<1>2. CASE HeadersTurn
  <2>1. /\ received = <<>> /\ m_response' = <<>>
        /\ UNCHANGED <<setting, m_bytes_read, received, pcW>>
        /\ pcW = "idle"
    BY <1>2 DEF HeadersTurn, HeadersAre, HeadersEnd, HeadersBad, HeadersLength,
         HeadersLengthZero, HeadersChunked, HeadersUnframed, HeadersFailed, Placed,
         Fresh, HandlerFree
  <2> QED
    BY <2>1 DEF MemoryInv
<1>3. CASE \/ Start \/ ConnectTurn \/ WriteTurn \/ WrittenTcp \/ WrittenHttp
           \/ Stored \/ Complete \/ SizeTurn \/ SizeTurnPartial \/ TailRead \/ Quit
           \/ SocketFails \/ HandledAgain \/ StopCancels
           \/ \E status \in UserCalls : CallInCallback(status)
  <2>1. UNCHANGED <<setting, m_response, m_bytes_read, received, pcW, piece>>
    BY <1>3 DEF Start, ConnectTurn, WriteTurn, WrittenTcp, WrittenHttp, Stored,
         Complete, SizeTurn, SizeTurnPartial, TailRead, Quit, SocketFails,
         HandledAgain, StopCancels, CallInCallback
  <2> QED
    BY <2>1 DEF MemoryInv
<1> QED
  BY <1>1, <1>2, <1>3

LEMMA AddingKeepsMemory ==
  ASSUME TextsInv, DataTypes, MemoryInv, AddNext, UNCHANGED exchangeVars
  PROVE  MemoryInv'
<1> USE DEF exchangeVars
<1>1. setting' = setting
  BY DEF AddNext, AddToMemory, RefuseEmptyPath, OpenStream, CheckStream, WriteFile
<1>2. CASE setting.output = "memory"
  <2>1. pcW = "open" /\ received = m_response \o piece /\ m_bytes_read = Len(m_response)
    BY <1>2 DEF AddNext, AddToMemory, RefuseEmptyPath, OpenStream, CheckStream,
         WriteFile, MemoryInv
  <2>2. /\ m_response' = m_response \o piece
        /\ m_bytes_read' = m_bytes_read + Len(piece)
        /\ pcW' = "idle"
    BY <1>2, <2>1 DEF AddNext, AddToMemory, RefuseEmptyPath, OpenStream, CheckStream,
         WriteFile
  <2>3. Len(m_response \o piece) = Len(m_response) + Len(piece)
    BY ConcatProperties DEF TextsInv, DataTypes
  <2> QED
    BY <2>1, <2>2, <2>3 DEF MemoryInv
<1> QED
  BY <1>1, <1>2 DEF MemoryInv

LEMMA MemoryStep ==
  /\ OutcomeInv /\ TextsInv /\ DataTypes /\ Placed /\ MemoryInv
  /\ [ExchangeNext]_vars
  => MemoryInv'
<1> SUFFICES ASSUME OutcomeInv, TextsInv, DataTypes, Placed, MemoryInv,
                    [ExchangeNext]_vars
             PROVE  MemoryInv'
  OBVIOUS
<1> USE HandlerAndUsers
<1>1. CASE \/ Start \/ ConnectTurn \/ WriteTurn \/ WrittenTcp \/ WrittenHttp
           \/ HeadersTurn \/ BodyTurn \/ ChunkTurn \/ Stored \/ Complete
           \/ SizeTurn \/ SizeTurnPartial \/ TailRead \/ Quit \/ SocketFails
           \/ HandledAgain \/ StopCancels
           \/ \E status \in UserCalls : CallInCallback(status)
  BY <1>1, ExchangeKeepsMemory
<1>2. CASE AddNext /\ UNCHANGED exchangeVars
  BY <1>2, AddingKeepsMemory
<1>3. CASE \/ SetStatusNext(Handler) /\ UNCHANGED exchangeVars
           \/ \E u \in Users : SetStatusNext(u) /\ UNCHANGED exchangeVars
           \/ \E status \in UserCalls, u \in Users : UserCall(u, status)
           \/ UNCHANGED vars
  <2>1. UNCHANGED <<setting, m_response, m_bytes_read, received, pcW, piece>>
    BY <1>3 DEF SetStatusNext, TakeEffect, TestStream, CloseStream, ResetStream,
         RemoveFile, AssignStatus, UserCall, exchangeVars, vars, requestVars
  <2> QED
    BY <2>1 DEF MemoryInv
<1> QED
  BY <1>1, <1>2, <1>3 DEF ExchangeNext, HandlerNext, UserNext

\* What is in memory is what was read, up to the piece that is being added: also of a
\* peer that is not punctual, and when the request is handled again.
THEOREM MemoryInvHolds == ExchangeSpec => []MemoryInv
<1> QED
  BY BodyInit, MemoryStep, BodyInvHolds, TypesHold, TextsInvHolds, OutcomeInvHolds, PTL
     DEF ExchangeSpec

\* A beginning of what the stream carries of the body is a beginning of the body.
LEMMA CarriedIsPrefix ==
  ASSUME NEW got \in Seq(Tokens), NEW body \in Seq(Tokens), NEW s \in Seq(Tokens),
         Carries(got, body, Len(got)), Len(s) <= Len(got),
         \A j \in 1..Len(s) : s[j] = got[j]
  PROVE  IsPrefix(s, body)
<1>1. Len(s) \in Nat /\ Len(got) \in Nat /\ Len(body) \in Nat /\ Len(s) <= Len(body)
  BY LenProperties DEF Carries
<1>2. \A j \in 1..Len(s) : s[j] = body[j] /\ s[j] \in Tokens /\ body[j] \in Tokens
  <2> TAKE j \in 1..Len(s)
  <2>1. j \in 1..Len(got) /\ j <= Len(got) /\ j \in 1..Len(body)
    BY <1>1
  <2>2. got[j] = body[j]
    BY <2>1 DEF Carries
  <2> QED
    BY <2>1, <2>2, ElementOfSeq
<1> DEFINE x == SubSeq(s, 1, Len(s))
           y == SubSeq(body, 1, Len(s))
<1>3. /\ x \in Seq(Tokens)
      /\ Len(x) = IF 1 <= Len(s) THEN Len(s) - 1 + 1 ELSE 0
      /\ \A j \in 1..(Len(s) - 1 + 1) : x[j] = s[1 + j - 1]
  BY <1>1, <1>2, SubSeqProperties
<1>4. /\ y \in Seq(Tokens)
      /\ Len(y) = IF 1 <= Len(s) THEN Len(s) - 1 + 1 ELSE 0
      /\ \A j \in 1..(Len(s) - 1 + 1) : y[j] = body[1 + j - 1]
  BY <1>1, <1>2, SubSeqProperties
<1> HIDE DEF x, y
<1>5. \A j \in 1..Len(x) : x[j] = y[j]
  BY <1>1, <1>2, <1>3, <1>4
<1>6. x = y
  BY <1>3, <1>4, <1>5, SeqEqual
<1> QED
  BY <1>1, <1>6 DEF IsPrefix, x, y

\* The response in memory is a beginning of the body, m_bytes_read is its length, and
\* nothing that was read is missing in it when no piece is being added.
THEOREM MemoryIsPrefixAlways == ExchangeSpec => []MemoryIsPrefix
<1>1. TextsInv /\ DataTypes /\ BodyInv /\ MemoryInv => MemoryIsPrefix
  <2> SUFFICES ASSUME TextsInv, DataTypes, BodyInv, MemoryInv,
                      setting.output = "memory", setting.punctual
               PROVE  IsPrefix(m_response, Body)
    BY DEF MemoryIsPrefix, MemoryInv
  <2>1. /\ m_response \in Seq(Tokens) /\ piece \in Seq(Tokens)
        /\ received \in Seq(Tokens) /\ Body \in Seq(Tokens)
        /\ Len(m_response) \in Nat /\ Len(piece) \in Nat
        /\ Carries(received, Body, Len(received))
    BY BodyTypes, LenProperties DEF TextsInv, DataTypes, BodyInv
  <2>2. CASE m_response = received
    BY <2>1, <2>2, CarriedIsPrefix
  <2>3. CASE received = m_response \o piece
    <3>1. /\ Len(received) = Len(m_response) + Len(piece)
          /\ \A j \in 1..(Len(m_response) + Len(piece)) :
               received[j] = IF j <= Len(m_response) THEN m_response[j]
                                                     ELSE piece[j - Len(m_response)]
      BY <2>1, <2>3, ConcatProperties
    <3>2. Len(m_response) <= Len(received)
      BY <2>1, <3>1
    <3>3. \A j \in 1..Len(m_response) : m_response[j] = received[j]
      BY <2>1, <3>1
    <3> QED
      BY <2>1, <3>2, <3>3, CarriedIsPrefix
  <2> QED
    BY <2>2, <2>3 DEF MemoryInv
<1> QED
  BY <1>1, MemoryInvHolds, BodyInvHolds, TypesHold, TextsInvHolds, PTL

-----------------------------------------------------------------------------
(* The exchange implements Transfer.                                       *)

\* The one reply for which there are two outcomes, and what they are.
Empty == Framing = "length" /\ Body = <<>>

ErrorTold == step[Handler] = "told" /\ want[Handler] = "ERROR"

EmptyInv ==
  Empty =>
    /\ pcH \notin {"last", "returned"} => Outcomes = 0
    /\ pcH = "last" \/ Outcomes > 1 => failed = 0 /\ ~ErrorTold

LEMMA EmptyInit == ExchangeInit => EmptyInv
BY HandlerAndUsers DEF ExchangeInit, RequestInit, EmptyInv, Outcomes, ErrorTold

\* Without an outcome there is no failure.
LEMMA NoneToldNoError ==
  ASSUME OutcomeInv, Outcomes = 0
  PROVE  failed = 0 /\ finished = 0 /\ ~ErrorTold
BY DEF OutcomeInv, OutcomesAgree, Outcomes, ErrorTold

\* An exchange without a body is at its end or behind it when it announces an outcome.
LEMMA EmptyEnds ==
  ASSUME OutcomeInv, TextsInv, Empty,
         \/ Start \/ ConnectTurn \/ WriteTurn \/ WrittenTcp \/ WrittenHttp
         \/ HeadersTurn \/ BodyTurn \/ ChunkTurn \/ Stored \/ Complete
         \/ SizeTurn \/ SizeTurnPartial \/ TailRead \/ Quit \/ SocketFails
         \/ HandledAgain
         \/ \E status \in UserCalls : CallInCallback(status)
  PROVE  /\ pcH = "last" => Complete
         /\ step'[Handler] = "told" /\ want'[Handler] \in {"DONE", "ERROR"} =>
              pcH' \in {"last", "returned"}
<1> USE HandlerAndUsers DEF Turn, HandlerFree, OutcomeInv
<1>1. pcH = "last" => Complete
  BY DEF Start, ConnectTurn, WriteTurn, WrittenTcp, WrittenHttp, HeadersTurn,
     HeadersAre, HeadersEnd, HeadersBad, HeadersLength, HeadersLengthZero,
     HeadersChunked, HeadersUnframed, HeadersFailed, BodyTurn, ChunkTurn, Stored,
     SizeTurn, SizeTurnPartial, TailRead, Quit, SocketFails, Loops, HandledAgain,
     CallInCallback
<1>2. ASSUME NEW status \in Statuses \ {"DONE", "ERROR"}, SetStatus(Handler, status)
      PROVE  want'[Handler] \notin {"DONE", "ERROR"}
  BY <1>2, StepOfOthers
<1>3. CASE UNCHANGED <<step, want>>
  <2>1. step[Handler] # "told"
    <3>1. CASE \/ ConnectTurn \/ WriteTurn \/ WrittenTcp \/ WrittenHttp \/ HeadersTurn
               \/ BodyTurn \/ ChunkTurn \/ Stored \/ Complete
      BY <3>1 DEF ConnectTurn, WriteTurn, WrittenTcp, WrittenHttp, HeadersTurn,
         HeadersAre, HeadersEnd, HeadersBad, HeadersLength, HeadersLengthZero,
         HeadersChunked, HeadersUnframed, HeadersFailed, BodyTurn, ChunkTurn, Stored,
         Complete
    <3>2. CASE \/ SizeTurn \/ SizeTurnPartial \/ TailRead \/ Quit \/ SocketFails
               \/ HandledAgain
               \/ \E status \in UserCalls : CallInCallback(status)
      BY <3>2 DEF SizeTurn, SizeTurnPartial, TailRead, Quit, SocketFails, HandledAgain,
         CallInCallback
    <3>3. CASE Start
      BY <3>3 DEF Start, Break, SetError, SetStatus
    <3> QED
      BY <3>1, <3>2, <3>3
  <2> QED
    BY <1>1, <1>3, <2>1
<1>4. CASE Start
  BY <1>1, <1>2, <1>4 DEF Start, Break, Statuses
<1>5. CASE ConnectTurn \/ WrittenHttp
  BY <1>1, <1>2, <1>5 DEF ConnectTurn, WrittenHttp, Statuses
<1>6. CASE WriteTurn \/ BodyTurn \/ ChunkTurn \/ Stored
  BY <1>3, <1>6 DEF WriteTurn, BodyTurn, ChunkTurn, ReadPiece, Stored, requestVars
<1>7. CASE WrittenTcp
  BY <1>7 DEF WrittenTcp, Empty
<1>8. CASE HeadersTurn
  <2>1. CASE HeadersEnd \/ HeadersUnframed \/ HeadersBad \/ HeadersChunked
    BY <2>1 DEF HeadersEnd, HeadersUnframed, HeadersBad, HeadersChunked, HeadersAre,
                Empty
  <2>2. CASE HeadersLength \/ HeadersLengthZero \/ HeadersFailed
    BY <1>1, <2>2 DEF HeadersLength, HeadersLengthZero, HeadersFailed, Empty
  <2> QED
    BY <1>8, <2>1, <2>2 DEF HeadersTurn
<1>9. CASE Complete \/ SocketFails \/ Quit
  BY <1>1, <1>9 DEF Complete, Finish, SocketFails, Break, Quit
<1>10. CASE SizeTurn \/ SizeTurnPartial \/ TailRead \/ HandledAgain
  BY <1>3, <1>10 DEF SizeTurn, SizeTurnPartial, TailRead, HandledAgain, requestVars
<1>11. CASE \E status \in UserCalls : CallInCallback(status)
  BY <1>1, <1>2, <1>11 DEF CallInCallback, Statuses
<1> QED
  BY <1>4, <1>5, <1>6, <1>7, <1>8, <1>9, <1>10, <1>11

LEMMA ExchangeKeepsEmpty ==
  ASSUME OutcomeInv, TextsInv, EmptyInv, Empty, setting' = setting,
         \/ Start \/ ConnectTurn \/ WriteTurn \/ WrittenTcp \/ WrittenHttp
         \/ HeadersTurn \/ BodyTurn \/ ChunkTurn \/ Stored \/ Complete
         \/ SizeTurn \/ SizeTurnPartial \/ TailRead \/ Quit \/ SocketFails
         \/ HandledAgain
         \/ \E status \in UserCalls : CallInCallback(status)
  PROVE  EmptyInv'
<1> USE HandlerAndUsers DEF OutcomeInv, HandlerFree
<1>1. /\ pcH = "last" => Complete
      /\ step'[Handler] = "told" /\ want'[Handler] \in {"DONE", "ERROR"} =>
           pcH' \in {"last", "returned"}
  BY EmptyEnds
<1>2. Silent \/ Announce \/ Conclude
  BY StepKinds
<1>3. finished \in Nat /\ failed \in Nat
  BY DEF OutcomesAgree
<1>4. CASE pcH = "last"
  <2>1. Complete /\ step[Handler] = "idle" /\ failed = 0
    BY <1>1, <1>4 DEF Complete, EmptyInv
  <2>2. pcH' = "returned" /\ SetStatus(Handler, "DONE") /\ failed' = failed
    BY <2>1 DEF Complete, Finish
  <2>3. ~ErrorTold'
    BY <2>2, StepOfOthers DEF ErrorTold, Statuses
  <2> QED
    BY <2>1, <2>2, <2>3 DEF EmptyInv
<1>5. CASE pcH # "last"
  <2>1. pcH # "returned"
    BY <1>2 DEF Silent, Announce, Conclude
  <2>2. Outcomes = 0 /\ failed = 0 /\ finished = 0 /\ ~ErrorTold
    BY <1>5, <2>1, NoneToldNoError DEF EmptyInv
  <2>3. finished' = 0 /\ failed' = 0
    BY <1>2, <2>2 DEF Silent, Announce, Conclude
  <2>4. CASE Silent
    BY <2>2, <2>4 DEF Silent, EmptyInv, Outcomes, ErrorTold
  <2>5. CASE Announce
    <3>1. ~(step'[Handler] = "told" /\ want'[Handler] \in {"DONE", "ERROR"})
      BY <2>5, StepOfOthers DEF Announce
    <3> QED
      BY <2>3, <3>1 DEF EmptyInv, Outcomes, ErrorTold
  <2>6. CASE Conclude
    <3>1. PICK status \in {"DONE", "ERROR"} : SetStatus(Handler, status)
      BY <2>6 DEF Conclude, SetError
    <3>2. step'[Handler] = "told" /\ want'[Handler] = status
      BY <3>1, StepOfOthers DEF Statuses
    <3>3. pcH' \in {"last", "returned"} /\ Outcomes' = 1
      BY <1>1, <2>3, <3>2 DEF Outcomes
    <3>4. ASSUME pcH' = "last"
          PROVE  status # "ERROR"
      <4>1. m_error' = m_error /\ m_error = "none" /\ setting.valid
        BY <2>6, <3>4 DEF Conclude
      <4>2. SetStatus(Handler, "DONE")
        BY <2>6, <4>1 DEF Conclude, SetError
      <4> QED
        BY <3>2, <4>2, StepOfOthers DEF Statuses
    <3> QED
      BY <2>3, <3>2, <3>3, <3>4 DEF EmptyInv, ErrorTold
  <2> QED
    BY <1>2, <2>4, <2>5, <2>6
<1> QED
  BY <1>4, <1>5

\* What else happens to the outcomes: the Handler tells the one that it announced, or
\* addResponseData(), which has no body here, announces an error.
LEMMA RestOfOutcomes ==
  ASSUME OutcomeInv, UNCHANGED exchangeVars,
         \/ AddNext \/ SetStatusNext(Handler)
         \/ \E u \in Users : SetStatusNext(u)
         \/ \E status \in UserCalls, u \in Users : UserCall(u, status)
  PROVE  \/ TakeEffect(Handler)
         \/ pcH = "stored" /\ UNCHANGED <<finished, failed>>
         \/ UNCHANGED <<finished, failed>> /\ (ErrorTold' => ErrorTold)
              /\ Outcomes' = Outcomes
<1> USE HandlerAndUsers DEF OutcomeInv
<1>1. finished \in Nat /\ failed \in Nat
  BY DEF OutcomesAgree
<1>2. CASE AddNext
  BY <1>2 DEF AddNext, AddToMemory, RefuseEmptyPath, OpenStream, CheckStream, WriteFile,
     AddingAgrees
<1>3. CASE SetStatusNext(Handler) /\ ~TakeEffect(Handler)
  <2>1. step[Handler] # "told" /\ step'[Handler] # "told" /\ UNCHANGED <<finished, failed>>
    BY <1>3 DEF SetStatusNext, TestStream, CloseStream, ResetStream, RemoveFile,
       AssignStatus, AfterStream, CallsAgree
  <2> QED
    BY <2>1 DEF ErrorTold, Outcomes
<1>4. ASSUME NEW u \in Users, SetStatusNext(u)
      PROVE  UNCHANGED <<finished, failed>> /\ (ErrorTold' => ErrorTold)
               /\ Outcomes' = Outcomes
  <2>1. /\ want' = want /\ want[u] \notin {"DONE", "ERROR"}
        /\ \A s \in Threads \ {u} : step'[s] = step[s]
    BY <1>4 DEF SetStatusNext, TakeEffect, TestStream, CloseStream, ResetStream,
       RemoveFile, AssignStatus, CallsAgree
  <2>2. step'[Handler] = step[Handler]
    BY <2>1
  <2>3. finished' = finished /\ failed' = failed
    BY <1>1, <1>4, <2>1 DEF SetStatusNext, TakeEffect, TestStream, CloseStream,
       ResetStream, RemoveFile, AssignStatus
  <2> QED
    BY <2>1, <2>2, <2>3 DEF ErrorTold, Outcomes
<1>5. ASSUME NEW u \in Users, NEW status \in UserCalls, UserCall(u, status)
      PROVE  UNCHANGED <<finished, failed>> /\ (ErrorTold' => ErrorTold)
               /\ Outcomes' = Outcomes
  <2>1. /\ status \in Statuses /\ SetStatus(u, status)
        /\ finished' = finished /\ failed' = failed
    BY <1>5, ExchangeAssumption DEF UserCall, Statuses
  <2>2. step'[Handler] = step[Handler] /\ want'[Handler] = want[Handler]
    BY <2>1, StepOfOthers
  <2> QED
    BY <2>1, <2>2 DEF ErrorTold, Outcomes
<1> QED
  BY <1>2, <1>3, <1>4, <1>5

\* The Handler tells its outcome.
LEMMA TellsOutcome ==
  ASSUME OutcomeInv, TakeEffect(Handler)
  PROVE  /\ ~ErrorTold' /\ Outcomes' = Outcomes
         /\ failed' = failed + (IF ErrorTold THEN 1 ELSE 0)
         /\ finished' = finished + (IF want[Handler] = "DONE" THEN 1 ELSE 0)
         /\ step[Handler] = "told"
<1> USE HandlerAndUsers
<1>1. finished \in Nat /\ failed \in Nat /\ step'[Handler] # "told"
  BY DEF TakeEffect, OutcomeInv, OutcomesAgree, CallsAgree
<1> QED
  BY <1>1 DEF TakeEffect, ErrorTold, Outcomes

LEMMA EmptyStep ==
  /\ OutcomeInv /\ TextsInv /\ EmptyInv
  /\ [ExchangeNext]_vars
  => EmptyInv'
<1> SUFFICES ASSUME OutcomeInv, TextsInv, EmptyInv, [ExchangeNext]_vars
             PROVE  EmptyInv'
  OBVIOUS
<1> USE HandlerAndUsers
<1>1. setting' = setting
  BY SettingStays
<1>2. CASE ~Empty
  BY <1>1, <1>2 DEF Empty, EmptyInv, Framing, Body
<1>3. CASE Empty
  <2>1. Empty'
    BY <1>1, <1>3 DEF Empty, Framing, Body
  <2>2. CASE \/ Start \/ ConnectTurn \/ WriteTurn \/ WrittenTcp \/ WrittenHttp
             \/ HeadersTurn \/ BodyTurn \/ ChunkTurn \/ Stored \/ Complete
             \/ SizeTurn \/ SizeTurnPartial \/ TailRead \/ Quit \/ SocketFails
             \/ HandledAgain
             \/ \E status \in UserCalls : CallInCallback(status)
    BY <1>1, <1>3, <2>2, ExchangeKeepsEmpty
  <2>3. CASE StopCancels
    <3>1. finished' + failed' = 0 /\ ~ErrorTold' /\ pcH' = "stopped"
      BY <2>3, StepOfOthers DEF StopCancels, ErrorTold, Statuses, OutcomeInv
    <3>2. step'[Handler] = "told" => want'[Handler] = "CANCELED"
      BY <2>3, StepOfOthers DEF StopCancels, Statuses, OutcomeInv
    <3> QED
      BY <3>1, <3>2 DEF EmptyInv, Outcomes
  <2>4. CASE /\ UNCHANGED exchangeVars
             /\ \/ AddNext \/ SetStatusNext(Handler)
                \/ \E u \in Users : SetStatusNext(u)
                \/ \E status \in UserCalls, u \in Users : UserCall(u, status)
    <3>1. pcH' = pcH /\ pcH # "stored"
      BY <1>3, <2>4 DEF exchangeVars, TextsInv, Empty
    <3>2. CASE TakeEffect(Handler)
      BY <1>3, <3>1, <3>2, TellsOutcome DEF EmptyInv, OutcomeInv, OutcomesAgree
    <3>3. CASE /\ UNCHANGED <<finished, failed>> /\ (ErrorTold' => ErrorTold)
               /\ Outcomes' = Outcomes
      BY <1>3, <3>1, <3>3 DEF EmptyInv
    <3> QED
      BY <2>4, <3>1, <3>2, <3>3, RestOfOutcomes
  <2>5. CASE UNCHANGED vars
    BY <2>5 DEF vars, requestVars, exchangeVars, EmptyInv, Empty, Framing, Body,
       Outcomes, ErrorTold
  <2>6. \A status \in UserCalls, u \in Users :
          UserCall(u, status) => UNCHANGED exchangeVars
    BY DEF UserCall
  <2> QED
    BY <2>2, <2>3, <2>4, <2>5, <2>6 DEF ExchangeNext, HandlerNext, UserNext
<1> QED
  BY <1>2, <1>3

\* The reply that OneOutcome excepts, with Content-Length: 0 (lines 280 and 357 of the
\* coroutine): its request may be DONE twice, but is never both DONE and failed.
THEOREM EmptyInvHolds == ExchangeSpec => []EmptyInv
<1> QED
  BY EmptyInit, EmptyStep, OutcomeInvHolds, TextsInvHolds, PTL DEF ExchangeSpec

LEMMA TransferInit == ExchangeInit => Promise!TransferInit
<1> SUFFICES ASSUME ExchangeInit PROVE Promise!TransferInit
  OBVIOUS
<1>1. setting \in Settings /\ setting.punctual \in BOOLEAN
  BY ExchangeAssumption DEF ExchangeInit
<1>2. finished = 0 /\ failed = 0 /\ received = <<>>
  BY DEF ExchangeInit, RequestInit
<1>3. Told = {}
  BY <1>2 DEF Told
<1> QED
  BY <1>1, <1>2, <1>3 DEF Promise!TransferInit, Body

\* While nothing is announced or told, no callback was told of an outcome.
LEMMA NothingTold ==
  ASSUME OutcomeInv, finished + failed = 0
  PROVE  Told = {}
BY DEF OutcomeInv, OutcomesAgree, Told

\* A piece is read only before any outcome and goes behind what was read.
LEMMA ReadingReceives ==
  ASSUME OutcomeInv, TextsInv, EmptyInv, BodyInv', TextsInv',
         BodyTurn \/ ChunkTurn
  PROVE  Promise!Receive
<1>1. /\ pcH \in {"body", "chunk"}
      /\ piece' \in Seq(Tokens) /\ piece' # <<>>
      /\ received' = received \o piece'
      /\ UNCHANGED <<setting, finished, failed>>
  BY ReadPieceReads DEF Reads
<1>2. Outcomes = 0
  BY <1>1 DEF TextsInv, OutcomeInv, AddingAgrees, OutcomesAgree, BeforeBody
<1>3. finished = 0 /\ failed = 0 /\ Told = {}
  BY <1>2, NoneToldNoError, NothingTold
<1>4. Told' = {} /\ Body' = Body
  BY <1>1, <1>3 DEF Told, Body
<1>5. /\ received \in Seq(Tokens) /\ received' \in Seq(Tokens)
      /\ Body' \in Seq(Tokens)
      /\ Len(received) \in Nat /\ Len(piece') \in Nat /\ Len(piece') # 0
  BY <1>1, PeerAssumption, LenProperties, EmptySeq DEF TextsInv, Body
<1>6. /\ Len(received') = Len(received) + Len(piece')
      /\ \A j \in 1..(Len(received) + Len(piece')) :
           received'[j] = IF j <= Len(received) THEN received[j]
                                                ELSE piece'[j - Len(received)]
  BY <1>1, <1>5, ConcatProperties
<1>7. IsStrictPrefix(received, received')
  <2>1. Carries(received', received', Len(received'))
    BY <1>5, <1>6 DEF Carries
  <2>2. /\ Len(received) <= Len(received')
        /\ \A j \in 1..Len(received) : received[j] = received'[j]
    BY <1>5, <1>6
  <2>3. IsPrefix(received, received')
    BY <1>5, <2>1, <2>2, CarriedIsPrefix
  <2>4. received # received'
    BY <1>5, <1>6
  <2> QED
    BY <2>3, <2>4 DEF IsStrictPrefix
<1>8. ASSUME setting.punctual
      PROVE  IsPrefix(received', Body)
  <2>1. Carries(received', Body', Len(received'))
    BY <1>1, <1>8 DEF BodyInv
  <2>2. /\ Len(received') <= Len(received')
        /\ \A j \in 1..Len(received') : received'[j] = received'[j]
    BY <1>5, <1>6
  <2>3. IsPrefix(received', Body')
    BY <1>5, <1>6, <2>1, <2>2, CarriedIsPrefix
  <2> QED
    BY <1>4, <2>3
<1> QED
  BY <1>1, <1>3, <1>4, <1>7, <1>8
     DEF IsPrefix, IsStrictPrefix, Promise!IsPrefix, Promise!IsStrictPrefix,
         Promise!Receive

\* The first outcome that is told is the only one of its kind, and is "done" only when
\* the body was read.
LEMMA TellingCompletesOrFails ==
  ASSUME OutcomeInv, BodyInv, EmptyInv, TakeEffect(Handler), setting' = setting,
         UNCHANGED exchangeVars
  PROVE  Promise!Complete \/ Promise!Fail \/ UNCHANGED (Promise!transferVars)
<1> USE HandlerAndUsers DEF OutcomeInv
<1>1. /\ failed' = failed + (IF ErrorTold THEN 1 ELSE 0)
      /\ finished' = finished + (IF want[Handler] = "DONE" THEN 1 ELSE 0)
      /\ step[Handler] = "told"
      /\ finished \in Nat /\ failed \in Nat
  BY TellsOutcome DEF OutcomesAgree
<1>2. received' = received /\ Body' = Body
  BY DEF exchangeVars, Body
<1>3. CASE want[Handler] \notin {"DONE", "ERROR"}
  <2>1. Told' = Told
    BY <1>1, <1>3 DEF ErrorTold, Told
  <2> QED
    BY <1>2, <2>1 DEF Promise!transferVars
<1>4. CASE finished + failed = 0 /\ want[Handler] = "DONE"
  <2>1. Told = {} /\ Told' = {"done"}
    BY <1>1, <1>4, NothingTold DEF ErrorTold, Told
  <2>2. setting.punctual => received = Body
    BY <1>1, <1>4 DEF BodyInv, Done
  <2> QED
    BY <1>2, <2>1, <2>2 DEF Promise!Complete
<1>5. CASE finished + failed = 0 /\ want[Handler] = "ERROR"
  <2>1. Told = {} /\ Told' = {"failed"}
    BY <1>1, <1>5, NothingTold DEF ErrorTold, Told
  <2> QED
    BY <1>2, <2>1 DEF Promise!Fail
<1>6. CASE finished + failed # 0 /\ want[Handler] \in {"DONE", "ERROR"}
  <2>1. Outcomes \in Nat /\ Outcomes > 1
    BY <1>1, <1>6 DEF Outcomes
  <2>2. Empty
    BY <2>1 DEF OutcomesAgree, Empty
  <2>3. failed = 0 /\ ~ErrorTold
    BY <2>1, <2>2 DEF EmptyInv
  <2>4. Told = {"done"} /\ Told' = {"done"}
    BY <1>1, <1>6, <2>3 DEF Told
  <2> QED
    BY <1>2, <2>4 DEF Promise!transferVars
<1> QED
  BY <1>3, <1>4, <1>5, <1>6

\* Every step of the exchange, of addResponseData(), setStatus() and of users is a step
\* of Transfer or changes nothing that it speaks of.
LEMMA TransferStep ==
  /\ OutcomeInv /\ TextsInv /\ BodyInv /\ EmptyInv
  /\ TextsInv' /\ BodyInv'
  /\ [ExchangeNext]_vars
  => [Promise!TransferNext]_(Promise!transferVars)
<1> SUFFICES ASSUME OutcomeInv, TextsInv, BodyInv, EmptyInv, TextsInv', BodyInv',
                    [ExchangeNext]_vars
             PROVE  Promise!TransferNext \/ UNCHANGED (Promise!transferVars)
  OBVIOUS
<1>1. setting' = setting
  BY SettingStays
<1>2. ASSUME UNCHANGED <<received, finished, failed>>
      PROVE  UNCHANGED (Promise!transferVars)
  BY <1>1, <1>2 DEF Promise!transferVars, Told, Body
<1>3. CASE BodyTurn \/ ChunkTurn
  BY <1>3, ReadingReceives DEF Promise!TransferNext
<1>4. CASE \/ Start \/ ConnectTurn \/ WriteTurn \/ WrittenTcp \/ WrittenHttp
           \/ HeadersTurn \/ Stored \/ Complete \/ SizeTurn \/ SizeTurnPartial
           \/ TailRead \/ Quit \/ SocketFails \/ HandledAgain \/ StopCancels
           \/ \E status \in UserCalls : CallInCallback(status)
  <2>1. UNCHANGED <<received, finished, failed>>
    BY <1>4 DEF Start, ConnectTurn, WriteTurn, WrittenTcp, WrittenHttp, HeadersTurn,
       HeadersAre, HeadersEnd, HeadersBad, HeadersLength, HeadersLengthZero,
       HeadersChunked, HeadersUnframed, HeadersFailed, Stored, Complete, SizeTurn,
       SizeTurnPartial, TailRead, Quit, SocketFails, HandledAgain, StopCancels,
       CallInCallback, requestVars
  <2> QED
    BY <1>2, <2>1
<1>5. CASE /\ UNCHANGED exchangeVars
           /\ \/ AddNext \/ SetStatusNext(Handler)
              \/ \E u \in Users : SetStatusNext(u)
              \/ \E status \in UserCalls, u \in Users : UserCall(u, status)
  <2>1. received' = received
    BY <1>5 DEF exchangeVars
  <2>2. CASE TakeEffect(Handler)
    BY <1>1, <1>5, <2>2, TellingCompletesOrFails DEF Promise!TransferNext
  <2> QED
    BY <1>2, <1>5, <2>1, <2>2, RestOfOutcomes
<1>6. CASE UNCHANGED vars
  BY <1>2, <1>6 DEF vars, requestVars, exchangeVars
<1>7. \A status \in UserCalls, u \in Users :
        UserCall(u, status) => UNCHANGED exchangeVars
  BY DEF UserCall
<1> QED
  BY <1>3, <1>4, <1>5, <1>6, <1>7 DEF ExchangeNext, HandlerNext, UserNext

\* Both handlers, src/async_network_request_handler_impl.cpp and
\* src/sync_network_request_handler_impl.cpp: for all settings, users and frames an exchange
\* hands over the body in its order and has at most one kind of outcome, after which it
\* reads nothing, however it is paused, canceled, stopped and handled again.
THEOREM ExchangeImplementsTransfer == ExchangeSpec => ImplementsTransfer
<1>1. ExchangeInit => Promise!TransferInit
  BY TransferInit
<1>2. /\ OutcomeInv /\ TextsInv /\ BodyInv /\ EmptyInv
      /\ TextsInv' /\ BodyInv'
      /\ [ExchangeNext]_vars
      => [Promise!TransferNext]_(Promise!transferVars)
  BY TransferStep
<1> QED
  BY <1>1, <1>2, OutcomeInvHolds, TextsInvHolds, BodyInvHolds, EmptyInvHolds, PTL
     DEF ExchangeSpec, ImplementsTransfer, Promise!TransferSpec
=============================================================================

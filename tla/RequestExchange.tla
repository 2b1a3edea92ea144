--------------------------- MODULE RequestExchange --------------------------
(***************************************************************************)
(* The exchange that executes a request: the coroutines of                 *)
(* src/async_network_request_handler_impl.cpp and the functions of         *)
(* src/sync_network_request_handler_impl.cpp, which have the same steps    *)
(* and differ in how they wait (co_await or sleep) and in MaxFrame.        *)
(*                                                                         *)
(* Each loop turns until its phase is over.  A turn tests the flags, does  *)
(* one operation of the socket, and checks it for an error and for the     *)
(* time-out of the phase.  The socket is not shared and the operation does *)
(* not read the flags, so that a turn is one action; a turn that moves     *)
(* nothing is a stuttering step.  The peer's bytes arrive in pieces of any *)
(* size.  The socket library is external: what is said of readUntil() is   *)
(* what the code makes of it, that a delimiter which has not arrived yet   *)
(* leaves an error and hands out the bytes before it.                      *)
(***************************************************************************)
EXTENDS NetworkRequest

CONSTANTS
  Settings,     \* what clients ask for and what peers answer
  RequestSize,  \* bytes of the request (a bound of the model)
  MaxFrame,     \* bytes a turn moves at most
  UserCalls,    \* the statuses that users set
  Chunkings     \* external: what peers that send chunks have still to send where a
                \* chunk begins, each with what is left of the body there

Bytes == {"a", "b", "c", "d"}
Tokens == Bytes \cup {"0", "1", "\r", "\n"}

\* (The constructor of a TCP request looks at no Url.)
ASSUME ExchangeAssumption ==
  /\ RequestSize \in Nat /\ MaxFrame \in Nat \ {0}
  /\ UserCalls \subseteq {"PAUSED", "RESUMED", "CANCELED"}
  /\ \A s \in Settings : /\ s.reply.stream \in Seq(Tokens)
                         /\ s.reply.framing = "tcp" => s.valid
                         /\ s.punctual \in BOOLEAN
  /\ NoFile \notin Seq(Tokens)

VARIABLES
  pcH,        \* where the exchange stands
  unwritten,  \* bytes of the request still to write
  net,        \* what the peer has still to send
  remain,     \* bytes still to read of the body or of the chunk
  received    \* history: what was handed to addResponseData()

exchangeVars == <<pcH, unwritten, net, remain, received>>
vars == <<requestVars, exchangeVars>>

\* What follows the first n tokens of s.
Left(s, n) == SubSeq(s, n + 1, Len(s))

Framing == setting.reply.framing
Body == setting.reply.body

ExchangeTypeOK ==
  /\ RequestTypeOK(Tokens)
  /\ setting \in Settings
  /\ pcH \in {"start", "connect", "writing", "written", "headers", "body",
              "size", "chunk", "stored", "called", "tail", "last", "returned", "thrown",
              "stopped"}
  /\ unwritten \in 0..RequestSize
  /\ net \in Seq(Tokens) /\ received \in Seq(Tokens)
  /\ remain \in Nat

ExchangeInit ==
  /\ setting \in Settings
  /\ RequestInit
  /\ pcH = "start"
  /\ unwritten \in 0..RequestSize
  /\ net = setting.reply.stream
  /\ remain = 0
  /\ received = <<>>

\* The phases that loop, and their end by a pause or a cancellation.
Loops == {"connect", "writing", "headers", "body", "size", "chunk"}
Halted == m_paused \/ m_canceled

\* The Handler is at the head of a loop and goes into a turn of it.
Turn(phase) ==
  /\ pcH = phase
  /\ HandlerFree
  /\ ~Halted

-----------------------------------------------------------------------------
(* What a slip in the code would make of some of the actions below.  They  *)
(* are in no specification.                                                *)

\* The frame is not limited to what remains of the request.
WriteTurnFullFrame ==
  /\ Turn("writing")
  /\ unwritten' = unwritten - MaxFrame
  /\ pcH' = IF MaxFrame >= unwritten THEN "written" ELSE "writing"
  /\ UNCHANGED <<requestVars, net, remain, received>>

\* The body loop ends one byte early.
StoredEarly ==
  /\ pcH \in {"stored", "called"}
  /\ HandlerFree
  /\ pcH' = IF m_error # "none" THEN "returned"
            ELSE IF remain > 1 THEN (IF Framing = "chunked" THEN "chunk" ELSE "body")
            ELSE IF Framing = "chunked" THEN "tail" ELSE "last"
  /\ UNCHANGED <<requestVars, unwritten, net, remain, received>>

\* The exchange goes on after an error of the output.
StoredUnchecked ==
  /\ pcH \in {"stored", "called"}
  /\ HandlerFree
  /\ pcH' = IF remain > 0 THEN (IF Framing = "chunked" THEN "chunk" ELSE "body")
            ELSE IF Framing = "chunked" THEN "tail" ELSE "last"
  /\ UNCHANGED <<requestVars, unwritten, net, remain, received>>

\* The body loop does not look at errors and at the time-out.
SocketFailsBeforeBody ==
  /\ pcH \in {"connect", "writing", "headers", "size"} /\ ~Halted
  /\ HandlerFree
  /\ SetError
  /\ pcH' = "returned"
  /\ UNCHANGED <<setting, m_status, m_paused, m_canceled, streamVars, dataVars,
                 addVars, endVars, ub, unwritten, net, remain, received>>

\* stop() cancels a request that has its outcome already, as long as it is listed.
StopCancelsEnded ==
  /\ pcH \in Loops \cup {"start", "written", "tail", "last", "returned"}
  /\ HandlerFree
  /\ ~m_canceled
  /\ SetStatus(Handler, "CANCELED")
  /\ pcH' = "stopped"
  /\ UNCHANGED <<setting, statusVars, streamVars, dataVars, addVars, endVars, ub,
                 unwritten, net, remain, received>>

-----------------------------------------------------------------------------
(* Connecting and writing.                                                 *)

Quit ==
  /\ pcH \in Loops
  /\ HandlerFree
  /\ Halted
  /\ pcH' = "returned"
  /\ UNCHANGED <<requestVars, unwritten, net, remain, received>>

\* The end by setStatus(DONE) or by setError().
Finish ==
  /\ SetStatus(Handler, "DONE")
  /\ pcH' = "returned"
  /\ UNCHANGED m_error

Break ==
  /\ SetError
  /\ pcH' = "returned"

\* checkSocketOperationErrorAndTimeOut(): an error of the socket or the time-out
\* of the phase.  What the operation has read is dropped.
SocketFails ==
  /\ (pcH \in Loops /\ ~Halted) \/ pcH = "tail"
  /\ HandlerFree
  /\ Break
  /\ UNCHANGED <<setting, m_status, m_paused, m_canceled, streamVars, dataVars,
                 addVars, endVars, ub, unwritten, net, remain, received>>

\* The socket is created, or not.
Start ==
  /\ pcH = "start"
  /\ \/ Break
     \/ /\ SetStatus(Handler, "PROCESSED")
        /\ pcH' = "connect"
        /\ UNCHANGED m_error
  /\ UNCHANGED <<setting, m_status, m_paused, m_canceled, streamVars, dataVars,
                 addVars, endVars, ub, unwritten, net, remain, received>>

ConnectTurn ==
  /\ Turn("connect")
  /\ SetStatus(Handler, "WRITING")
  /\ pcH' = IF unwritten = 0 THEN "written" ELSE "writing"
  /\ UNCHANGED <<setting, statusVars, streamVars, dataVars, addVars, endVars, ub,
                 unwritten, net, remain, received>>

WriteTurn ==
  /\ Turn("writing")
  /\ \E n \in 1..MaxFrame :
       /\ n <= unwritten
       /\ unwritten' = unwritten - n
       /\ pcH' = IF n = unwritten THEN "written" ELSE "writing"
  /\ UNCHANGED <<requestVars, net, remain, received>>

\* A TCP request reads as many bytes as its client said; HTTP reads headers.
WrittenTcp ==
  /\ pcH = "written"
  /\ HandlerFree
  /\ Framing = "tcp"
  /\ remain' = Len(Body)
  /\ IF Body = <<>>
       THEN Finish
       ELSE /\ pcH' = "body"
            /\ UNCHANGED <<m_error, callVars>>
  /\ UNCHANGED <<setting, m_status, m_paused, m_canceled, streamVars, dataVars,
                 addVars, endVars, ub, unwritten, net, received>>

WrittenHttp ==
  /\ pcH = "written"
  /\ HandlerFree
  /\ Framing # "tcp"
  /\ SetStatus(Handler, "READING")
  /\ pcH' = "headers"
  /\ UNCHANGED <<setting, statusVars, streamVars, dataVars, addVars, endVars, ub,
                 unwritten, net, remain, received>>

-----------------------------------------------------------------------------
(* The headers have arrived: initResponse(), and what they say of the body. *)

HeadersAre(framings) ==
  /\ Turn("headers")
  /\ m_error = "none"
  /\ Framing \in framings
  /\ m_response' = <<>>
  /\ UNCHANGED <<setting, m_status, m_paused, m_canceled, streamVars, m_bytes_read,
                 addVars, endVars, unwritten, net, received>>

\* A status other than 200, or a transfer encoding other than "chunked".
HeadersEnd ==
  /\ HeadersAre({"refused", "unchunked"})
  /\ Finish
  /\ UNCHANGED <<ub, remain>>

\* Not HTTP/1.1: the error is the response's and not the request's, m_status of
\* the response is not initialized, and its headers are a null pointer.
HeadersBad ==
  /\ HeadersAre({"bad"})
  /\ \/ Finish /\ UNCHANGED ub
     \/ /\ ub' = ub \cup {"headers"}
        /\ pcH' = "thrown"
        /\ UNCHANGED <<m_error, callVars>>
  /\ UNCHANGED remain

HeadersLength ==
  /\ HeadersAre({"length"})
  /\ Body # <<>>
  /\ remain' = Len(Body)
  /\ SetStatus(Handler, "READING")
  /\ pcH' = "body"
  /\ UNCHANGED <<m_error, ub>>

\* Content-Length: 0 makes the request DONE here, and once more at the end.
HeadersLengthZero ==
  /\ HeadersAre({"length"})
  /\ Body = <<>>
  /\ SetStatus(Handler, "DONE")
  /\ pcH' = "last"
  /\ UNCHANGED <<m_error, ub, remain>>

HeadersChunked ==
  /\ HeadersAre({"chunked"})
  /\ pcH' = "size"
  /\ UNCHANGED <<m_error, callVars, ub, remain>>

\* (A slip: the exchange returns without an error.)
HeadersUnframedSilent ==
  /\ HeadersAre({"unframed"})
  /\ pcH' = "returned"
  /\ UNCHANGED <<m_error, callVars, ub, remain>>

HeadersUnframed ==
  /\ HeadersAre({"unframed"})
  /\ Break
  /\ UNCHANGED <<ub, remain>>

\* if (error()) return: the error of the constructor comes to light here.
HeadersFailed ==
  /\ Turn("headers")
  /\ m_error # "none"
  /\ m_response' = <<>>
  /\ pcH' = "returned"
  /\ UNCHANGED <<setting, statusVars, streamVars, m_bytes_read, callVars, addVars,
                 endVars, ub, unwritten, net, remain, received>>

HeadersTurn ==
  \/ HeadersFailed \/ HeadersEnd \/ HeadersBad \/ HeadersLength \/ HeadersLengthZero
  \/ HeadersChunked \/ HeadersUnframed

-----------------------------------------------------------------------------
(* The body.                                                               *)

\* A piece is read and handed to addResponseData().
ReadPiece ==
  /\ \E n \in 1..MaxFrame :
       /\ n <= remain /\ n <= Len(net)
       /\ AddResponseData(SubSeq(net, 1, n))
       /\ received' = received \o SubSeq(net, 1, n)
       /\ net' = Left(net, n)
       /\ remain' = remain - n
  /\ pcH' = "stored"
  /\ UNCHANGED <<setting, statusVars, streamVars, dataVars, callVars, endVars, ub,
                 unwritten>>

BodyTurn == Turn("body") /\ ReadPiece

ChunkTurn == Turn("chunk") /\ ReadPiece

\* if (error()) return; the loop goes on or is over.
Stored ==
  /\ pcH \in {"stored", "called"}
  /\ HandlerFree
  /\ pcH' = IF m_error # "none" THEN "returned"
            ELSE IF remain > 0 THEN (IF Framing = "chunked" THEN "chunk" ELSE "body")
            ELSE IF Framing = "chunked" THEN "tail" ELSE "last"
  /\ UNCHANGED <<requestVars, unwritten, net, remain, received>>

\* The last statement of the exchange.
Complete ==
  /\ pcH = "last"
  /\ HandlerFree
  /\ Finish
  /\ UNCHANGED <<setting, m_status, m_paused, m_canceled, streamVars, dataVars,
                 addVars, endVars, ub, unwritten, net, remain, received>>

\* The first line of s ends with its i-th token.
LineEnds(s, i) ==
  /\ s[i - 1] = "\r" /\ s[i] = "\n"
  /\ \A j \in 2..(i - 1) : ~(s[j - 1] = "\r" /\ s[j] = "\n")

\* std::stoll() skips white space and reads digits up to the first other token.
\* The model writes sizes in base 2 where the protocol has 16.
RunEnds(line, a, b, chars) ==
  /\ \A j \in (a + 1)..b : line[j] \in chars
  /\ b < Len(line) => line[b + 1] \notin chars

Digits(line) ==
  LET blanks == CHOOSE n \in 0..Len(line) : RunEnds(line, 0, n, {"\r", "\n"})
      end == CHOOSE n \in blanks..Len(line) : RunEnds(line, blanks, n, {"0", "1"})
  IN SubSeq(line, blanks + 1, end)

Number(digits) ==
  LET value[n \in 0..Len(digits)] ==
        IF n = 0 THEN 0 ELSE 2 * value[n - 1] + (IF digits[n] = "1" THEN 1 ELSE 0)
  IN value[Len(digits)]

\* The first n tokens of stream, or those of them that are sent, are those of body.
Carries(stream, body, n) ==
  /\ n <= Len(body)
  /\ \A j \in 1..n : j <= Len(stream) => stream[j] = body[j]

\* A chunk of the size that the first i tokens say: none at the end of the body,
\* and otherwise its bytes and a line end, and what is left after that.
IsChunk(c, i, size) ==
  IF size = 0 THEN c.body = <<>>
  ELSE /\ Carries(Left(c.stream, i), c.body, size)
       /\ size + 2 <= Len(Left(c.stream, i)) =>
            [stream |-> Left(Left(c.stream, i), size + 2),
             body |-> Left(c.body, size)] \in Chunkings

\* External: peers send the body as its framing says, or the beginning of it.  The
\* body is what the code is to read: nothing where it takes no body from a reply.
ASSUME PeerAssumption ==
  /\ \A s \in Settings :
       LET reply == s.reply IN
         /\ reply.body \in Seq(Tokens)
         /\ reply.framing \in {"tcp", "length"} =>
              Carries(reply.stream, reply.body, Len(reply.body))
         /\ reply.framing = "chunked" =>
              [stream |-> reply.stream, body |-> reply.body] \in Chunkings
         /\ reply.framing \in {"refused", "unchunked", "bad"} => reply.body = <<>>
  /\ \A c \in Chunkings :
       \A i \in 2..Len(c.stream) :
         LineEnds(c.stream, i) /\ Digits(SubSeq(c.stream, 1, i)) # <<>> =>
           IsChunk(c, i, Number(Digits(SubSeq(c.stream, 1, i))))

\* The line with the size of the next chunk.  A size of 0 ends the exchange; a
\* line without digits makes std::stoll() throw, and nobody catches that.
SizeTurn ==
  /\ Turn("size")
  /\ \E i \in 2..Len(net) :
       /\ LineEnds(net, i)
       /\ net' = Left(net, i)
       /\ LET digits == Digits(SubSeq(net, 1, i)) IN
            /\ remain' = Number(digits)
            /\ pcH' = IF digits = <<>> THEN "thrown"
                      ELSE IF Number(digits) = 0 THEN "last" ELSE "chunk"
  /\ UNCHANGED <<requestVars, unwritten, received>>

\* Only a part of the line has arrived: it is read and forgotten.
SizeTurnPartial ==
  /\ Turn("size")
  /\ ~setting.punctual
  /\ \E n \in 1..Len(net) :
       /\ \A i \in 1..n : net[i] # "\r"
       /\ net' = Left(net, n)
  /\ UNCHANGED <<requestVars, pcH, unwritten, remain, received>>

\* The end of the chunk: read(2), whatever of it has arrived.
TailRead ==
  /\ pcH = "tail"
  /\ HandlerFree
  /\ \E n \in 0..2 :
       /\ n <= Len(net)
       /\ setting.punctual => n = 2
       /\ net' = Left(net, n)
  /\ pcH' = "size"
  /\ UNCHANGED <<requestVars, unwritten, remain, received>>

HandlerNext ==
  \/ (AddNext \/ SetStatusNext(Handler)) /\ UNCHANGED exchangeVars
  \/ Start \/ ConnectTurn \/ WriteTurn \/ WrittenTcp \/ WrittenHttp \/ HeadersTurn
  \/ BodyTurn \/ ChunkTurn \/ Stored \/ Complete
  \/ SizeTurn \/ SizeTurnPartial \/ TailRead \/ Quit \/ SocketFails

-----------------------------------------------------------------------------
(* The users.  A careful client leaves a request that writes a file alone,  *)
(* except in a callback, which runs in the Handler; there it may cancel or  *)
(* pause, and does not continue what the exchange has not noticed.          *)

UserCall(u, status) ==
  /\ setting.careful => setting.output = "memory"
  /\ SetStatus(u, status)
  /\ UNCHANGED <<setting, statusVars, streamVars, dataVars, addVars, endVars, ub,
                 exchangeVars>>

\* In the callback for the bytes read, the last thing addResponseData() does.
CallInCallback(status) ==
  /\ pcH = "stored"
  /\ HandlerFree
  /\ m_error = "none"
  /\ ~Halted
  /\ status \in {"PAUSED", "CANCELED"}
  /\ SetStatus(Handler, status)
  /\ pcH' = "called"
  /\ UNCHANGED <<setting, statusVars, streamVars, dataVars, addVars, endVars, ub,
                 unwritten, net, remain, received>>

\* stop() of the dispatcher: a coroutine is not resumed any more, be it at its
\* beginning or at the end of a turn, and cancel() is called of its request in the
\* thread of stop(), for which the place of the Handler is free; also when the
\* coroutine has returned without an outcome.  (Bound: a request is not stopped
\* when it was canceled before.)
StopCancels ==
  /\ pcH \in Loops \cup {"start", "written", "tail", "last", "returned"}
  /\ HandlerFree
  /\ finished + failed = 0
  /\ ~m_canceled
  /\ SetStatus(Handler, "CANCELED")
  /\ pcH' = "stopped"
  /\ UNCHANGED <<setting, statusVars, streamVars, dataVars, addVars, endVars, ub,
                 unwritten, net, remain, received>>

\* The request is pending again, and is handled again when run() is called again.
HandledAgain ==
  /\ pcH = "stopped"
  /\ HandlerFree
  /\ pcH' = "start"
  /\ unwritten' \in 0..RequestSize
  /\ net' = setting.reply.stream
  /\ remain' = 0
  /\ UNCHANGED <<requestVars, received>>

UserNext ==
  \/ StopCancels \/ HandledAgain
  \/ \E status \in UserCalls :
       CallInCallback(status) \/ \E u \in Users : UserCall(u, status)
  \/ \E u \in Users : SetStatusNext(u) /\ UNCHANGED exchangeVars

ExchangeNext == HandlerNext \/ UserNext

ExchangeSpec == ExchangeInit /\ [][ExchangeNext]_vars

(***************************************************************************)
(* The thread or coroutine of the exchange goes on, which includes that a  *)
(* time-out passes; so does a user's call that has begun.                  *)
(***************************************************************************)
ExchangeLiveSpec ==
  /\ ExchangeSpec
  /\ WF_vars(HandlerNext)
  /\ \A u \in Users : WF_vars(SetStatusNext(u) /\ UNCHANGED exchangeVars)

-----------------------------------------------------------------------------
(* Properties.                                                             *)

Ended == pcH = "returned" /\ HandlerFree
AtRest == Ended /\ \A u \in Users : step[u] = "idle"

\* addResponseData() and the body loops: what is in memory is what was read so
\* far, a prefix of the body, and m_bytes_read counts it.
MemoryIsPrefix ==
  setting.output = "memory" /\ setting.punctual =>
    /\ m_bytes_read = Len(m_response)
    /\ IsPrefix(m_response, Body)
    /\ pcW = "idle" => m_response = received

\* inc/network_request_base.hpp:73 "Request had been processed": a request is
\* DONE only when the whole body was read.
DoneMeansComplete == finished > 0 => received = Body

\* The same for peers that send the size of a chunk and its end in one piece: implied by
\* ImplementsTransfer below.
PunctualDoneMeansComplete == setting.punctual => DoneMeansComplete

\* A request has one of the two outcomes, and its callbacks are invoked once;
\* the exception is a reply with Content-Length: 0.
OneOutcome ==
  finished + failed > 1 => Framing = "length" /\ Body = <<>>

\* inc/network_request_base.hpp: "Sets file where response fom remote will be
\* stored": the file holds what was read, unless it was removed on purpose.
FileHoldsWhatWasRead ==
  AtRest /\ setting.output = "file" /\ failed = 0 /\ ~m_canceled =>
    disk = IF received = <<>> THEN NoFile ELSE received

CarefulFileHoldsWhatWasRead == setting.careful => FileHoldsWhatWasRead

\* setStatus(): a request that failed or was canceled leaves no file and no
\* stream behind.
NoRemains ==
  setting.careful /\ AtRest =>
    /\ m_output_file = "null"
    /\ failed > 0 \/ m_canceled => disk = NoFile

\* No thread uses the stream that another one has reset.
NoNullStream == setting.careful => "stream" \notin ub

\* The inductive invariants behind OneOutcome and NoNullStream.

\* The outcomes, with the one that a call of the Handler is about to announce.
Outcomes ==
  finished + failed
    + (IF step[Handler] = "told" /\ want[Handler] \in {"DONE", "ERROR"} THEN 1 ELSE 0)

\* Threads are where setStatus() can be, and users set no outcome.
CallsAgree ==
  /\ step \in [Threads -> {"idle", "told", "test", "close", "reset", "remove",
                            "assign", "stuck"}]
  /\ want \in [Threads -> Statuses]
  /\ \A u \in Users : want[u] \notin {"DONE", "ERROR"}

\* Where the exchange of a request with an invalid Url can be.
BeforeBody == {"start", "connect", "writing", "written", "headers", "returned",
               "stopped"}

\* addResponseData() runs inside the turn and before any error.
AddingAgrees ==
  /\ pcW # "idle" => pcH = "stored" /\ step[Handler] = "idle" /\ m_error = "none"
  /\ m_error # "none" => pcH \in {"stored", "returned"} \/ ~setting.valid
  /\ ~setting.valid => m_error = "error" /\ pcH \in BeforeBody /\ Framing # "tcp"

\* Before its last statement an exchange has no outcome but the error of its
\* output, which the statement after addResponseData() finds.
OutcomesAgree ==
  /\ finished \in Nat /\ failed \in Nat
  /\ m_error # "none" /\ setting.valid => Outcomes >= 1
  /\ ~(Framing = "length" /\ Body = <<>>) =>
       /\ pcH = "returned" => Outcomes <= 1
       /\ pcH # "returned" =>
            Outcomes = IF m_error = "none" \/ ~setting.valid THEN 0 ELSE 1

OutcomeInv == CallsAgree /\ AddingAgrees /\ OutcomesAgree

\* With a careful client the Handler has the stream for itself and uses it only
\* where there is one.
StreamInv ==
  /\ pcW \in {"check", "write"} => setting.output = "file"
  /\ setting.output # "file" => m_output_file = "null"
  /\ setting.careful =>
       /\ setting.output # "memory" => \A u \in Users : step[u] = "idle"
       /\ \A t \in Threads : step[t] \in {"close", "reset"} => m_output_file # "null"
       /\ pcW \in {"check", "write"} => m_output_file # "null"
       /\ "stream" \notin ub

\* An exchange that is over without an outcome, of which the dispatcher is not told,
\* was paused or canceled: checked for requests of a valid Url.
OutcomeUnlessHalted ==
  AtRest /\ setting.valid /\ finished + failed = 0 =>
    Halted \/ \E u \in Users : want[u] = "RESUMED"

\* The outcomes that callbacks were told.
Told == {o \in {"done", "failed"} : IF o = "done" THEN finished > 0 ELSE failed > 0}

Promise == INSTANCE Transfer WITH
  Bodies   <- {s.reply.body : s \in Settings},
  body     <- Body,
  punctual <- setting.punctual,
  got      <- received,
  outcome  <- Told

\* Both handlers: an exchange hands over the body of its peer piece by piece and has one
\* outcome after that, which no later call of a user, stop or second exchange changes.
ImplementsTransfer == Promise!TransferSpec

\* Every loop ends, by its bytes, by a halt or by the check for the time-out, also
\* when the request is handled again after a stop().
Over == Ended \/ pcH \in {"thrown", "stopped"} \/ ub # {}

ExchangeEnds == ~Over ~> Over

\* inc/network_request_base.hpp:193 "Resumes request processing": a request
\* that is resumed is brought to an end by an outcome or by another halt.
ResumedGoesOn ==
  (m_status = "RESUMED") ~> (finished + failed > 0 \/ Halted)
=============================================================================

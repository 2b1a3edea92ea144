--------------------------- MODULE NetworkRequest ---------------------------
(***************************************************************************)
(* tristan::network::NetworkRequestBase (inc/network_request_base.hpp,     *)
(* src/network_request_base.cpp): the status, the flags, the response in   *)
(* memory or in a file, and the calls that change them: setStatus(),       *)
(* setError() and addResponseData().                                       *)
(*                                                                         *)
(* Nothing protects these members.  The Handler is the thread or coroutine *)
(* that executes the request; the Users are threads that call cancel(),    *)
(* pauseProcessing() and continueProcessing().  A call of setStatus() is   *)
(* several steps, `step`, because another thread can get between them: the *)
(* callbacks that announce the change, its effect on the flags, the test   *)
(* of the stream, its close and reset, the removal of the file, and the    *)
(* assignment of the status.                                               *)
(***************************************************************************)
EXTENDS Naturals, SequencesExt

CONSTANTS
  Handler, Users,
  NoFile           \* what is on the disk when the output file does not exist

ASSUME RequestAssumption == Handler \notin Users

VARIABLES
  setting,         \* what the client chose before it submitted the request
  m_status, m_error, m_paused, m_canceled,
  m_output_file,   \* unique_ptr<ofstream>: "null", "closed" or "open"
  linked,          \* the open stream writes the file that has the path
  disk,            \* the content of the file that has the path
  m_response,      \* the data of the response in memory
  m_bytes_read,
  want, step,      \* for each thread its call of setStatus()
  pcW, piece,      \* the Handler's call of addResponseData()
  finished, failed, \* history: how often the callbacks were invoked
  ub               \* history: the null pointers that were used

statusVars == <<m_status, m_error, m_paused, m_canceled>>
streamVars == <<m_output_file, linked, disk>>
dataVars == <<m_response, m_bytes_read>>
callVars == <<want, step>>
addVars == <<pcW, piece>>
endVars == <<finished, failed>>
requestVars == <<setting, statusVars, streamVars, dataVars, callVars, addVars,
                 endVars, ub>>

Threads == {Handler} \cup Users

Statuses == {"WAITING", "PROCESSED", "ERROR", "WRITING", "READING", "PAUSED",
             "RESUMED", "CANCELED", "DONE"}
Closing == {"PAUSED", "ERROR", "CANCELED", "DONE"}
\* A slip, in no specification: setStatus(CANCELED) leaves the file.
RemovingOnError == {"ERROR"}
Removing == {"ERROR", "CANCELED"}

RequestTypeOK(Bytes) ==
  /\ m_status \in Statuses
  /\ m_error \in {"none", "error"}
  /\ m_paused \in BOOLEAN /\ m_canceled \in BOOLEAN
  /\ m_output_file \in {"null", "closed", "open"}
  /\ linked \in BOOLEAN
  /\ disk \in Seq(Bytes) \cup {NoFile}
  /\ m_response \in Seq(Bytes) /\ m_bytes_read \in Nat
  /\ want \in [Threads -> Statuses]
  /\ step \in [Threads -> {"idle", "told", "test", "close", "reset", "remove",
                           "assign", "stuck"}]
  /\ pcW \in {"idle", "open", "check", "write", "stuck"}
  /\ piece \in Seq(Bytes)
  /\ finished \in Nat /\ failed \in Nat
  /\ ub \subseteq {"stream", "headers"}

\* The constructor of a request fails when it is given an invalid Url: before any
\* callback is registered, and nobody asks for the error before the exchange.
RequestInit ==
  /\ m_status = (IF setting.valid THEN "WAITING" ELSE "ERROR")
  /\ m_error = (IF setting.valid THEN "none" ELSE "error")
  /\ m_paused = FALSE /\ m_canceled = FALSE
  /\ m_output_file = "null" /\ linked = FALSE /\ disk = NoFile
  /\ m_response = <<>> /\ m_bytes_read = 0
  /\ want = [t \in Threads |-> "WAITING"]
  /\ step = [t \in Threads |-> "idle"]
  /\ pcW = "idle" /\ piece = <<>>
  /\ finished = 0 /\ failed = 0
  /\ ub = {}

-----------------------------------------------------------------------------
(* What a slip in the code would make of some of the definitions.  They    *)
(* are in no specification.                                                *)

\* setStatus() uses the stream without asking whether there is one.
TestStreamNever(t) ==
  /\ step[t] = "test"
  /\ step' = [step EXCEPT ![t] = "close"]
  /\ UNCHANGED <<setting, statusVars, streamVars, dataVars, want, addVars, endVars,
                 ub>>

\* addResponseData() replaces what is in memory.
AddToMemoryReplacing ==
  /\ pcW = "open"
  /\ setting.output = "memory"
  /\ m_response' = piece
  /\ m_bytes_read' = m_bytes_read + Len(piece)
  /\ pcW' = "idle"
  /\ UNCHANGED <<setting, statusVars, streamVars, callVars, piece, endVars, ub>>

\* It creates a stream for every piece.
OpenStreamAnew ==
  /\ pcW = "open"
  /\ setting.output = "file"
  /\ m_output_file' = "open"
  /\ linked' = TRUE
  /\ disk' = <<>>
  /\ pcW' = "check"
  /\ UNCHANGED <<setting, statusVars, dataVars, callVars, piece, endVars, ub>>

-----------------------------------------------------------------------------
(* setStatus().                                                            *)

\* The call begins: the callbacks for a changed status are invoked.
SetStatus(t, status) ==
  /\ step[t] = "idle"
  /\ want' = [want EXCEPT ![t] = status]
  /\ step' = [step EXCEPT ![t] = "told"]

\* setError(): m_error is never an error with the number of READ_DONE here, for
\* which the failure would be passed over in silence.
SetError ==
  /\ m_error' = "error"
  /\ SetStatus(Handler, "ERROR")

\* The switch: flags and callbacks of the new status.
TakeEffect(t) ==
  /\ step[t] = "told"
  /\ m_paused' = (want[t] = "PAUSED" \/ (m_paused /\ want[t] # "RESUMED"))
  /\ m_canceled' = (m_canceled \/ want[t] = "CANCELED")
  /\ failed' = failed + (IF want[t] = "ERROR" THEN 1 ELSE 0)
  /\ finished' = finished + (IF want[t] = "DONE" THEN 1 ELSE 0)
  /\ step' = [step EXCEPT ![t] = IF want[t] \in Closing THEN "test" ELSE "assign"]
  /\ UNCHANGED <<setting, m_status, m_error, streamVars, dataVars, want, addVars, ub>>

AfterStream(t) == IF want[t] \in Removing THEN "remove" ELSE "assign"

\* if (m_output_file)
TestStream(t) ==
  /\ step[t] = "test"
  /\ step' = [step EXCEPT ![t] =
                IF m_output_file = "null" THEN AfterStream(t) ELSE "close"]
  /\ UNCHANGED <<setting, statusVars, streamVars, dataVars, want, addVars, endVars,
                 ub>>

\* is_open() and close(), unless another thread has reset the pointer meanwhile.
CloseStream(t) ==
  /\ step[t] = "close"
  /\ IF m_output_file = "null"
       THEN /\ ub' = ub \cup {"stream"}
            /\ step' = [step EXCEPT ![t] = "stuck"]
            /\ UNCHANGED m_output_file
       ELSE /\ m_output_file' = "closed"
            /\ step' = [step EXCEPT ![t] = "reset"]
            /\ UNCHANGED ub
  /\ UNCHANGED <<setting, statusVars, linked, disk, dataVars, want, addVars, endVars>>

ResetStream(t) ==
  /\ step[t] = "reset"
  /\ m_output_file' = "null"
  /\ step' = [step EXCEPT ![t] = AfterStream(t)]
  /\ UNCHANGED <<setting, statusVars, linked, disk, dataVars, want, addVars, endVars,
                 ub>>

\* A file that is removed while a stream is open goes on without its path.
RemoveFile(t) ==
  /\ step[t] = "remove"
  /\ disk' = NoFile
  /\ linked' = FALSE
  /\ step' = [step EXCEPT ![t] = "assign"]
  /\ UNCHANGED <<setting, statusVars, m_output_file, dataVars, want, addVars, endVars,
                 ub>>

AssignStatus(t) ==
  /\ step[t] = "assign"
  /\ m_status' = want[t]
  /\ step' = [step EXCEPT ![t] = "idle"]
  /\ UNCHANGED <<setting, m_error, m_paused, m_canceled, streamVars, dataVars, want,
                 addVars, endVars, ub>>

SetStatusNext(t) ==
  \/ TakeEffect(t) \/ TestStream(t) \/ CloseStream(t) \/ ResetStream(t)
  \/ RemoveFile(t) \/ AssignStatus(t)

-----------------------------------------------------------------------------
(* addResponseData(), in the Handler.                                      *)

AddResponseData(bytes) ==
  /\ pcW = "idle"
  /\ pcW' = "open"
  /\ piece' = bytes

AddToMemory ==
  /\ pcW = "open"
  /\ setting.output = "memory"
  /\ m_response' = m_response \o piece
  /\ m_bytes_read' = m_bytes_read + Len(piece)
  /\ pcW' = "idle"
  /\ UNCHANGED <<setting, statusVars, streamVars, callVars, piece, endVars, ub>>

\* The client asked for a file and gave an empty path.
RefuseEmptyPath ==
  /\ pcW = "open"
  /\ setting.output = "nowhere"
  /\ SetError
  /\ pcW' = "idle"
  /\ UNCHANGED <<setting, m_status, m_paused, m_canceled, streamVars, dataVars,
                 piece, endVars, ub>>

\* A new stream truncates the file, if it can be opened.
OpenStream ==
  /\ pcW = "open"
  /\ setting.output = "file"
  /\ pcW' = "check"
  /\ \/ /\ m_output_file # "null"
        /\ UNCHANGED streamVars
     \/ /\ m_output_file = "null"
        /\ m_output_file' = "open"
        /\ linked' = TRUE
        /\ disk' = <<>>
     \/ /\ m_output_file = "null"
        /\ m_output_file' = "closed"
        /\ UNCHANGED <<linked, disk>>
  /\ UNCHANGED <<setting, statusVars, dataVars, callVars, piece, endVars, ub>>

\* A stream that is not open is opened again, to append; if that fails as well,
\* so does the request.
CheckStream ==
  /\ pcW = "check"
  /\ \/ /\ m_output_file = "open"
        /\ pcW' = "write"
        /\ UNCHANGED <<streamVars, m_error, callVars, ub>>
     \/ /\ m_output_file = "closed"
        /\ m_output_file' = "open"
        /\ linked' = TRUE
        /\ disk' = IF disk = NoFile THEN <<>> ELSE disk
        /\ pcW' = "write"
        /\ UNCHANGED <<m_error, callVars, ub>>
     \/ /\ m_output_file = "closed"
        /\ SetError
        /\ pcW' = "idle"
        /\ UNCHANGED <<streamVars, ub>>
     \/ /\ m_output_file = "null"
        /\ ub' = ub \cup {"stream"}
        /\ pcW' = "stuck"
        /\ UNCHANGED <<streamVars, m_error, callVars>>
  /\ UNCHANGED <<setting, m_status, m_paused, m_canceled, dataVars, piece, endVars>>

\* write(), and the callbacks for the bytes read.  A stream that was closed in
\* the meantime takes nothing and nobody asks it.
WriteFile ==
  /\ pcW = "write"
  /\ IF m_output_file = "null"
       THEN /\ ub' = ub \cup {"stream"}
            /\ pcW' = "stuck"
            /\ UNCHANGED <<disk, m_bytes_read>>
       ELSE /\ disk' = IF m_output_file = "open" /\ linked THEN disk \o piece ELSE disk
            /\ m_bytes_read' = m_bytes_read + Len(piece)
            /\ pcW' = "idle"
            /\ UNCHANGED ub
  /\ UNCHANGED <<setting, statusVars, m_output_file, linked, m_response, callVars,
                 piece, endVars>>

AddNext == AddToMemory \/ RefuseEmptyPath \/ OpenStream \/ CheckStream \/ WriteFile

\* The Handler is in none of these calls.
HandlerFree == step[Handler] = "idle" /\ pcW = "idle"
=============================================================================

------------------------------ MODULE Transfer ------------------------------
(***************************************************************************)
(* What an exchange promises the client of a request: bytes are handed     *)
(* over in the order of the body, nothing is taken back or read after the  *)
(* outcome, and the one outcome there may be is "done" only with the whole *)
(* body.  Of a peer that is not punctual only the order is promised, as a  *)
(* size that arrives in pieces is misread.  Phases, pauses, framings, the  *)
(* output and second exchanges are left to RequestExchange, which          *)
(* implements this specification.                                          *)
(***************************************************************************)
EXTENDS SequencesExt

CONSTANT Bodies    \* what peers have to send

VARIABLES
  body, punctual,  \* what this peer sends, and whether sizes arrive whole
  got,             \* what was handed over
  outcome          \* the outcomes announced: none, "done" or "failed"

transferVars == <<body, punctual, got, outcome>>

TransferInit ==
  /\ body \in Bodies
  /\ punctual \in BOOLEAN
  /\ got = <<>>
  /\ outcome = {}

\* addResponseData() is handed the next bytes.
Receive ==
  /\ outcome = {}
  /\ IsStrictPrefix(got, got')
  /\ punctual => IsPrefix(got', body)
  /\ UNCHANGED <<body, punctual, outcome>>

\* The callbacks of a finished request are invoked, setStatus(DONE).
Complete ==
  /\ outcome = {}
  /\ punctual => got = body
  /\ outcome' = {"done"}
  /\ UNCHANGED <<body, punctual, got>>

\* Those of a failed request, setError(), at any time before that.
Fail ==
  /\ outcome = {}
  /\ outcome' = {"failed"}
  /\ UNCHANGED <<body, punctual, got>>

TransferNext == Receive \/ Complete \/ Fail

TransferSpec == TransferInit /\ [][TransferNext]_transferVars
=============================================================================

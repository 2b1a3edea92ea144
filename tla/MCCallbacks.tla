----------------------------- MODULE MCCallbacks ----------------------------
(* An instance of RequestCallbacks for TLC: the handler's thread and a user. *)
EXTENDS RequestCallbacks

MCBegins == "handler" :> {"bytes", "DONE"} @@ "user" :> {"PAUSED", "RESUMED"}

Offer(form, event, signature, object) ==
  [form |-> form, list |-> <<event, signature>>, object |-> object]

MCOffers == {
  Offer("functor", "bytes", "both", "o"), Offer("functor", "status", "value", "o"),
  Offer("weak", "resumed", "void", "o"), Offer("weak", "paused", "void", "o"),
  Offer("weak", "status", "void", "o"), Offer("raw", "finished", "void", "p")}
=============================================================================

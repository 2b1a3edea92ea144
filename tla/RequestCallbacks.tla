-------------------------- MODULE RequestCallbacks --------------------------
(***************************************************************************)
(* The callbacks of tristan::network::NetworkRequestBase                   *)
(* (inc/network_request_base.hpp, src/network_request_base.cpp): the lists *)
(* that the add...Callback() functions fill and the notifyWhen...()        *)
(* functions walk through, in any number of threads and without a lock.    *)
(*                                                                         *)
(* What else setStatus() and addResponseData() do is in NetworkRequest;    *)
(* here they are announcements, each a plan of lists to walk through.  A   *)
(* callback may make another announcement and register other callbacks.    *)
(***************************************************************************)
EXTENDS Naturals, SequencesExt, RecursiveSequences

CONSTANTS
  Threads,       \* the handler's thread and the users'
  Begins,        \* the announcements that each thread makes
  Inside,        \* the announcements that callbacks make
  Objects,       \* the objects whose members are registered
  Offers,        \* the callbacks that the client registers
  Careful,       \* does the client keep to the discipline described below?
  MaxAnnounced,  \* how many announcements are made (a bound of the model)
  MaxRegistered, \* how many callbacks are registered (a bound of the model)
  MaxDepth       \* how deep they are nested (a bound of the model)

Announcements == {"bytes", "WAITING", "WRITING", "READING", "PROCESSED", "PAUSED",
                  "RESUMED", "CANCELED", "ERROR", "DONE"}

\* A callback is a functor, or a member of an object that is held by a weak_ptr
\* or by a plain pointer; it is registered for a list: an event and a signature.
Forms == {"functor", "weak", "raw"}
Events == {"bytes", "status", "paused", "resumed", "canceled", "finished", "failed"}
Signatures == {"void", "id", "value", "both"}
Lists == Events \X Signatures

\* The other overloads have no list or do not compile: the lambda made of the
\* member does not fit the list it is put into.
Compiles(offer) ==
  LET event == offer.list[1]
      signature == offer.list[2]
  IN CASE event = "bytes" ->
            signature = "value" \/ (signature = "both" /\ offer.form = "functor")
       [] event = "paused" ->
            signature = "void" \/ (signature = "id" /\ offer.form = "functor")
       [] event \in {"resumed", "canceled"} -> signature \in {"void", "id"}
       [] event = "failed" -> TRUE
       [] OTHER -> offer.form = "functor" \/ signature \in {"void", "id"}

ASSUME CallbacksAssumption ==
  /\ Begins \in [Threads -> SUBSET Announcements]
  /\ Inside \subseteq Announcements
  /\ Offers \subseteq [form : Forms, list : Lists, object : Objects]
  /\ \A offer \in Offers : Compiles(offer)
  /\ Careful \in BOOLEAN
  /\ MaxAnnounced \in Nat /\ MaxRegistered \in Nat /\ MaxDepth \in Nat

VARIABLES
  registered,  \* history: the callbacks, in the order of their registration
  lists,       \* the vectors, of places in registered
  frames,      \* for each thread its announcements, the innermost last
  alive,       \* the objects that their owners have not given up
  made,        \* how many announcements were made
  ub           \* history: has something undefined happened?

vars == <<registered, lists, frames, alive, made, ub>>

-----------------------------------------------------------------------------
(* The plan of an announcement: what notifyWhenStatusChanged() and then    *)
(* the function for the event walk through.                                *)

Two(event) == <<<<event, "void">>, <<event, "id">>>>
Four(event) == Two(event) \o <<<<event, "value">>, <<event, "both">>>>

EventPlan ==
  [a \in Announcements |->
     CASE a = "PAUSED" -> Two("paused")
       [] a = "RESUMED" -> Two("resumed")
       [] a = "CANCELED" -> Two("canceled")
       [] a = "DONE" -> Four("finished")
       [] a = "ERROR" -> Four("failed")
       [] OTHER -> <<>>]

Plan(a) ==
  IF a = "bytes" THEN <<<<"bytes", "value">>, <<"bytes", "both">>>>
  ELSE Four("status") \o EventPlan[a]

\* (A slip: members for the status changed callbacks are not the only ones that go
\* to other lists.)
ListForResumedPaused(offer) ==
  CASE offer.form # "functor" /\ offer.list[1] = "status" ->
         <<"finished", offer.list[2]>>
    [] offer.form # "functor" /\ offer.list[1] = "resumed" ->
         <<"paused", offer.list[2]>>
    [] OTHER -> offer.list

\* Members for the status changed callbacks go to the lists of the finished ones.
Strays(offer) == offer.form # "functor" /\ offer.list[1] = "status"

ListFor(offer) ==
  IF Strays(offer) THEN <<"finished", offer.list[2]>> ELSE offer.list

\* The callbacks that are due at a list: those that were registered for it, but a
\* member for status changes at the end of the request, where the code has put it.
DueIn(list) ==
  {c \in DOMAIN registered :
     IF Strays(registered[c]) THEN list = <<"finished", registered[c].list[2]>>
     ELSE list = registered[c].list}

\* The callbacks that are due when a is announced.
Due(a) ==
  LET due(list) == Keep([c \in DOMAIN registered |-> c], DueIn(list))
  IN FlattenSeq([i \in DOMAIN Plan(a) |-> due(Plan(a)[i])])

-----------------------------------------------------------------------------
(* Frames.  The list that a frame is in is at place k of its plan; next    *)
(* and end are the iterators of the loop, next = 0 before it begins.       *)

Frame(a) ==
  [what |-> a, k |-> 1, next |-> 0, end |-> 0, running |-> FALSE,
   due |-> Due(a), called |-> <<>>]

FrameOK(f) ==
  /\ f.what \in Announcements
  /\ f.k \in 1..(Len(Plan(f.what)) + 1)
  /\ f.end \in Nat
  /\ f.next \in 0..(f.end + 1)
  /\ f.running \in BOOLEAN
  /\ f.running => f.next \in 1..f.end

AllFrames == UNION {ToSet(frames[t]) : t \in Threads}

Top(t) == frames[t][Len(frames[t])]

ListOf(f) == Plan(f.what)[f.k]

\* The loop of f is in the list, with its iterators.
IsIn(f, list) == f.next > 0 /\ ListOf(f) = list

\* The list is still ahead of f, or it is in it.
MayUse(f, list) == \E i \in f.k..Len(Plan(f.what)) : Plan(f.what)[i] = list

Callback(f) == registered[lists[ListOf(f)][f.next]]

\* (A slip: a weak_ptr is tested with expired() and not locked.)
HoldsNot(offer) == FALSE

\* The lambda holds the object while the member runs.
Holds(offer) == offer.form = "weak"

Exists(o) ==
  o \in alive \/ \E f \in AllFrames :
    f.running /\ Callback(f).object = o /\ Holds(Callback(f))

CallbacksTypeOK ==
  /\ registered \in Seq(Offers)
  /\ lists \in [Lists -> Seq(DOMAIN registered)]
  /\ \A t \in Threads : \A i \in DOMAIN frames[t] : FrameOK(frames[t][i])
  /\ alive \subseteq Objects
  /\ made \in Nat
  /\ ub \in BOOLEAN

CallbacksInit ==
  /\ registered = <<>>
  /\ lists = [l \in Lists |-> <<>>]
  /\ frames = [t \in Threads |-> <<>>]
  /\ alive = Objects
  /\ made = 0
  /\ ub = FALSE

-----------------------------------------------------------------------------
(* Announcing.                                                             *)

SetTop(t, f) == frames' = [frames EXCEPT ![t][Len(frames[t])] = f]

\* setStatus(), setError() or addResponseData(), by a thread or by a callback.
Announce(t, a) ==
  /\ made < MaxAnnounced
  /\ IF frames[t] = <<>> THEN a \in Begins[t]
     ELSE a \in Inside /\ Top(t).running /\ Len(frames[t]) < MaxDepth
  /\ made' = made + 1
  /\ frames' = [frames EXCEPT ![t] = Append(@, Frame(a))]
  /\ UNCHANGED <<registered, lists, alive, ub>>

\* The next list: it is empty, or the loop begins with its begin() and end().
EnterList(t) ==
  /\ frames[t] # <<>>
  /\ LET f == Top(t) IN
       /\ f.next = 0
       /\ f.k <= Len(Plan(f.what))
       /\ SetTop(t, IF lists[ListOf(f)] = <<>> THEN [f EXCEPT !.k = @ + 1]
                    ELSE [f EXCEPT !.next = 1, !.end = Len(lists[ListOf(f)])])
  /\ UNCHANGED <<registered, lists, alive, made, ub>>

\* A functor is called.  That of a member finds its object, or a weak_ptr that has
\* expired, or uses a plain pointer to what is no object any more.
Invoke(t) ==
  /\ frames[t] # <<>>
  /\ LET f == Top(t)
         offer == Callback(f)
     IN
       /\ f.next > 0 /\ f.next <= f.end /\ ~f.running
       /\ SetTop(t, [f EXCEPT !.running = TRUE,
                              !.called = Append(@, lists[ListOf(f)][f.next])])
       /\ offer.form = "weak" => Exists(offer.object)
       /\ ub' = (ub \/ (offer.form = "raw" /\ ~Exists(offer.object)))
  /\ UNCHANGED <<registered, lists, alive, made>>

\* A weak_ptr whose object is gone: the member is not called.
PassOver(t) ==
  /\ frames[t] # <<>>
  /\ LET f == Top(t) IN
       /\ f.next > 0 /\ f.next <= f.end /\ ~f.running
       /\ Callback(f).form = "weak" /\ ~Exists(Callback(f).object)
       /\ SetTop(t, [f EXCEPT !.next = @ + 1,
                              !.called = Append(@, lists[ListOf(f)][f.next])])
  /\ UNCHANGED <<registered, lists, alive, made, ub>>

\* (A slip: a callback that returns takes its neighbour with it.)
ReturnPastTheNext(t) ==
  /\ frames[t] # <<>>
  /\ Top(t).running
  /\ SetTop(t, [Top(t) EXCEPT !.running = FALSE, !.next = @ + 2])
  /\ UNCHANGED <<registered, lists, alive, made, ub>>

Return(t) ==
  /\ frames[t] # <<>>
  /\ Top(t).running
  /\ SetTop(t, [Top(t) EXCEPT !.running = FALSE, !.next = @ + 1])
  /\ UNCHANGED <<registered, lists, alive, made, ub>>

LeaveList(t) ==
  /\ frames[t] # <<>>
  /\ LET f == Top(t) IN
       /\ f.next > f.end /\ f.end > 0
       /\ SetTop(t, [f EXCEPT !.next = 0, !.end = 0, !.k = @ + 1])
  /\ UNCHANGED <<registered, lists, alive, made, ub>>

\* All lists are done.
Announced(t) == frames[t] # <<>> /\ Top(t).k > Len(Plan(Top(t).what))

EndAnnouncement(t) ==
  /\ Announced(t)
  /\ frames' = [frames EXCEPT ![t] = Front(@)]
  /\ UNCHANGED <<registered, lists, alive, made, ub>>

-----------------------------------------------------------------------------
(* The client.  A careful one registers a callback only while no thread    *)
(* announces its event, a member for status changes only while nothing is  *)
(* announced, and keeps the objects that it has registered by a plain      *)
(* pointer.                                                                *)

RegisterCarefully(offer) ==
  /\ \A f \in AllFrames : ~Strays(offer) /\ ~MayUse(f, offer.list)
  /\ offer.form = "raw" => offer.object \in alive

\* emplace_back(): a vector whose capacity is used up moves its elements, which
\* leaves the iterators of every loop in it dangling.  (It doubles each time.)
Reallocates(n) == n \in {0, 1, 2, 4, 8, 16}

Register(t, offer) ==
  /\ frames[t] # <<>> => Top(t).running
  /\ Careful => RegisterCarefully(offer)
  /\ Len(registered) < MaxRegistered
  /\ registered' = Append(registered, offer)
  /\ LET list == ListFor(offer) IN
       /\ lists' = [lists EXCEPT ![list] = Append(@, Len(registered) + 1)]
       /\ ub' = (ub \/ (/\ Reallocates(Len(lists[list]))
                        /\ \E f \in AllFrames : IsIn(f, list)))
  /\ UNCHANGED <<frames, alive, made>>

\* The owner of an object gives it up; what a callback holds lives on until then.
GiveUp(o) ==
  /\ o \in alive
  /\ Careful => \A c \in DOMAIN registered :
                  registered[c].object = o => registered[c].form # "raw"
  /\ alive' = alive \ {o}
  /\ ub' = (ub \/ \E f \in AllFrames :
                    /\ f.running /\ Callback(f).object = o
                    /\ Callback(f).form # "functor" /\ ~Holds(Callback(f))
                    /\ ~\E g \in AllFrames : g.running /\ Callback(g).object = o
                                             /\ Holds(Callback(g)))
  /\ UNCHANGED <<registered, lists, frames, made>>

CallbacksNext ==
  \/ \E t \in Threads :
       \/ \E a \in Announcements : Announce(t, a)
       \/ EnterList(t) \/ Invoke(t) \/ PassOver(t) \/ Return(t) \/ LeaveList(t)
       \/ EndAnnouncement(t)
       \/ \E offer \in Offers : Register(t, offer)
  \/ \E o \in Objects : GiveUp(o)

CallbacksSpec == CallbacksInit /\ [][CallbacksNext]_vars

-----------------------------------------------------------------------------
(* Properties.                                                             *)

\* Lines 20-139: when an announcement is over, every callback that was due in its lists
\* before it began was called once, in the order of the lists and of the
\* registrations, and no other was, whatever other threads and the callbacks
\* themselves announce meanwhile, and register as a careful client does.  A member that
\* is registered for changes of the status is due when the request is finished and on
\* no other change (inc/network_request_base.hpp:966-996), although line 449 says that
\* it "will be invoked when network request status had changed".
EachDueOnce ==
  \A t \in Threads :
    Careful /\ Announced(t) => Top(t).called = Top(t).due

\* No loop uses iterators of a vector that has moved and no member runs on an object
\* that is gone, if the client is careful.
NothingUndefined == Careful => ~ub
=============================================================================

---------------------- MODULE RequestCallbacks_proofs ----------------------
(***************************************************************************)
(* Proofs about RequestCallbacks, for every set of threads, of objects and *)
(* of callbacks: the types, and that nothing undefined happens while the   *)
(* client is careful.                                                      *)
(***************************************************************************)
EXTENDS RequestCallbacks, SequenceLemmas, TLAPS

\* A frame whose history fields are in D, which is any set that is large enough.
FrameSet(D) ==
  [what : Announcements, k : Nat, next : Nat, end : Nat, running : BOOLEAN,
   due : D, called : D]

FramesIn(D) == frames \in [Threads -> Seq(FrameSet(D))]

\* A loop that has begun is in a list of its plan, and no farther than its end.
LoopOK(f) ==
  f.next > 0 => f.k <= Len(Plan(f.what)) /\ f.end <= Len(lists[ListOf(f)])

FramesOK ==
  \A t \in Threads : \A i \in 1..Len(frames[t]) :
    FrameOK(frames[t][i]) /\ LoopOK(frames[t][i])

RawAlive ==
  Careful => \A c \in DOMAIN registered :
               registered[c].form = "raw" => registered[c].object \in alive

CallbacksInv ==
  /\ CallbacksTypeOK
  /\ \E D : FramesIn(D)
  /\ FramesOK
  /\ RawAlive
  /\ NothingUndefined

-----------------------------------------------------------------------------
(* Plans.                                                                  *)

LEMMA PlanIsSeq == \A a \in Announcements : Plan(a) \in Seq(Lists)
<1>1. \A e \in Events : Two(e) \in Seq(Lists)
  BY DEF Two, Lists, Signatures
<1>2. \A e \in Events : <<<<e, "value">>, <<e, "both">>>> \in Seq(Lists)
  BY DEF Lists, Signatures
<1>3. \A e \in Events : Four(e) \in Seq(Lists)
  BY <1>1, <1>2, ConcatProperties DEF Four
<1>4. \A a \in Announcements : EventPlan[a] \in Seq(Lists)
  <2> SUFFICES ASSUME NEW a \in Announcements PROVE EventPlan[a] \in Seq(Lists)
    OBVIOUS
  <2>1. <<>> \in Seq(Lists)
    OBVIOUS
  <2> QED
    BY <1>1, <1>3, <2>1 DEF EventPlan, Announcements, Events
<1>5. Four("status") \in Seq(Lists) /\ "bytes" \in Events
  BY <1>3 DEF Events
<1> QED
  BY <1>2, <1>4, <1>5, ConcatProperties DEF Plan

LEMMA PlanPlaces ==
  ASSUME NEW a \in Announcements
  PROVE  /\ Len(Plan(a)) \in Nat
         /\ \A k \in 1..Len(Plan(a)) : Plan(a)[k] \in Lists
BY PlanIsSeq, LenProperties, ElementOfSeq

LEMMA ListForIsList == \A offer \in Offers : ListFor(offer) \in Lists
<1> SUFFICES ASSUME NEW offer \in Offers PROVE ListFor(offer) \in Lists
  OBVIOUS
<1>1. offer.list \in Lists
  BY CallbacksAssumption
<1>2. offer.list[2] \in Signatures
  BY <1>1 DEF Lists
<1>3. <<"finished", offer.list[2]>> \in Lists
  BY <1>2 DEF Lists, Events
<1> QED
  BY <1>1, <1>3 DEF ListFor

-----------------------------------------------------------------------------
(* How the stacks of frames change.                                        *)

LEMMA WiderFrames ==
  ASSUME NEW D, NEW E, D \subseteq E, FramesIn(D)
  PROVE  FramesIn(E)
<1>1. FrameSet(D) \subseteq FrameSet(E)
  BY DEF FrameSet
<1>2. \A s \in Seq(FrameSet(D)) : s \in Seq(FrameSet(E))
  BY <1>1
<1> QED
  BY <1>2 DEF FramesIn

\* The innermost frame of a thread that announces something.
LEMMA TopIsFrame ==
  ASSUME NEW D, FramesIn(D), FramesOK, NEW t \in Threads, frames[t] # <<>>
  PROVE  /\ Len(frames[t]) \in Nat \ {0}
         /\ Top(t) = frames[t][Len(frames[t])]
         /\ Top(t) \in FrameSet(D)
         /\ FrameOK(Top(t)) /\ LoopOK(Top(t))
<1>1. frames[t] \in Seq(FrameSet(D))
  BY DEF FramesIn
<1>2. Len(frames[t]) \in Nat \ {0}
  BY <1>1, EmptySeq, LenProperties
<1>3. frames[t][Len(frames[t])] \in FrameSet(D)
  BY <1>1, <1>2, ElementOfSeq
<1> QED
  BY <1>2, <1>3 DEF Top, FramesOK

LEMMA SetTopFrames ==
  ASSUME NEW D, FramesIn(D), NEW t \in Threads, frames[t] # <<>>,
         NEW f \in FrameSet(D), SetTop(t, f)
  PROVE  /\ FramesIn(D)'
         /\ \A u \in Threads :
              /\ Len(frames'[u]) = Len(frames[u])
              /\ \A i \in 1..Len(frames[u]) :
                   frames'[u][i] = IF u = t /\ i = Len(frames[t]) THEN f
                                   ELSE frames[u][i]
<1> DEFINE s == frames[t]
           r == [s EXCEPT ![Len(s)] = f]
<1>1. s \in Seq(FrameSet(D))
  BY DEF FramesIn
<1>2. Len(s) \in Nat \ {0}
  BY <1>1, EmptySeq, LenProperties
<1>3. /\ r \in Seq(FrameSet(D)) /\ Len(r) = Len(s)
      /\ \A i \in 1..Len(s) : r[i] = IF i = Len(s) THEN f ELSE s[i]
  BY <1>1, <1>2, ExceptSeq
<1>4. frames' = [frames EXCEPT ![t] = r]
  BY DEF SetTop
<1> QED
  BY <1>3, <1>4 DEF FramesIn

Push(t, f) == frames' = [frames EXCEPT ![t] = Append(@, f)]

LEMMA PushFrames ==
  ASSUME NEW D, FramesIn(D), NEW t \in Threads, NEW f \in FrameSet(D), Push(t, f)
  PROVE  /\ FramesIn(D)'
         /\ \A u \in Threads : \A i \in 1..Len(frames'[u]) :
              \/ frames'[u][i] = f
              \/ i \in 1..Len(frames[u]) /\ frames'[u][i] = frames[u][i]
<1> DEFINE s == frames[t]
           r == Append(s, f)
<1>1. s \in Seq(FrameSet(D))
  BY DEF FramesIn
<1>2. /\ r \in Seq(FrameSet(D)) /\ Len(r) = Len(s) + 1
      /\ \A i \in 1..Len(s) : r[i] = s[i]
      /\ r[Len(s) + 1] = f
  BY <1>1, AppendProperties
<1>3. Len(s) \in Nat
  BY <1>1, LenProperties
<1>4. \A i \in 1..Len(r) : r[i] = f \/ (i \in 1..Len(s) /\ r[i] = s[i])
  BY <1>2, <1>3
<1>5. frames' = [frames EXCEPT ![t] = r]
  BY DEF Push
<1> QED
  BY <1>2, <1>4, <1>5 DEF FramesIn

LEMMA PopFrames ==
  ASSUME NEW D, FramesIn(D), NEW t \in Threads, frames[t] # <<>>,
         frames' = [frames EXCEPT ![t] = Front(@)]
  PROVE  /\ FramesIn(D)'
         /\ \A u \in Threads : \A i \in 1..Len(frames'[u]) :
              i \in 1..Len(frames[u]) /\ frames'[u][i] = frames[u][i]
<1> DEFINE s == frames[t]
           r == Front(s)
<1>1. s \in Seq(FrameSet(D))
  BY DEF FramesIn
<1>2. Len(s) \in Nat \ {0}
  BY <1>1, EmptySeq, LenProperties
<1>3. /\ r \in Seq(FrameSet(D)) /\ Len(r) = Len(s) - 1
      /\ \A i \in 1..Len(r) : r[i] = s[i]
  BY <1>1, <1>2 DEF Front
<1>4. \A i \in 1..Len(r) : i \in 1..Len(s)
  BY <1>2, <1>3
<1>5. frames' = [frames EXCEPT ![t] = r]
  OBVIOUS
<1> QED
  BY <1>3, <1>4, <1>5 DEF FramesIn

-----------------------------------------------------------------------------
(* The steps of a loop.                                                    *)

LEMMA ListPlaces ==
  ASSUME CallbacksTypeOK, NEW l \in Lists
  PROVE  /\ Len(lists[l]) \in Nat
         /\ \A i \in 1..Len(lists[l]) : lists[l][i] \in DOMAIN registered
<1>1. lists[l] \in Seq(DOMAIN registered)
  BY DEF CallbacksTypeOK
<1> QED
  BY <1>1, LenProperties, ElementOfSeq

\* What a loop that has begun stands at is a callback that was registered.
LEMMA CallbackIsOffer ==
  ASSUME CallbacksTypeOK, NEW f, FrameOK(f), LoopOK(f), f.next \in 1..f.end
  PROVE  /\ lists[ListOf(f)][f.next] \in DOMAIN registered
         /\ Callback(f) = registered[lists[ListOf(f)][f.next]]
         /\ Callback(f) \in Offers
<1>1. f.what \in Announcements /\ f.k \in 1..Len(Plan(f.what))
  BY PlanPlaces DEF FrameOK, LoopOK
<1>2. ListOf(f) \in Lists
  BY <1>1, PlanPlaces DEF ListOf
<1>3. f.next \in 1..Len(lists[ListOf(f)])
  BY <1>2, ListPlaces DEF FrameOK, LoopOK
<1>4. lists[ListOf(f)][f.next] \in DOMAIN registered
  BY <1>2, <1>3, ListPlaces
<1>5. registered \in Seq(Offers)
  BY DEF CallbacksTypeOK
<1>6. \A c \in DOMAIN registered : registered[c] \in Offers
  BY <1>5, LenProperties, ElementOfSeq
<1> QED
  BY <1>4, <1>6 DEF Callback

LEMMA TypeOfFrames ==
  ASSUME NEW D, FramesIn(D), FramesOK, NEW t \in Threads, NEW i \in DOMAIN frames[t]
  PROVE  FrameOK(frames[t][i])
<1>1. frames[t] \in Seq(FrameSet(D))
  BY DEF FramesIn
<1>2. i \in 1..Len(frames[t])
  BY <1>1, LenProperties
<1> QED
  BY <1>2 DEF FramesOK

\* A step of a loop preserves the invariant if the frame it leaves is in order.
LEMMA LoopStep ==
  ASSUME CallbacksInv, NEW D, FramesIn(D), NEW t \in Threads, frames[t] # <<>>,
         NEW f \in FrameSet(D), FrameOK(f), LoopOK(f), SetTop(t, f),
         UNCHANGED <<registered, lists, alive, made>>, ub' \in BOOLEAN,
         Careful => ~ub'
  PROVE  CallbacksInv'
<1>1. /\ FramesIn(D)'
      /\ \A u \in Threads :
           /\ Len(frames'[u]) = Len(frames[u])
           /\ \A i \in 1..Len(frames[u]) :
                frames'[u][i] = IF u = t /\ i = Len(frames[t]) THEN f
                                ELSE frames[u][i]
  BY SetTopFrames
<1>2. \A g : LoopOK(g)' <=> LoopOK(g)
  BY DEF LoopOK, ListOf
<1>3. FramesOK'
  BY <1>1, <1>2 DEF FramesOK, CallbacksInv
<1>4. \A u \in Threads : \A i \in DOMAIN frames'[u] : FrameOK(frames'[u][i])
  <2> SUFFICES ASSUME NEW u \in Threads, NEW i \in DOMAIN frames'[u]
               PROVE  FrameOK(frames'[u][i])
    OBVIOUS
  <2>1. frames'[u] \in Seq(FrameSet(D))
    BY <1>1 DEF FramesIn
  <2>2. i \in 1..Len(frames'[u])
    BY <2>1, LenProperties
  <2> QED
    BY <1>3, <2>2 DEF FramesOK
<1>5. CallbacksTypeOK'
  BY <1>4 DEF CallbacksInv, CallbacksTypeOK
<1>6. RawAlive'
  BY DEF CallbacksInv, RawAlive
<1> QED
  BY <1>1, <1>3, <1>5, <1>6 DEF CallbacksInv, NothingUndefined

LEMMA EnterListStep ==
  ASSUME CallbacksInv, NEW t \in Threads, EnterList(t)
  PROVE  CallbacksInv'
<1>1. PICK D : FramesIn(D)
  BY DEF CallbacksInv
<1> DEFINE f == Top(t)
           g == IF lists[ListOf(f)] = <<>> THEN [f EXCEPT !.k = @ + 1]
                ELSE [f EXCEPT !.next = 1, !.end = Len(lists[ListOf(f)])]
<1>2. frames[t] # <<>> /\ f.next = 0 /\ f.k <= Len(Plan(f.what)) /\ SetTop(t, g)
  BY DEF EnterList
<1>3. f \in FrameSet(D) /\ FrameOK(f) /\ LoopOK(f)
  BY <1>1, <1>2, TopIsFrame DEF CallbacksInv
<1>4. f.what \in Announcements /\ f.k \in 1..Len(Plan(f.what))
  BY <1>2, <1>3, PlanPlaces DEF FrameOK
<1>5. ListOf(f) \in Lists
  BY <1>4, PlanPlaces DEF ListOf
<1>6. Len(lists[ListOf(f)]) \in Nat /\ Len(Plan(f.what)) \in Nat
  BY <1>4, <1>5, ListPlaces, PlanPlaces DEF CallbacksInv
<1>7. g \in FrameSet(D) /\ FrameOK(g) /\ LoopOK(g)
  <2>1. ~f.running
    BY <1>2, <1>3 DEF FrameOK
  <2>2. CASE lists[ListOf(f)] = <<>>
    <3>1. g \in FrameSet(D)
      BY <1>3, <2>2 DEF FrameSet
    <3>2. /\ g.what = f.what /\ g.k = f.k + 1 /\ g.next = 0
          /\ g.end = f.end /\ g.running = f.running
      BY <1>2, <1>3, <2>2 DEF FrameSet
    <3> QED
      BY <1>3, <1>4, <1>6, <2>1, <3>1, <3>2 DEF FrameOK, LoopOK
  <2>3. CASE lists[ListOf(f)] # <<>>
    <3>1. g \in FrameSet(D)
      BY <1>3, <1>6, <2>3 DEF FrameSet
    <3>2. /\ g.what = f.what /\ g.k = f.k /\ g.next = 1
          /\ g.end = Len(lists[ListOf(f)]) /\ g.running = f.running
      BY <1>3, <2>3 DEF FrameSet
    <3> QED
      BY <1>3, <1>4, <1>6, <2>1, <3>1, <3>2 DEF FrameOK, LoopOK, ListOf
  <2> QED
    BY <2>2, <2>3
<1> QED
  BY <1>1, <1>2, <1>7, LoopStep
     DEF EnterList, CallbacksInv, CallbacksTypeOK, NothingUndefined

LEMMA InvokeStep ==
  ASSUME CallbacksInv, NEW t \in Threads, Invoke(t)
  PROVE  CallbacksInv'
<1>1. PICK D : FramesIn(D)
  BY DEF CallbacksInv
<1> DEFINE f == Top(t)
           called == Append(f.called, lists[ListOf(f)][f.next])
           g == [f EXCEPT !.running = TRUE, !.called = called]
           E == D \cup {called}
<1>2. /\ frames[t] # <<>> /\ f.next > 0 /\ f.next <= f.end /\ SetTop(t, g)
      /\ ub' = (ub \/ (Callback(f).form = "raw" /\ ~Exists(Callback(f).object)))
  BY DEF Invoke
<1>3. f \in FrameSet(D) /\ FrameOK(f) /\ LoopOK(f)
  BY <1>1, <1>2, TopIsFrame DEF CallbacksInv
<1>4. FramesIn(E)
  BY <1>1, WiderFrames
<1>5. g \in FrameSet(E) /\ FrameOK(g) /\ LoopOK(g)
  <2>1. g \in FrameSet(E)
    BY <1>3 DEF FrameSet
  <2>2. /\ g.what = f.what /\ g.k = f.k /\ g.next = f.next
        /\ g.end = f.end /\ g.running = TRUE
    BY <1>3 DEF FrameSet
  <2> QED
    BY <1>2, <1>3, <2>1, <2>2 DEF FrameOK, LoopOK, ListOf
<1>6. Careful => ~ub'
  <2>1. f.next \in 1..f.end
    BY <1>2, <1>3 DEF FrameOK
  <2>2. /\ lists[ListOf(f)][f.next] \in DOMAIN registered
        /\ Callback(f) = registered[lists[ListOf(f)][f.next]]
    BY <1>3, <2>1, CallbackIsOffer DEF CallbacksInv
  <2>3. Careful /\ Callback(f).form = "raw" => Callback(f).object \in alive
    BY <2>2 DEF CallbacksInv, RawAlive
  <2> QED
    BY <1>2, <2>3 DEF CallbacksInv, NothingUndefined, Exists
<1>7. ub' \in BOOLEAN
  BY <1>2 DEF CallbacksInv, CallbacksTypeOK
<1> QED
  BY <1>2, <1>4, <1>5, <1>6, <1>7, LoopStep DEF Invoke

\* PassOver, Return and LeaveList: nothing but the innermost frame changes.
LEMMA OtherLoopSteps ==
  ASSUME CallbacksInv, NEW t \in Threads,
         PassOver(t) \/ Return(t) \/ LeaveList(t)
  PROVE  CallbacksInv'
<1>1. PICK D : FramesIn(D)
  BY DEF CallbacksInv
<1> DEFINE f == Top(t)
           called == Append(f.called, lists[ListOf(f)][f.next])
           E == D \cup {called}
<1>2. frames[t] # <<>>
  BY DEF PassOver, Return, LeaveList
<1>3. f \in FrameSet(D) /\ FrameOK(f) /\ LoopOK(f)
  BY <1>1, <1>2, TopIsFrame DEF CallbacksInv
<1>4. FramesIn(E)
  BY <1>1, WiderFrames
<1>5. ub \in BOOLEAN /\ (Careful => ~ub)
  BY DEF CallbacksInv, CallbacksTypeOK, NothingUndefined
<1>6. f.what \in Announcements /\ Len(Plan(f.what)) \in Nat
  BY <1>3, PlanPlaces DEF FrameOK
<1>7. f.next \in Nat /\ f.k \in Nat /\ f.next + 1 \in Nat /\ f.k + 1 \in Nat
  BY <1>3 DEF FrameSet
<1>8. CASE PassOver(t)
  <2> DEFINE g == [f EXCEPT !.next = @ + 1, !.called = called]
  <2>1. f.next > 0 /\ f.next <= f.end /\ ~f.running /\ SetTop(t, g)
    BY <1>8 DEF PassOver
  <2>2. g \in FrameSet(E)
    BY <1>3, <1>7 DEF FrameSet
  <2>3. /\ g.what = f.what /\ g.k = f.k /\ g.next = f.next + 1
        /\ g.end = f.end /\ g.running = f.running
    BY <1>3 DEF FrameSet
  <2>4. FrameOK(g) /\ LoopOK(g)
    BY <1>3, <2>1, <2>3 DEF FrameOK, LoopOK, ListOf
  <2> QED
    BY <1>2, <1>4, <1>5, <1>8, <2>1, <2>2, <2>4, LoopStep DEF PassOver
<1>9. CASE Return(t)
  <2> DEFINE g == [f EXCEPT !.running = FALSE, !.next = @ + 1]
  <2>1. f.running /\ SetTop(t, g)
    BY <1>9 DEF Return
  <2>2. g \in FrameSet(D)
    BY <1>3, <1>7 DEF FrameSet
  <2>3. /\ g.what = f.what /\ g.k = f.k /\ g.next = f.next + 1
        /\ g.end = f.end /\ g.running = FALSE
    BY <1>3 DEF FrameSet
  <2>4. FrameOK(g) /\ LoopOK(g)
    BY <1>3, <2>1, <2>3 DEF FrameOK, LoopOK, ListOf
  <2> QED
    BY <1>1, <1>2, <1>5, <1>9, <2>1, <2>2, <2>4, LoopStep DEF Return
<1>10. CASE LeaveList(t)
  <2> DEFINE g == [f EXCEPT !.next = 0, !.end = 0, !.k = @ + 1]
  <2>1. f.next > f.end /\ f.end > 0 /\ SetTop(t, g)
    BY <1>10 DEF LeaveList
  <2>2. ~f.running
    BY <1>3, <2>1 DEF FrameOK
  <2>3. f.k <= Len(Plan(f.what))
    BY <1>3, <2>1 DEF FrameOK, LoopOK
  <2>4. g \in FrameSet(D)
    BY <1>3, <1>7 DEF FrameSet
  <2>5. /\ g.what = f.what /\ g.k = f.k + 1 /\ g.next = 0
        /\ g.end = 0 /\ g.running = f.running
    BY <1>3 DEF FrameSet
  <2>6. FrameOK(g) /\ LoopOK(g)
    BY <1>3, <1>6, <2>2, <2>3, <2>5 DEF FrameOK, LoopOK
  <2> QED
    BY <1>1, <1>2, <1>5, <1>10, <2>1, <2>4, <2>6, LoopStep DEF LeaveList
<1> QED
  BY <1>8, <1>9, <1>10

-----------------------------------------------------------------------------
(* The other steps.                                                        *)

\* Types and loops, when frames come and go and the lists stay.
LEMMA FramesChange ==
  ASSUME CallbacksInv, NEW D, FramesIn(D)',
         UNCHANGED <<registered, lists, alive, ub>>, made' \in Nat,
         \A u \in Threads : \A i \in 1..Len(frames'[u]) :
           \/ FrameOK(frames'[u][i]) /\ LoopOK(frames'[u][i])
           \/ i \in 1..Len(frames[u]) /\ frames'[u][i] = frames[u][i]
  PROVE  CallbacksInv'
<1>1. \A u \in Threads : \A i \in 1..Len(frames'[u]) :
        FrameOK(frames'[u][i]) /\ LoopOK(frames'[u][i])
  BY DEF CallbacksInv, FramesOK
<1>2. \A g : LoopOK(g)' <=> LoopOK(g)
  BY DEF LoopOK, ListOf
<1>3. FramesOK'
  BY <1>1, <1>2 DEF FramesOK
<1>4. \A u \in Threads : DOMAIN frames'[u] = 1..Len(frames'[u])
  BY LenProperties DEF FramesIn
<1>5. CallbacksTypeOK'
  BY <1>1, <1>4 DEF CallbacksInv, CallbacksTypeOK
<1>6. RawAlive' /\ NothingUndefined'
  BY DEF CallbacksInv, RawAlive, NothingUndefined
<1> QED
  BY <1>3, <1>5, <1>6 DEF CallbacksInv

LEMMA AnnounceStep ==
  ASSUME CallbacksInv, NEW t \in Threads, NEW a \in Announcements, Announce(t, a)
  PROVE  CallbacksInv'
<1>1. PICK D : FramesIn(D)
  BY DEF CallbacksInv
<1>2. PICK E : E = D \cup {Due(a), <<>>}
  OBVIOUS
<1>3. PICK f : f = Frame(a)
  OBVIOUS
<1>4. FramesIn(E)
  BY <1>1, <1>2, WiderFrames
<1>5. Len(Plan(a)) \in Nat
  BY PlanPlaces
<1>6. f \in FrameSet(E) /\ FrameOK(f) /\ LoopOK(f)
  BY <1>2, <1>3, <1>5 DEF Frame, FrameSet, FrameOK, LoopOK
<1>7. Push(t, f)
  BY <1>3 DEF Announce, Push
<1>8. /\ FramesIn(E)'
      /\ \A u \in Threads : \A i \in 1..Len(frames'[u]) :
           \/ frames'[u][i] = f
           \/ i \in 1..Len(frames[u]) /\ frames'[u][i] = frames[u][i]
  BY <1>4, <1>6, <1>7, PushFrames
<1>9. made' \in Nat
  BY DEF Announce, CallbacksInv, CallbacksTypeOK
<1> QED
  BY <1>6, <1>8, <1>9, FramesChange DEF Announce

LEMMA EndStep ==
  ASSUME CallbacksInv, NEW t \in Threads, EndAnnouncement(t)
  PROVE  CallbacksInv'
<1>1. PICK D : FramesIn(D)
  BY DEF CallbacksInv
<1>2. /\ FramesIn(D)'
      /\ \A u \in Threads : \A i \in 1..Len(frames'[u]) :
           i \in 1..Len(frames[u]) /\ frames'[u][i] = frames[u][i]
  BY <1>1, PopFrames DEF EndAnnouncement, Announced
<1>3. made' \in Nat
  BY DEF EndAnnouncement, CallbacksInv, CallbacksTypeOK
<1> QED
  BY <1>2, <1>3, FramesChange DEF EndAnnouncement

\* A callback that is appended to its list.  A careful client sees to it that no
\* loop is in that list: the list of a stray one it fills only when there is none.
LEMMA RegisterStep ==
  ASSUME CallbacksInv, NEW t \in Threads, NEW offer \in Offers, Register(t, offer)
  PROVE  CallbacksInv'
<1> DEFINE list == ListFor(offer)
           n == Len(registered)
<1>1. PICK D : FramesIn(D)
  BY DEF CallbacksInv
<1>2. list \in Lists
  BY ListForIsList
<1>3. registered \in Seq(Offers) /\ n \in Nat /\ DOMAIN registered = 1..n
  BY LenProperties DEF CallbacksInv, CallbacksTypeOK
<1>4. /\ registered' \in Seq(Offers) /\ DOMAIN registered' = 1..(n + 1)
      /\ \A c \in 1..n : registered'[c] = registered[c]
      /\ registered'[n + 1] = offer
  BY <1>3, AppendProperties, LenProperties DEF Register
<1>5. \A l \in Lists : lists[l] \in Seq(DOMAIN registered')
  <2>1. DOMAIN registered \subseteq DOMAIN registered'
    BY <1>3, <1>4
  <2> QED
    BY <2>1 DEF CallbacksInv, CallbacksTypeOK
<1>6. /\ Append(lists[list], n + 1) \in Seq(DOMAIN registered')
      /\ Len(Append(lists[list], n + 1)) = Len(lists[list]) + 1
  BY <1>2, <1>3, <1>4, <1>5, AppendProperties
<1>7. lists' = [lists EXCEPT ![list] = Append(@, n + 1)]
  BY DEF Register
<1>8. lists' \in [Lists -> Seq(DOMAIN registered')]
  BY <1>2, <1>5, <1>6, <1>7 DEF CallbacksInv, CallbacksTypeOK
<1>9. \A l \in Lists : Len(lists[l]) \in Nat /\ Len(lists'[l]) >= Len(lists[l])
  <2>1. \A l \in Lists : Len(lists[l]) \in Nat
    BY ListPlaces DEF CallbacksInv
  <2>2. \A l \in Lists : Len(lists'[l]) = IF l = list THEN Len(lists[l]) + 1
                                          ELSE Len(lists[l])
    BY <1>2, <1>6, <1>7 DEF CallbacksInv, CallbacksTypeOK
  <2> QED
    BY <2>1, <2>2
<1>10. \A f : FrameOK(f) /\ LoopOK(f) => LoopOK(f)'
  <2> SUFFICES ASSUME NEW f, FrameOK(f), LoopOK(f), f.next > 0
               PROVE  f.k <= Len(Plan(f.what)) /\ f.end <= Len(lists'[ListOf(f)])
    BY DEF LoopOK, ListOf
  <2>1. f.k \in 1..Len(Plan(f.what)) /\ f.what \in Announcements
    BY PlanPlaces DEF FrameOK, LoopOK
  <2>2. ListOf(f) \in Lists
    BY <2>1, PlanPlaces DEF ListOf
  <2>3. f.end \in Nat /\ f.end <= Len(lists[ListOf(f)])
    BY DEF FrameOK, LoopOK
  <2>4. Len(lists'[ListOf(f)]) \in Nat
    BY <1>8, <2>2, LenProperties
  <2> QED
    BY <1>9, <2>1, <2>2, <2>3, <2>4
<1>11. FramesOK' /\ (\E E : FramesIn(E))'
  BY <1>1, <1>10 DEF Register, CallbacksInv, FramesOK, FramesIn
<1>12. CallbacksTypeOK'
  BY <1>4, <1>8 DEF Register, CallbacksInv, CallbacksTypeOK
<1>13. RawAlive'
  <2> SUFFICES ASSUME Careful, NEW c \in DOMAIN registered',
                      registered'[c].form = "raw"
               PROVE  registered'[c].object \in alive
    BY DEF Register, RawAlive
  <2>1. CASE c \in 1..n
    BY <1>3, <1>4, <2>1 DEF CallbacksInv, RawAlive
  <2>2. CASE c = n + 1
    BY <1>4, <2>2 DEF Register, RegisterCarefully
  <2> QED
    BY <1>3, <1>4, <2>1, <2>2
<1>14. NothingUndefined'
  <2> SUFFICES ASSUME Careful, NEW f \in AllFrames, IsIn(f, list)
               PROVE  FALSE
    BY DEF Register, CallbacksInv, NothingUndefined
  <2>1. ~Strays(offer) /\ ~MayUse(f, offer.list)
    BY DEF Register, RegisterCarefully
  <2>2. list = offer.list
    BY <2>1 DEF ListFor
  <2>3. PICK u \in Threads : f \in ToSet(frames[u])
    BY DEF AllFrames
  <2>4. PICK i \in 1..Len(frames[u]) : f = frames[u][i]
    BY <1>1, <2>3, LenProperties DEF ToSet, FramesIn
  <2>5. FrameOK(f) /\ LoopOK(f)
    BY <2>4 DEF CallbacksInv, FramesOK
  <2>6. f.k \in f.k..Len(Plan(f.what)) /\ Plan(f.what)[f.k] = list
    BY <2>5, PlanPlaces DEF FrameOK, LoopOK, IsIn, ListOf
  <2> QED
    BY <2>1, <2>2, <2>6 DEF MayUse
<1> QED
  BY <1>11, <1>12, <1>13, <1>14 DEF CallbacksInv

LEMMA GiveUpStep ==
  ASSUME CallbacksInv, NEW o \in Objects, GiveUp(o)
  PROVE  CallbacksInv'
<1>1. PICK D : FramesIn(D)
  BY DEF CallbacksInv
<1>2. FramesOK' /\ (\E E : FramesIn(E))'
  BY <1>1 DEF GiveUp, CallbacksInv, FramesOK, FramesIn, LoopOK, ListOf
<1>3. CallbacksTypeOK'
  BY DEF GiveUp, CallbacksInv, CallbacksTypeOK
<1>4. RawAlive'
  BY DEF GiveUp, CallbacksInv, RawAlive
<1>5. NothingUndefined'
  <2> SUFFICES ASSUME Careful, NEW f \in AllFrames, f.running,
                      Callback(f).object = o, Callback(f).form # "functor",
                      ~Holds(Callback(f))
               PROVE  FALSE
    BY DEF GiveUp, CallbacksInv, NothingUndefined
  <2>1. PICK u \in Threads : f \in ToSet(frames[u])
    BY DEF AllFrames
  <2>2. PICK i \in 1..Len(frames[u]) : f = frames[u][i]
    BY <1>1, <2>1, LenProperties DEF ToSet, FramesIn
  <2>3. FrameOK(f) /\ LoopOK(f)
    BY <2>2 DEF CallbacksInv, FramesOK
  <2>4. f.next \in 1..f.end
    BY <2>3 DEF FrameOK
  <2>5. /\ lists[ListOf(f)][f.next] \in DOMAIN registered
        /\ Callback(f) = registered[lists[ListOf(f)][f.next]]
        /\ Callback(f) \in Offers
    BY <2>3, <2>4, CallbackIsOffer DEF CallbacksInv
  <2>6. Callback(f).form \in Forms
    BY <2>5, CallbacksAssumption
  <2>7. Callback(f).form = "raw"
    BY <2>6 DEF Forms, Holds
  <2> QED
    BY <2>5, <2>7 DEF GiveUp
<1> QED
  BY <1>2, <1>3, <1>4, <1>5 DEF CallbacksInv

LEMMA CallbacksInvInit == CallbacksInit => CallbacksInv
<1> SUFFICES ASSUME CallbacksInit PROVE CallbacksInv
  OBVIOUS
<1>1. FramesIn({})
  BY DEF CallbacksInit, FramesIn
<1>2. registered = <<>> /\ DOMAIN registered = {}
  BY DEF CallbacksInit
<1>3. FramesOK
  BY DEF CallbacksInit, FramesOK
<1>4. CallbacksTypeOK
  <2>1. <<>> \in Seq(Offers) /\ <<>> \in Seq({}) /\ DOMAIN <<>> = {}
    OBVIOUS
  <2>2. lists \in [Lists -> Seq(DOMAIN registered)]
    BY <1>2, <2>1 DEF CallbacksInit
  <2>3. \A t \in Threads : DOMAIN frames[t] = {}
    BY <2>1 DEF CallbacksInit
  <2> QED
    BY <2>1, <2>2, <2>3 DEF CallbacksInit, CallbacksTypeOK
<1> QED
  BY <1>1, <1>2, <1>3, <1>4 DEF CallbacksInit, CallbacksInv, RawAlive, NothingUndefined

LEMMA CallbacksInvStep == CallbacksInv /\ [CallbacksNext]_vars => CallbacksInv'
<1> SUFFICES ASSUME CallbacksInv, [CallbacksNext]_vars PROVE CallbacksInv'
  OBVIOUS
<1>1. CASE UNCHANGED vars
  BY <1>1 DEF vars, CallbacksInv, CallbacksTypeOK, FramesIn, FramesOK, LoopOK, ListOf,
              RawAlive, NothingUndefined
<1>2. ASSUME NEW t \in Threads, NEW a \in Announcements, Announce(t, a)
      PROVE  CallbacksInv'
  BY <1>2, AnnounceStep
<1>3. ASSUME NEW t \in Threads, EnterList(t) \/ Invoke(t) \/ EndAnnouncement(t)
      PROVE  CallbacksInv'
  BY <1>3, EnterListStep, InvokeStep, EndStep
<1>4. ASSUME NEW t \in Threads, PassOver(t) \/ Return(t) \/ LeaveList(t)
      PROVE  CallbacksInv'
  BY <1>4, OtherLoopSteps
<1>5. ASSUME NEW t \in Threads, NEW offer \in Offers, Register(t, offer)
      PROVE  CallbacksInv'
  BY <1>5, RegisterStep
<1>6. ASSUME NEW o \in Objects, GiveUp(o)
      PROVE  CallbacksInv'
  BY <1>6, GiveUpStep
<1> QED
  BY <1>1, <1>2, <1>3, <1>4, <1>5, <1>6 DEF CallbacksNext

\* The inductive invariant: the types, where loops stand in their lists, and that
\* the objects which a careful client registers by a plain pointer are alive.
THEOREM CallbacksInvHolds == CallbacksSpec => []CallbacksInv
BY CallbacksInvInit, CallbacksInvStep, PTL DEF CallbacksSpec

\* Every iterator stays in its list and every list holds callbacks that were
\* registered, whatever the client does.
THEOREM CallbacksTypeCorrect == CallbacksSpec => []CallbacksTypeOK
<1>1. CallbacksInv => CallbacksTypeOK
  BY DEF CallbacksInv
<1> QED
  BY <1>1, CallbacksInvHolds, PTL

\* For a careful client no vector moves under a loop, and no member runs on an object
\* that is gone: addFinishedCallback() and the others, lines 867-1188 of the header.
THEOREM NothingUndefinedAlways == CallbacksSpec => []NothingUndefined
<1>1. CallbacksInv => NothingUndefined
  BY DEF CallbacksInv
<1> QED
  BY <1>1, CallbacksInvHolds, PTL

-----------------------------------------------------------------------------
(* What is due.                                                            *)

\* The vectors hold the callbacks in the order in which they were registered.
DueLists ==
  \A l \in Lists :
    Keep([c \in DOMAIN registered |-> c], DueIn(l)) = lists[l]

\* How many callbacks of the list it is in a frame has called or passed over.
Past(f) == IF f.running THEN f.next ELSE f.next - 1

Before(f, D) == FlattenSeq(SubSeq(D, 1, f.k - 1))
Within(f) == SubSeq(lists[ListOf(f)], 1, Past(f))

\* D is what is due in a frame, list by list; from the list it is at it is what the
\* vectors hold now.
DueByList(f, D) ==
  /\ D \in Seq(Seq(Nat))
  /\ Len(D) = Len(Plan(f.what))
  /\ f.due = FlattenSeq(D)
  /\ \A i \in 1..Len(D) :
       i >= f.k => D[i] = lists[Plan(f.what)[i]]

\* What a frame has called is what was due in the lists behind it and what it is past
\* in the list it is in, where its loop ends with the vector.
CalledByList(f, D) ==
  /\ f.called \in Seq(DOMAIN registered)
  /\ f.next = 0 => f.called = Before(f, D)
  /\ f.next > 0 => /\ f.end = Len(lists[ListOf(f)])
                   /\ f.called = Before(f, D) \o Within(f)

FrameDue(f) == \E D : DueByList(f, D) /\ CalledByList(f, D)

FramesDue ==
  Careful => \A t \in Threads : \A i \in 1..Len(frames[t]) : FrameDue(frames[t][i])

DueInv == DueLists /\ FramesDue

LEMMA Places ==
  ASSUME CallbacksTypeOK
  PROVE  /\ registered \in Seq(Offers) /\ Len(registered) \in Nat
         /\ DOMAIN registered = 1..Len(registered)
         /\ \A s \in Seq(DOMAIN registered) : s \in Seq(Nat)
<1>1. /\ registered \in Seq(Offers) /\ Len(registered) \in Nat
      /\ DOMAIN registered = 1..Len(registered)
  BY LenProperties DEF CallbacksTypeOK
<1>2. DOMAIN registered \subseteq Nat
  BY <1>1
<1> QED
  BY <1>1, <1>2, SeqMonotonic

LEMMA ListsOfPlaces ==
  ASSUME CallbacksTypeOK, NEW l \in Lists
  PROVE  /\ lists[l] \in Seq(DOMAIN registered)
         /\ lists[l] \in Seq(Nat)
         /\ Len(lists[l]) \in Nat
<1>1. lists[l] \in Seq(DOMAIN registered)
  BY DEF CallbacksTypeOK
<1>2. lists[l] \in Seq(Nat)
  BY <1>1, Places
<1> QED
  BY <1>1, <1>2, LenProperties

\* The list that a frame is at.
LEMMA FrameAtList ==
  ASSUME CallbacksTypeOK, NEW f, FrameOK(f), f.k <= Len(Plan(f.what))
  PROVE  /\ f.what \in Announcements /\ Len(Plan(f.what)) \in Nat
         /\ f.k \in 1..Len(Plan(f.what))
         /\ ListOf(f) = Plan(f.what)[f.k] /\ ListOf(f) \in Lists
<1>1. f.what \in Announcements /\ f.k \in 1..(Len(Plan(f.what)) + 1)
  BY DEF FrameOK
<1>2. Len(Plan(f.what)) \in Nat
  BY <1>1, PlanPlaces
<1>3. f.k \in 1..Len(Plan(f.what))
  BY <1>1, <1>2
<1> QED
  BY <1>1, <1>2, <1>3, PlanPlaces DEF ListOf

\* What was due in the lists before the next one.
LEMMA NextList ==
  ASSUME NEW D \in Seq(Seq(Nat)), NEW k \in 1..Len(D)
  PROVE  /\ FlattenSeq(SubSeq(D, 1, k - 1)) \in Seq(Nat)
         /\ FlattenSeq(SubSeq(D, 1, k)) = FlattenSeq(SubSeq(D, 1, k - 1)) \o D[k]
<1>1. k - 1 \in 0..Len(D)
  BY LenProperties
<1>2. SubSeq(D, 1, k - 1) \in Seq(Seq(Nat))
  BY <1>1, BeginningOfSeq
<1> QED
  BY <1>2, FlattenType, FlattenOneMore

\* Steps of loops: the frame that they leave has its due.
LEMMA LoopKeepsDue ==
  ASSUME CallbacksInv, DueInv, NEW E, FramesIn(E), NEW t \in Threads,
         frames[t] # <<>>, NEW f \in FrameSet(E), SetTop(t, f),
         UNCHANGED <<registered, lists>>, Careful => FrameDue(f)
  PROVE  DueInv'
<1>1. \A u \in Threads :
        /\ Len(frames'[u]) = Len(frames[u])
        /\ \A i \in 1..Len(frames[u]) :
             frames'[u][i] = IF u = t /\ i = Len(frames[t]) THEN f
                             ELSE frames[u][i]
  BY SetTopFrames
<1>2. \A l : DueIn(l)' = DueIn(l)
  BY DEF DueIn
<1>3. \A g : FrameDue(g)' <=> FrameDue(g)
  BY <1>2 DEF FrameDue, DueByList, CalledByList, Before, Within, ListOf
<1>4. Careful => \A u \in Threads : \A i \in 1..Len(frames[u]) : FrameDue(frames'[u][i])
  BY <1>1 DEF DueInv, FramesDue
<1>5. FramesDue'
  BY <1>1, <1>3, <1>4 DEF FramesDue
<1>6. DueLists'
  BY <1>2 DEF DueInv, DueLists
<1> QED
  BY <1>5, <1>6 DEF DueInv

\* The innermost frame and what is due in it.
LEMMA TopIsDue ==
  ASSUME CallbacksInv, DueInv, Careful, NEW t \in Threads, frames[t] # <<>>
  PROVE  FrameDue(Top(t)) /\ FrameOK(Top(t)) /\ LoopOK(Top(t))
<1>1. PICK E : FramesIn(E)
  BY DEF CallbacksInv
<1>2. /\ Len(frames[t]) \in Nat \ {0}
      /\ Top(t) = frames[t][Len(frames[t])]
      /\ FrameOK(Top(t)) /\ LoopOK(Top(t))
  BY <1>1, TopIsFrame DEF CallbacksInv
<1>3. Len(frames[t]) \in 1..Len(frames[t])
  BY <1>2
<1> QED
  BY <1>2, <1>3 DEF DueInv, FramesDue

LEMMA EnterListDue ==
  ASSUME CallbacksInv, DueInv, NEW t \in Threads, EnterList(t)
  PROVE  DueInv'
<1>1. PICK E : FramesIn(E)
  BY DEF CallbacksInv
<1> DEFINE f == Top(t)
           g == IF lists[ListOf(f)] = <<>> THEN [f EXCEPT !.k = @ + 1]
                ELSE [f EXCEPT !.next = 1, !.end = Len(lists[ListOf(f)])]
<1>2. frames[t] # <<>> /\ f.next = 0 /\ f.k <= Len(Plan(f.what)) /\ SetTop(t, g)
  BY DEF EnterList
<1>3. f \in FrameSet(E) /\ FrameOK(f)
  BY <1>1, <1>2, TopIsFrame DEF CallbacksInv
<1>4. /\ f.what \in Announcements /\ Len(Plan(f.what)) \in Nat
      /\ f.k \in 1..Len(Plan(f.what))
      /\ ListOf(f) = Plan(f.what)[f.k] /\ ListOf(f) \in Lists
  BY <1>2, <1>3, FrameAtList DEF CallbacksInv
<1>5. Len(lists[ListOf(f)]) \in Nat /\ lists[ListOf(f)] \in Seq(Nat)
  BY <1>4, ListsOfPlaces DEF CallbacksInv
<1>6. g \in FrameSet(E)
  <2>1. f.k + 1 \in Nat
    BY <1>4
  <2>2. [f EXCEPT !.k = @ + 1] \in FrameSet(E)
    BY <1>3, <2>1 DEF FrameSet
  <2>3. [f EXCEPT !.next = 1, !.end = Len(lists[ListOf(f)])] \in FrameSet(E)
    BY <1>3, <1>5 DEF FrameSet
  <2> QED
    BY <2>2, <2>3
<1>7. ASSUME Careful PROVE FrameDue(g)
  <2>1. PICK D : DueByList(f, D) /\ CalledByList(f, D)
    BY <1>2, <1>7, TopIsDue DEF FrameDue
  <2>2. D \in Seq(Seq(Nat)) /\ f.k \in 1..Len(D) /\ Len(D) = Len(Plan(f.what))
    BY <1>4, <2>1 DEF DueByList
  <2>3. /\ Before(f, D) \in Seq(Nat)
        /\ FlattenSeq(SubSeq(D, 1, f.k)) = Before(f, D) \o D[f.k]
    BY <2>2, NextList DEF Before
  <2>4. D[f.k] = lists[ListOf(f)]
    <3>1. f.k >= f.k
      BY <1>4
    <3> QED
      BY <1>4, <2>1, <2>2, <3>1 DEF DueByList
  <2>5. f.called = Before(f, D)
    BY <1>2, <2>1 DEF CalledByList
  <2>6. Before(f, D) \o <<>> = Before(f, D)
    BY <2>3, ConcatEmptySeq
  <2>7. ~f.running
    BY <1>2, <1>3 DEF FrameOK
  <2>8. CASE lists[ListOf(f)] = <<>>
    <3>1. /\ g.what = f.what /\ g.k = f.k + 1 /\ g.next = 0
          /\ g.due = f.due /\ g.called = f.called
      BY <1>2, <1>3, <2>8 DEF FrameSet
    <3>2. DueByList(g, D)
      BY <1>4, <2>1, <2>2, <3>1 DEF DueByList
    <3>3. g.k - 1 = f.k
      BY <1>4, <3>1
    <3>4. Before(g, D) = Before(f, D)
      BY <2>3, <2>4, <2>5, <2>6, <2>8, <3>3 DEF Before
    <3>5. CalledByList(g, D)
      BY <2>1, <2>5, <3>1, <3>4 DEF CalledByList
    <3> QED
      BY <3>2, <3>5 DEF FrameDue
  <2>9. CASE lists[ListOf(f)] # <<>>
    <3>1. /\ g.what = f.what /\ g.k = f.k /\ g.next = 1
          /\ g.end = Len(lists[ListOf(f)]) /\ g.running = f.running
          /\ g.due = f.due /\ g.called = f.called
      BY <1>3, <2>9 DEF FrameSet
    <3>2. DueByList(g, D)
      BY <2>1, <3>1 DEF DueByList
    <3>3. ListOf(g) = ListOf(f) /\ Before(g, D) = Before(f, D) /\ Past(g) = 0
      BY <2>7, <3>1 DEF ListOf, Before, Past
    <3>4. SubSeq(lists[ListOf(f)], 1, 0) = <<>>
      BY SubSeqEmpty
    <3>5. Within(g) = <<>>
      BY <2>5, <3>3, <3>4 DEF Within
    <3>6. CalledByList(g, D)
      BY <2>1, <2>5, <2>6, <3>1, <3>3, <3>5 DEF CalledByList
    <3> QED
      BY <3>2, <3>6 DEF FrameDue
  <2> QED
    BY <2>8, <2>9
<1> HIDE DEF g
<1> QED
  BY <1>1, <1>2, <1>6, <1>7, LoopKeepsDue DEF EnterList

\* One more callback of the list is called, or passed over.
LEMMA OneMoreCalled ==
  ASSUME CallbacksInv, NEW f, FrameOK(f), LoopOK(f), f.next \in 1..f.end, ~f.running,
         NEW D, DueByList(f, D), CalledByList(f, D),
         NEW g, g.what = f.what, g.k = f.k, g.end = f.end, g.due = f.due,
         g.next > 0, Past(g) = f.next,
         g.called = Append(f.called, lists[ListOf(f)][f.next])
  PROVE  FrameDue(g)
<1> DEFINE list == lists[ListOf(f)]
           c == list[f.next]
           a == SubSeq(list, 1, f.next - 1)
<1>1. /\ f.what \in Announcements /\ Len(Plan(f.what)) \in Nat
      /\ f.k \in 1..Len(Plan(f.what)) /\ ListOf(f) \in Lists
  BY FrameAtList DEF CallbacksInv, FrameOK, LoopOK
<1>2. c \in DOMAIN registered
  BY CallbackIsOffer DEF CallbacksInv
<1>3. list \in Seq(DOMAIN registered) /\ Len(list) \in Nat
  BY <1>1, ListsOfPlaces DEF CallbacksInv
<1>4. f.next \in 1..Len(list) /\ f.next - 1 \in 0..Len(list) /\ Past(f) = f.next - 1
      /\ f.next > 0
  <2>1. f.end \in Nat /\ f.next > 0
    BY DEF FrameOK
  <2>2. f.end = Len(list)
    BY <2>1 DEF CalledByList
  <2> QED
    BY <2>1, <2>2 DEF Past
<1>5. a \in Seq(DOMAIN registered) /\ SubSeq(list, 1, f.next) = Append(a, c)
  BY <1>3, <1>4, BeginningOfSeq, BeginningGrows
<1>6. f.called \in Seq(DOMAIN registered) /\ g.called = Append(f.called, c)
  BY DEF CalledByList
<1> HIDE DEF a, c
<1>7. a \in Seq(Nat)
  BY <1>5, Places DEF CallbacksInv
<1>8. Append(f.called, c) \in Seq(DOMAIN registered)
  BY <1>2, <1>6, AppendProperties
<1>9. Before(f, D) \in Seq(Nat) /\ c \in Nat
  <2>1. D \in Seq(Seq(Nat)) /\ f.k \in 1..Len(D)
    BY <1>1 DEF DueByList
  <2>2. Before(f, D) \in Seq(Nat)
    BY <2>1, NextList DEF Before
  <2>3. c \in Nat
    BY <1>2, Places DEF CallbacksInv
  <2> QED
    BY <2>2, <2>3
<1>10. Before(f, D) \o Append(a, c) = Append(Before(f, D) \o a, c)
  BY <1>7, <1>9, ConcatAppend
<1>11. f.called = Before(f, D) \o a
  BY <1>4 DEF CalledByList, Within, a
<1>12. ListOf(g) = ListOf(f) /\ Before(g, D) = Before(f, D)
  BY DEF ListOf, Before
<1>13. Within(g) = Append(a, c)
  BY <1>5, <1>12 DEF Within
<1>14. g.called = Before(g, D) \o Within(g)
  BY <1>5, <1>6, <1>10, <1>11, <1>12, <1>13
<1>15. g.called \in Seq(DOMAIN registered)
  BY <1>6, <1>8
<1>16. g.end = Len(lists[ListOf(g)])
  BY <1>4, <1>12 DEF CalledByList
<1>17. CalledByList(g, D)
  BY <1>14, <1>15, <1>16 DEF CalledByList
<1>18. DueByList(g, D)
  BY DEF DueByList
<1> QED
  BY <1>17, <1>18 DEF FrameDue

LEMMA InvokeDue ==
  ASSUME CallbacksInv, DueInv, NEW t \in Threads, Invoke(t) \/ PassOver(t)
  PROVE  DueInv'
<1>1. PICK E : FramesIn(E)
  BY DEF CallbacksInv
<1> DEFINE f == Top(t)
           called == Append(f.called, lists[ListOf(f)][f.next])
           F == E \cup {called}
<1>2. /\ frames[t] # <<>> /\ f.next > 0 /\ f.next <= f.end /\ ~f.running
      /\ UNCHANGED <<registered, lists>>
  BY DEF Invoke, PassOver
<1>3. f \in FrameSet(E) /\ FrameOK(f) /\ LoopOK(f)
  BY <1>1, <1>2, TopIsFrame DEF CallbacksInv
<1>4. FramesIn(F)
  BY <1>1, WiderFrames
<1>5. f.next \in 1..f.end /\ f.next + 1 \in Nat /\ f.next \in Nat
  BY <1>2, <1>3 DEF FrameOK
<1>6. CASE Invoke(t)
  <2> DEFINE g == [f EXCEPT !.running = TRUE, !.called = called]
  <2>1. SetTop(t, g)
    BY <1>6 DEF Invoke
  <2>2. g \in FrameSet(F)
    BY <1>3 DEF FrameSet
  <2>3. /\ g.what = f.what /\ g.k = f.k /\ g.end = f.end /\ g.due = f.due
        /\ g.next = f.next /\ g.running = TRUE /\ g.called = called
    BY <1>3 DEF FrameSet
  <2> HIDE DEF g
  <2>4. g.next > 0 /\ Past(g) = f.next
    BY <1>5, <2>3 DEF Past
  <2>5. ASSUME Careful PROVE FrameDue(g)
    <3>1. PICK D : DueByList(f, D) /\ CalledByList(f, D)
      BY <1>2, <2>5, TopIsDue DEF FrameDue
    <3> HIDE DEF f
    <3> QED
      BY <1>2, <1>3, <1>5, <2>3, <2>4, <3>1, OneMoreCalled
  <2> QED
    BY <1>2, <1>4, <2>1, <2>2, <2>5, LoopKeepsDue
<1>7. CASE PassOver(t)
  <2> DEFINE g == [f EXCEPT !.next = @ + 1, !.called = called]
  <2>1. SetTop(t, g)
    BY <1>7 DEF PassOver
  <2>2. g \in FrameSet(F)
    BY <1>3, <1>5 DEF FrameSet
  <2>3. /\ g.what = f.what /\ g.k = f.k /\ g.end = f.end /\ g.due = f.due
        /\ g.next = f.next + 1 /\ g.running = f.running /\ g.called = called
    BY <1>3 DEF FrameSet
  <2> HIDE DEF g
  <2>4. g.next > 0 /\ Past(g) = f.next
    BY <1>2, <1>5, <2>3 DEF Past
  <2>5. ASSUME Careful PROVE FrameDue(g)
    <3>1. PICK D : DueByList(f, D) /\ CalledByList(f, D)
      BY <1>2, <2>5, TopIsDue DEF FrameDue
    <3> HIDE DEF f
    <3> QED
      BY <1>2, <1>3, <1>5, <2>3, <2>4, <3>1, OneMoreCalled
  <2> QED
    BY <1>2, <1>4, <2>1, <2>2, <2>5, LoopKeepsDue
<1> QED
  BY <1>6, <1>7

LEMMA ReturnDue ==
  ASSUME CallbacksInv, DueInv, NEW t \in Threads, Return(t)
  PROVE  DueInv'
<1>1. PICK E : FramesIn(E)
  BY DEF CallbacksInv
<1> DEFINE f == Top(t)
           g == [f EXCEPT !.running = FALSE, !.next = @ + 1]
<1>2. frames[t] # <<>> /\ f.running /\ SetTop(t, g) /\ UNCHANGED <<registered, lists>>
  BY DEF Return
<1>3. f \in FrameSet(E) /\ FrameOK(f) /\ LoopOK(f)
  BY <1>1, <1>2, TopIsFrame DEF CallbacksInv
<1>4. f.next \in 1..f.end /\ f.next \in Nat /\ f.next + 1 \in Nat
  BY <1>2, <1>3 DEF FrameOK
<1>5. g \in FrameSet(E)
  BY <1>3, <1>4 DEF FrameSet
<1>6. /\ g.what = f.what /\ g.k = f.k /\ g.end = f.end /\ g.due = f.due
      /\ g.next = f.next + 1 /\ g.running = FALSE /\ g.called = f.called
  BY <1>3 DEF FrameSet
<1> HIDE DEF g
<1>7. Past(g) = Past(f) /\ g.next > 0 /\ f.next > 0
  BY <1>2, <1>4, <1>6 DEF Past
<1>8. ASSUME Careful PROVE FrameDue(g)
  <2>1. PICK D : DueByList(f, D) /\ CalledByList(f, D)
    BY <1>2, <1>8, TopIsDue DEF FrameDue
  <2> HIDE DEF f
  <2>2. DueByList(g, D)
    BY <1>6, <2>1 DEF DueByList
  <2>3. ListOf(g) = ListOf(f) /\ Before(g, D) = Before(f, D) /\ Within(g) = Within(f)
    BY <1>6, <1>7 DEF ListOf, Before, Within
  <2>4. CalledByList(g, D)
    BY <1>4, <1>6, <1>7, <2>1, <2>3 DEF CalledByList
  <2> QED
    BY <2>2, <2>4 DEF FrameDue
<1> QED
  BY <1>1, <1>2, <1>5, <1>8, LoopKeepsDue

\* The loop has come to its end, which is the end of the vector.
LEMMA LeaveListDue ==
  ASSUME CallbacksInv, DueInv, NEW t \in Threads, LeaveList(t)
  PROVE  DueInv'
<1>1. PICK E : FramesIn(E)
  BY DEF CallbacksInv
<1> DEFINE f == Top(t)
           g == [f EXCEPT !.next = 0, !.end = 0, !.k = @ + 1]
<1>2. /\ frames[t] # <<>> /\ f.next > f.end /\ f.end > 0 /\ SetTop(t, g)
      /\ UNCHANGED <<registered, lists>>
  BY DEF LeaveList
<1>3. f \in FrameSet(E) /\ FrameOK(f) /\ LoopOK(f)
  BY <1>1, <1>2, TopIsFrame DEF CallbacksInv
<1>4. ~f.running /\ f.next = f.end + 1 /\ f.next > 0 /\ f.end \in Nat
  BY <1>2, <1>3 DEF FrameOK
<1>5. /\ f.what \in Announcements /\ Len(Plan(f.what)) \in Nat
      /\ f.k \in 1..Len(Plan(f.what))
      /\ ListOf(f) = Plan(f.what)[f.k] /\ ListOf(f) \in Lists
  BY <1>3, <1>4, FrameAtList DEF CallbacksInv, LoopOK
<1>6. g \in FrameSet(E)
  <2>1. f.k + 1 \in Nat
    BY <1>5
  <2> QED
    BY <1>3, <2>1 DEF FrameSet
<1>7. /\ g.what = f.what /\ g.k = f.k + 1 /\ g.next = 0
      /\ g.due = f.due /\ g.called = f.called
  BY <1>3 DEF FrameSet
<1> HIDE DEF g
<1>8. ASSUME Careful PROVE FrameDue(g)
  <2>1. PICK D : DueByList(f, D) /\ CalledByList(f, D)
    BY <1>2, <1>8, TopIsDue DEF FrameDue
  <2> HIDE DEF f
  <2>2. D \in Seq(Seq(Nat)) /\ f.k \in 1..Len(D) /\ Len(D) = Len(Plan(f.what))
    BY <1>5, <2>1 DEF DueByList
  <2>3. DueByList(g, D)
    BY <1>5, <1>7, <2>1, <2>2 DEF DueByList
  <2>4. f.end = Len(lists[ListOf(f)]) /\ Past(f) = f.end
    BY <1>4, <2>1 DEF CalledByList, Past
  <2>5. SubSeq(lists[ListOf(f)], 1, f.end) = lists[ListOf(f)]
    BY <1>5, <2>4, ListsOfPlaces, SubSeqFull DEF CallbacksInv
  <2>6. Within(f) = D[f.k]
    <3>1. f.k >= f.k
      BY <1>5
    <3>2. D[f.k] = lists[ListOf(f)]
      BY <1>5, <2>1, <2>2, <3>1 DEF DueByList
    <3> QED
      BY <2>4, <2>5, <3>2 DEF Within
  <2>7. g.k - 1 = f.k
    BY <1>5, <1>7
  <2>8. Before(g, D) = Before(f, D) \o D[f.k]
    BY <2>2, <2>7, NextList DEF Before
  <2>9. f.called = Before(g, D)
    BY <1>4, <2>1, <2>6, <2>8 DEF CalledByList
  <2>10. CalledByList(g, D)
    BY <1>7, <2>1, <2>9 DEF CalledByList
  <2> QED
    BY <2>3, <2>10 DEF FrameDue
<1> QED
  BY <1>1, <1>2, <1>6, <1>8, LoopKeepsDue

\* The places of the callbacks, in the order of their registration.
LEMMA OrderIsSeq ==
  ASSUME CallbacksTypeOK
  PROVE  /\ [c \in DOMAIN registered |-> c] \in Seq(DOMAIN registered)
         /\ Len([c \in DOMAIN registered |-> c]) = Len(registered)
         /\ \A T : Keep([c \in DOMAIN registered |-> c], T) \in Seq(Nat)
<1> DEFINE order == [c \in DOMAIN registered |-> c]
<1>1. DOMAIN registered = 1..Len(registered) /\ Len(registered) \in Nat
  BY Places
<1>2. order \in Seq(DOMAIN registered) /\ Len(order) = Len(registered)
  BY <1>1
<1>3. order \in Seq(Nat)
  BY <1>2, Places
<1> HIDE DEF order
<1>4. \A T : Keep(order, T) \in Seq(Nat)
  BY <1>3, KeepType
<1> QED
  BY <1>2, <1>4 DEF order

LEMMA AnnounceDue ==
  ASSUME CallbacksInv, DueInv, NEW t \in Threads, NEW a \in Announcements,
         Announce(t, a)
  PROVE  DueInv'
<1>1. PICK E : FramesIn(E)
  BY DEF CallbacksInv
<1> DEFINE due(l) == Keep([c \in DOMAIN registered |-> c], DueIn(l))
           D == [i \in DOMAIN Plan(a) |-> due(Plan(a)[i])]
           F == E \cup {Due(a), <<>>}
           f == Frame(a)
<1>2. FramesIn(F)
  BY <1>1, WiderFrames
<1>3. /\ Plan(a) \in Seq(Lists) /\ Len(Plan(a)) \in Nat
      /\ DOMAIN Plan(a) = 1..Len(Plan(a))
      /\ \A i \in 1..Len(Plan(a)) : Plan(a)[i] \in Lists
  BY PlanIsSeq, LenProperties, ElementOfSeq
<1>4. /\ f.what = a /\ f.k = 1 /\ f.next = 0 /\ f.end = 0 /\ f.running = FALSE
      /\ f.due = Due(a) /\ f.called = <<>>
  BY DEF Frame
<1>5. f \in FrameSet(F)
  BY DEF Frame, FrameSet
<1>6. \A u \in Threads : \A i \in 1..Len(frames'[u]) :
        \/ frames'[u][i] = f
        \/ i \in 1..Len(frames[u]) /\ frames'[u][i] = frames[u][i]
  <2>1. Push(t, f)
    BY DEF Announce, Push
  <2> HIDE DEF f, F
  <2> QED
    BY <1>2, <1>5, <2>1, PushFrames
<1>7. FrameDue(f)
  <2>1. \A l : due(l) \in Seq(Nat)
    BY OrderIsSeq DEF CallbacksInv
  <2> HIDE DEF due
  <2>2. D \in Seq(Seq(Nat)) /\ Len(D) = Len(Plan(a))
    BY <1>3, <2>1
  <2>3. Due(a) = FlattenSeq(D)
    BY DEF Due, due
  <2>4. \A i \in 1..Len(D) : D[i] = lists[Plan(a)[i]]
    BY <1>3, <2>2 DEF due, DueInv, DueLists
  <2> HIDE DEF D, f
  <2>5. DueByList(f, D)
    BY <1>4, <2>2, <2>3, <2>4 DEF DueByList
  <2>6. SubSeq(D, 1, 0) = <<>>
    BY SubSeqEmpty
  <2>7. Before(f, D) = <<>>
    <3>1. f.k - 1 = 0
      BY <1>4
    <3> QED
      BY <2>6, <3>1, FlattenNothing DEF Before
  <2>8. CalledByList(f, D)
    BY <1>4, <2>7, EmptySeq DEF CalledByList
  <2> QED
    BY <2>5, <2>8 DEF FrameDue
<1>8. UNCHANGED <<registered, lists>>
  BY DEF Announce
<1>9. \A l : DueIn(l)' = DueIn(l)
  BY <1>8 DEF DueIn
<1>10. \A g : FrameDue(g)' <=> FrameDue(g)
  BY <1>8, <1>9 DEF FrameDue, DueByList, CalledByList, Before, Within, ListOf
<1> HIDE DEF f
<1>11. FramesDue'
  BY <1>6, <1>7, <1>10 DEF DueInv, FramesDue
<1>12. DueLists'
  BY <1>8, <1>9 DEF DueInv, DueLists
<1> QED
  BY <1>11, <1>12 DEF DueInv

\* EndAnnouncement, GiveUp, and steps that change nothing.
LEMMA FewerFramesDue ==
  ASSUME CallbacksInv, DueInv, UNCHANGED <<registered, lists>>,
         \A u \in Threads : \A i \in 1..Len(frames'[u]) :
           i \in 1..Len(frames[u]) /\ frames'[u][i] = frames[u][i]
  PROVE  DueInv'
<1>1. \A l : DueIn(l)' = DueIn(l)
  BY DEF DueIn
<1>2. \A g : FrameDue(g)' <=> FrameDue(g)
  BY <1>1 DEF FrameDue, DueByList, CalledByList, Before, Within, ListOf
<1>3. FramesDue'
  BY <1>2 DEF DueInv, FramesDue
<1>4. DueLists'
  BY <1>1 DEF DueInv, DueLists
<1> QED
  BY <1>3, <1>4 DEF DueInv

\* What a new callback changes: a sequence of former ones keeps what it kept.
LEMMA RegisteredMore ==
  ASSUME CallbacksInv, NEW t \in Threads, NEW offer \in Offers, Register(t, offer),
         NEW n, n = Len(registered)
  PROVE  /\ n \in Nat /\ n + 1 \in DOMAIN registered' /\ DOMAIN registered = 1..n
         /\ \A c \in DOMAIN registered : c # n + 1
         /\ [c \in DOMAIN registered |-> c]' =
              Append([c \in DOMAIN registered |-> c], n + 1)
         /\ \A s \in Seq(DOMAIN registered) :
              /\ s \in Seq(DOMAIN registered')
              /\ \A l : Keep(s, DueIn(l)') = Keep(s, DueIn(l))
         /\ \A l : n + 1 \in DueIn(l)' <=> ListFor(offer) = l
         /\ ListFor(offer) \in Lists
         /\ \A l \in Lists :
              lists'[l] = IF l = ListFor(offer) THEN Append(lists[l], n + 1)
                          ELSE lists[l]
<1>1. registered \in Seq(Offers) /\ n \in Nat /\ DOMAIN registered = 1..n
  BY Places DEF CallbacksInv
<1>2. /\ registered' \in Seq(Offers) /\ DOMAIN registered' = 1..(n + 1)
      /\ \A c \in 1..n : registered'[c] = registered[c]
      /\ registered'[n + 1] = offer
  BY <1>1, AppendProperties, LenProperties DEF Register
<1>3. n + 1 \in DOMAIN registered' /\ \A c \in DOMAIN registered : c # n + 1
  BY <1>1, <1>2
<1>4. [c \in DOMAIN registered |-> c]' = Append([c \in DOMAIN registered |-> c], n + 1)
  <2> DEFINE a == [c \in 1..n |-> c]
             b == [c \in 1..(n + 1) |-> c]
             d == Append(a, n + 1)
  <2>1. a \in Seq(Nat) /\ Len(a) = n /\ \A c \in 1..n : a[c] = c
    BY <1>1
  <2>2. b \in Seq(Nat) /\ Len(b) = n + 1 /\ \A c \in 1..(n + 1) : b[c] = c
    BY <1>1
  <2> HIDE DEF a, b
  <2>3. /\ d \in Seq(Nat) /\ Len(d) = n + 1 /\ d[n + 1] = n + 1
        /\ \A c \in 1..n : d[c] = a[c]
    BY <1>1, <2>1, AppendProperties
  <2> HIDE DEF d
  <2>4. \A c \in 1..(n + 1) : c = n + 1 \/ c \in 1..n
    BY <1>1
  <2>5. \A c \in 1..(n + 1) : b[c] = d[c]
    BY <2>1, <2>2, <2>3, <2>4
  <2>6. b = d
    BY <2>2, <2>3, <2>5, SeqEqual
  <2> QED
    BY <1>1, <1>2, <2>6 DEF a, b, d
<1>5. \A c \in DOMAIN registered :
        \A l : c \in DueIn(l)' <=> c \in DueIn(l)
  <2>1. \A c \in DOMAIN registered : c \in DOMAIN registered'
    BY <1>1, <1>2
  <2> QED
    BY <1>1, <1>2, <2>1 DEF DueIn
<1>6. ASSUME NEW s \in Seq(DOMAIN registered)
      PROVE  /\ s \in Seq(DOMAIN registered')
             /\ \A l : Keep(s, DueIn(l)') = Keep(s, DueIn(l))
  <2>1. DOMAIN registered \subseteq DOMAIN registered'
    BY <1>1, <1>2
  <2>2. s \in Seq(DOMAIN registered')
    BY <2>1, SeqMonotonic
  <2>3. \A j \in 1..Len(s) : s[j] \in DOMAIN registered
    BY ElementOfSeq
  <2>4. ASSUME NEW l PROVE Keep(s, DueIn(l)') = Keep(s, DueIn(l))
    BY <1>5, <2>3, KeepSame
  <2> QED
    BY <2>2, <2>4
<1>7. \A l : n + 1 \in DueIn(l)' <=> ListFor(offer) = l
  BY <1>2, <1>3 DEF DueIn, ListFor
<1>8. ListFor(offer) \in Lists
  BY ListForIsList
<1>9. lists' = [lists EXCEPT ![ListFor(offer)] = Append(@, n + 1)]
       /\ DOMAIN lists = Lists
  BY DEF Register, CallbacksInv, CallbacksTypeOK
<1>10. \A l \in Lists :
         lists'[l] = IF l = ListFor(offer) THEN Append(lists[l], n + 1) ELSE lists[l]
  BY <1>9
<1> QED
  BY <1>1, <1>3, <1>4, <1>6, <1>7, <1>8, <1>10

LEMMA RegisterDueLists ==
  ASSUME CallbacksInv, DueInv, NEW t \in Threads, NEW offer \in Offers,
         Register(t, offer)
  PROVE  DueLists'
<1> SUFFICES ASSUME NEW l \in Lists
             PROVE  Keep([c \in DOMAIN registered |-> c]', DueIn(l)') = lists'[l]
  BY DEF DueLists
<1> DEFINE n == Len(registered)
           list == ListFor(offer)
<1>1. PICK order : order = [c \in DOMAIN registered |-> c]
  OBVIOUS
<1>2. order \in Seq(DOMAIN registered) /\ Keep(order, DueIn(l)) = lists[l]
  BY <1>1, OrderIsSeq DEF CallbacksInv, DueInv, DueLists
<1>3. /\ n + 1 \in DOMAIN registered'
      /\ [c \in DOMAIN registered |-> c]' = Append(order, n + 1)
      /\ \A s \in Seq(DOMAIN registered) :
           /\ s \in Seq(DOMAIN registered')
           /\ Keep(s, DueIn(l)') = Keep(s, DueIn(l))
      /\ n + 1 \in DueIn(l)' <=> list = l
      /\ lists'[l] = IF l = list THEN Append(lists[l], n + 1) ELSE lists[l]
  BY <1>1, RegisteredMore
<1> HIDE DEF n, list
<1>4. \A s \in Seq(DOMAIN registered') : \A T :
        Keep(Append(s, n + 1), T) =
          IF n + 1 \in T THEN Append(Keep(s, T), n + 1) ELSE Keep(s, T)
  <2>1. PICK m : m = n + 1
    OBVIOUS
  <2>2. m \in DOMAIN registered'
    BY <1>3, <2>1
  <2>3. \A s \in Seq(DOMAIN registered') : \A T :
          Keep(Append(s, m), T) =
            IF m \in T THEN Append(Keep(s, T), m) ELSE Keep(s, T)
    BY <2>2, KeepAppend
  <2> QED
    BY <2>1, <2>3
<1>5. Keep(Append(order, n + 1), DueIn(l)') =
        IF n + 1 \in DueIn(l)' THEN Append(Keep(order, DueIn(l)), n + 1)
        ELSE Keep(order, DueIn(l))
  BY <1>2, <1>3, <1>4
<1> QED
  BY <1>2, <1>3, <1>5

\* A careful client registers no callback for the lists that a frame is in or has
\* ahead of it, and no stray one while there is a frame.
LEMMA RegisterFramesDue ==
  ASSUME CallbacksInv, DueInv, NEW t \in Threads, NEW offer \in Offers,
         Register(t, offer)
  PROVE  FramesDue'
<1>1. PICK E : FramesIn(E)
  BY DEF CallbacksInv
<1>2. frames' = frames /\ (Careful => RegisterCarefully(offer))
  BY DEF Register
<1> SUFFICES ASSUME Careful, NEW u \in Threads, NEW i \in 1..Len(frames[u])
             PROVE  FrameDue(frames[u][i])'
  BY <1>2 DEF FramesDue
<1>3. PICK f : f = frames[u][i]
  OBVIOUS
<1>4. f \in AllFrames
  <2>1. frames[u] \in Seq(FrameSet(E))
    BY <1>1 DEF FramesIn
  <2>2. i \in DOMAIN frames[u]
    BY <2>1, LenProperties
  <2> QED
    BY <1>3, <2>2 DEF AllFrames, ToSet
<1>5. FrameOK(f) /\ LoopOK(f) /\ FrameDue(f)
  BY <1>3 DEF CallbacksInv, FramesOK, DueInv, FramesDue
<1>6. ~Strays(offer) /\ ~MayUse(f, offer.list)
  BY <1>2, <1>4 DEF RegisterCarefully
<1>7. ListFor(offer) = offer.list
  BY <1>6 DEF ListFor
<1>8. PICK D : DueByList(f, D) /\ CalledByList(f, D)
  BY <1>5 DEF FrameDue
<1>9. /\ f.what \in Announcements /\ f.k \in Nat /\ f.k \in 1..(Len(Plan(f.what)) + 1)
      /\ Len(Plan(f.what)) \in Nat
      /\ \A j \in 1..Len(Plan(f.what)) : Plan(f.what)[j] \in Lists
  <2>1. f.what \in Announcements /\ f.k \in 1..(Len(Plan(f.what)) + 1)
    BY <1>5 DEF FrameOK
  <2>2. /\ Len(Plan(f.what)) \in Nat
        /\ \A j \in 1..Len(Plan(f.what)) : Plan(f.what)[j] \in Lists
    BY <2>1, PlanPlaces
  <2> QED
    BY <2>1, <2>2
<1>10. /\ \A s \in Seq(DOMAIN registered) :
            s \in Seq(DOMAIN registered')
       /\ \A l \in Lists : l # offer.list => lists'[l] = lists[l]
  BY <1>7, RegisteredMore
<1>11. \A j \in 1..Len(Plan(f.what)) :
         j >= f.k => lists'[Plan(f.what)[j]] = lists[Plan(f.what)[j]]
  <2> SUFFICES ASSUME NEW j \in 1..Len(Plan(f.what)), j >= f.k
               PROVE  lists'[Plan(f.what)[j]] = lists[Plan(f.what)[j]]
    OBVIOUS
  <2>1. j \in f.k..Len(Plan(f.what))
    BY <1>9
  <2>2. Plan(f.what)[j] # offer.list
    BY <1>6, <2>1 DEF MayUse
  <2> QED
    BY <1>9, <1>10, <2>2
<1>12. DueByList(f, D)'
  <2>1. ASSUME NEW j \in 1..Len(D), j >= f.k
        PROVE  D[j] = lists'[Plan(f.what)[j]]
    <3>1. j \in 1..Len(Plan(f.what)) /\ Plan(f.what)[j] \in Lists
      BY <1>8, <1>9, <2>1 DEF DueByList
    <3>2. D[j] = lists[Plan(f.what)[j]]
      BY <1>8, <2>1 DEF DueByList
    <3> QED
      BY <1>11, <2>1, <3>1, <3>2
  <2> QED
    BY <1>8, <2>1 DEF DueByList
<1>13. CalledByList(f, D)'
  <2>1. f.called \in Seq(DOMAIN registered')
    BY <1>8, <1>10 DEF CalledByList
  <2>2. CASE f.next = 0
    BY <1>8, <2>1, <2>2 DEF CalledByList, Before
  <2>3. CASE f.next > 0
    <3>1. /\ f.k \in 1..Len(Plan(f.what)) /\ f.k >= f.k
          /\ ListOf(f) = Plan(f.what)[f.k] /\ ListOf(f) \in Lists
      <4>1. f.k <= Len(Plan(f.what))
        BY <1>5, <2>3 DEF LoopOK
      <4> QED
        BY <1>5, <1>9, <4>1, FrameAtList DEF CallbacksInv
    <3>2. lists'[ListOf(f)] = lists[ListOf(f)]
      BY <1>11, <3>1
    <3>3. Within(f)' = Within(f)
      BY <3>2 DEF Within, ListOf
    <3> QED
      BY <1>8, <2>1, <2>3, <3>2, <3>3 DEF CalledByList, Before, ListOf
  <2>4. f.next = 0 \/ f.next > 0
    BY <1>5 DEF FrameOK
  <2> QED
    BY <2>2, <2>3, <2>4
<1>14. FrameDue(f)'
  BY <1>12, <1>13 DEF FrameDue
<1> QED
  BY <1>2, <1>3, <1>14

LEMMA DueInit == CallbacksInit => DueInv
<1> SUFFICES ASSUME CallbacksInit PROVE DueInv
  OBVIOUS
<1>1. registered = <<>> /\ DOMAIN registered = {}
  BY DEF CallbacksInit
<1>2. [c \in DOMAIN registered |-> c] = <<>>
  BY <1>1
<1>3. DueLists
  BY <1>2, KeepNothing DEF CallbacksInit, DueLists
<1>4. FramesDue
  BY DEF CallbacksInit, FramesDue
<1> QED
  BY <1>3, <1>4 DEF DueInv

LEMMA DueStep == CallbacksInv /\ DueInv /\ [CallbacksNext]_vars => DueInv'
<1> SUFFICES ASSUME CallbacksInv, DueInv, [CallbacksNext]_vars PROVE DueInv'
  OBVIOUS
<1>1. CASE UNCHANGED vars
  BY <1>1, FewerFramesDue DEF vars
<1>2. ASSUME NEW t \in Threads, NEW a \in Announcements, Announce(t, a)
      PROVE  DueInv'
  BY <1>2, AnnounceDue
<1>3. ASSUME NEW t \in Threads, EnterList(t) \/ Return(t) \/ LeaveList(t)
      PROVE  DueInv'
  BY <1>3, EnterListDue, ReturnDue, LeaveListDue
<1>4. ASSUME NEW t \in Threads, Invoke(t) \/ PassOver(t)
      PROVE  DueInv'
  BY <1>4, InvokeDue
<1>5. ASSUME NEW t \in Threads, EndAnnouncement(t)
      PROVE  DueInv'
  <2>1. PICK E : FramesIn(E)
    BY DEF CallbacksInv
  <2>2. \A u \in Threads : \A i \in 1..Len(frames'[u]) :
          i \in 1..Len(frames[u]) /\ frames'[u][i] = frames[u][i]
    BY <1>5, <2>1, PopFrames DEF EndAnnouncement, Announced
  <2> QED
    BY <1>5, <2>2, FewerFramesDue DEF EndAnnouncement
<1>6. ASSUME NEW t \in Threads, NEW offer \in Offers, Register(t, offer)
      PROVE  DueInv'
  BY <1>6, RegisterDueLists, RegisterFramesDue DEF DueInv
<1>7. ASSUME NEW o \in Objects, GiveUp(o)
      PROVE  DueInv'
  BY <1>7, FewerFramesDue DEF GiveUp
<1> QED
  BY <1>1, <1>2, <1>3, <1>4, <1>5, <1>6, <1>7 DEF CallbacksNext

\* The inductive invariant: the vectors hold what was registered for them in that
\* order, and each frame of a careful client has called what was due in the lists
\* behind it and in the list it is in as far as its loop has come.
THEOREM DueInvHolds == CallbacksSpec => []DueInv
BY CallbacksInvHolds, DueInit, DueStep, PTL DEF CallbacksSpec

\* When an announcement of a careful client is over, lines 20-139, every callback that
\* was due in its lists, a stray one in those of the finished callbacks, was called
\* once and in order and no other was, whatever other threads and the callbacks
\* themselves announce and register meanwhile.
THEOREM EachDueOnceAlways == CallbacksSpec => []EachDueOnce
<1>1. CallbacksInv /\ DueInv => EachDueOnce
  <2> SUFFICES ASSUME CallbacksInv, DueInv, NEW t \in Threads, Careful, Announced(t)
               PROVE  Top(t).called = Top(t).due
    BY DEF EachDueOnce
  <2> DEFINE f == Top(t)
  <2>1. /\ frames[t] # <<>> /\ f.k > Len(Plan(f.what))
        /\ FrameDue(f) /\ FrameOK(f) /\ LoopOK(f)
    BY TopIsDue DEF Announced
  <2> HIDE DEF f
  <2>2. PICK D : DueByList(f, D) /\ CalledByList(f, D)
    BY <2>1 DEF FrameDue
  <2>3. Len(Plan(f.what)) \in Nat /\ f.k \in 1..(Len(Plan(f.what)) + 1) /\ f.next \in Nat
    BY <2>1, PlanPlaces DEF FrameOK
  <2>4. D \in Seq(Seq(Nat)) /\ Len(D) = Len(Plan(f.what)) /\ f.due = FlattenSeq(D)
    BY <2>2 DEF DueByList
  <2>5. f.next = 0 /\ f.k - 1 = Len(D)
    BY <2>1, <2>3, <2>4 DEF LoopOK
  <2>6. Before(f, D) = f.due
    BY <2>4, <2>5, SubSeqFull DEF Before
  <2>7. f.called = f.due
    BY <2>2, <2>5, <2>6 DEF CalledByList
  <2> QED
    BY <2>7 DEF f
<1> QED
  BY <1>1, CallbacksInvHolds, DueInvHolds, PTL
=============================================================================

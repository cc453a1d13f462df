----------------------------- MODULE Queues_proofs -----------------------------
(***************************************************************************)
(* Proofs about the three components whose correctness lies in what their  *)
(* queues hold, for any bounds:                                            *)
(*   - the event loop: its events over handler, batch and queue;           *)
(*   - the item tools: the messages the game has not fetched, seen as what *)
(*     they bring the game to, and what the items are worth;               *)
(*   - the saved item shuffles: the file under its writers, and the sums   *)
(*     over the queue of reads.                                            *)
(* Each has an inductive invariant of its own.  The last two rest on the   *)
(* same lemmas about folds and sums.                                       *)
(***************************************************************************)
EXTENDS SharedGC, ItemTools, Shuffles, SequenceTheorems, WellFoundedInduction,
        FiniteSetTheorems, TLAPS

-------------------------------------------------------------------------------
(* The event loop.  The inductive invariant is the conjunction of the type *)
(* invariant, the wakeup discipline, the split of the event history over   *)
(* handler, batch and queue, and what being stopped implies.               *)
LEMMA EventSeq ==
    ASSUME NEW S, NEW s \in Seq(S), NEW x \in S
    PROVE  /\ Append(s, x) \in Seq(S)
           /\ Append(s, x) = s \o <<x>>
           /\ Append(s, x) # <<>>
  OBVIOUS

\* Moving the head of the batch to the handled events leaves their
\* concatenation unchanged.
LEMMA MoveHead ==
    ASSUME NEW S, NEW h \in Seq(S), NEW b \in Seq(S), b # <<>>
    PROVE  /\ Append(h, Head(b)) \o Tail(b) = h \o b
           /\ Tail(b) \in Seq(S)
           /\ Head(b) \in S
           /\ Tail(b) = <<>> <=> Len(b) = 1
<1>1. Head(b) \in S /\ Tail(b) \in Seq(S) /\ b = <<Head(b)>> \o Tail(b)
  OBVIOUS
<1>2. Append(h, Head(b)) = h \o <<Head(b)>>
  BY <1>1
<1>3. (h \o <<Head(b)>>) \o Tail(b) = h \o (<<Head(b)>> \o Tail(b))
  BY <1>1, ConcatAssociative
<1>4. Tail(b) = <<>> <=> Len(b) = 1
  <2>1. Len(Tail(b)) = Len(b) - 1 /\ Len(b) \in Nat
    BY HeadTailProperties, LenProperties
  <2>2. Tail(b) = <<>> <=> Len(Tail(b)) = 0
    BY <1>1, EmptySeq
  <2>3. QED
    BY <2>1, <2>2
<1>5. QED
  BY <1>1, <1>2, <1>3, <1>4

-------------------------------------------------------------------------------
\* The type invariant holds in every reachable state.
THEOREM TypeCorrect == Spec => []TypeOK
<1>1. Init => TypeOK
  <2>1. <<>> \in Seq(Event) /\ <<>> \in Seq(HostEvent)
    BY EmptySeq
  <2>2. [p \in Posters |-> "idle"] \in [Posters -> {"idle", "notify"}]
    OBVIOUS
  <2> SUFFICES ASSUME Init
               PROVE  TypeOK
    OBVIOUS
  <2>3. /\ gcEvents \in Seq(Event) /\ batch \in Seq(Event)
        /\ posted \in Seq(Event) /\ handled \in Seq(Event)
        /\ hostEvents \in Seq(HostEvent) /\ delivered \in Seq(HostEvent)
    BY <2>1 DEF Init
  <2>4. worker = "handling" <=> batch # <<>>
    BY DEF Init
  <2>5. /\ stopping \in BOOLEAN /\ replies \in Nat
        /\ worker \in {"testing", "asleep", "handling", "exited"}
        /\ stopper \in {"idle", "notify", "joining", "joined"}
        /\ poster \in [Posters -> {"idle", "notify"}]
    BY <2>2 DEF Init
  <2>6. QED
    BY <2>3, <2>4, <2>5 DEF TypeOK
<1>2. TypeOK /\ [Next]_vars => TypeOK'
  <2> SUFFICES ASSUME TypeOK, [Next]_vars
               PROVE  TypeOK'
    OBVIOUS
  <2> USE DEF TypeOK
  <2>1. ASSUME NEW p \in Posters, Push(p)
        PROVE  TypeOK'
    <3> DEFINE e == <<p, Len(posted) + 1>>
    <3>1. e \in Event
      BY DEF Event
    <3>2. gcEvents' \in Seq(Event) /\ posted' \in Seq(Event)
      BY <2>1, <3>1 DEF Push, PostToGC, WasEmpty
    <3>3. QED
      BY <2>1, <3>2 DEF Push, PostToGC, WasEmpty
  <2>2. ASSUME NEW p \in Posters, Notify(p)
        PROVE  TypeOK'
    BY <2>2 DEF Notify, Signalled
  <2>3. CASE Sleep
    BY <2>3 DEF Sleep
  <2>4. CASE SpuriousWakeup
    BY <2>4 DEF SpuriousWakeup
  <2>5. CASE TakeBatch
    BY <2>5 DEF TakeBatch
  <2>6. CASE PostToHost
    <3>1. Head(batch) \in Event
      BY <2>6 DEF PostToHost
    <3>2. <<Head(batch), replies + 1>> \in HostEvent
      BY <3>1 DEF HostEvent
    <3>3. QED
      BY <2>6, <3>2 DEF PostToHost
  <2>7. CASE HandlerReturns
    <3>1. batch # <<>> /\ Head(batch) \in Event /\ Tail(batch) \in Seq(Event)
      BY <2>7 DEF HandlerReturns
    <3>2. Tail(batch) = <<>> <=> Len(batch) = 1
      BY <3>1, MoveHead
    <3>3. QED
      BY <2>7, <3>1, <3>2 DEF HandlerReturns
  <2>8. CASE Exit
    BY <2>8 DEF Exit
  <2>9. CASE GetHostEvents
    BY <2>9 DEF GetHostEvents
  <2>10. CASE StopSet
    BY <2>10 DEF StopSet, BeginStop
  <2>11. CASE StopNotify
    BY <2>11 DEF StopNotify, Signalled
  <2>12. CASE Join
    BY <2>12 DEF Join
  <2>13. CASE UNCHANGED vars
    BY <2>13 DEF vars
  <2>14. QED
    BY <2>1, <2>2, <2>3, <2>4, <2>5, <2>6, <2>7, <2>8, <2>9, <2>10, <2>11,
       <2>12, <2>13 DEF Next, WorkerStep
<1>3. QED
  BY <1>1, <1>2, PTL DEF Spec

-------------------------------------------------------------------------------
\* No wakeup is lost: a sleeping worker with work to do is owed a signal.
THEOREM WakeupsNotLost == Spec => []NoLostWakeup
<1>1. Init => NoLostWakeup
  BY DEF Init, NoLostWakeup
<1>2. TypeOK /\ NoLostWakeup /\ [Next]_vars => NoLostWakeup'
  <2> SUFFICES ASSUME TypeOK, NoLostWakeup, [Next]_vars
               PROVE  NoLostWakeup'
    OBVIOUS
  <2> USE DEF NoLostWakeup, TypeOK
  <2>1. ASSUME NEW p \in Posters, Push(p)
        PROVE  NoLostWakeup'
    \* Only the push that finds the queue empty signals; a later one relies on it.
    <3>1. CASE gcEvents = <<>>
      <4>1. poster'[p] = "notify"
        BY <2>1, <3>1 DEF Push, PostToGC, WasEmpty
      <4>2. QED
        BY <2>1, <4>1 DEF Push, PostToGC, WasEmpty
    <3>2. CASE gcEvents # <<>>
      <4>1. poster' = poster
        BY <2>1, <3>2 DEF Push, PostToGC, WasEmpty
      <4>2. QED
        BY <2>1, <3>2, <4>1 DEF Push, PostToGC, WasEmpty
    <3>3. QED
      BY <3>1, <3>2
  <2>2. ASSUME NEW p \in Posters, Notify(p)
        PROVE  NoLostWakeup'
    BY <2>2 DEF Notify, Signalled
  <2>3. CASE Sleep
    BY <2>3 DEF Sleep
  <2>4. CASE StopSet
    BY <2>4 DEF StopSet, BeginStop
  <2>5. CASE StopNotify
    BY <2>5 DEF StopNotify, Signalled
  <2>6. CASE SpuriousWakeup \/ TakeBatch \/ PostToHost \/ HandlerReturns \/ Exit
    BY <2>6 DEF SpuriousWakeup, TakeBatch, PostToHost, HandlerReturns, Exit
  <2>7. CASE GetHostEvents \/ Join
    BY <2>7 DEF GetHostEvents, Join
  <2>8. CASE UNCHANGED vars
    BY <2>8 DEF vars
  <2>9. QED
    BY <2>1, <2>2, <2>3, <2>4, <2>5, <2>6, <2>7, <2>8 DEF Next, WorkerStep
<1>3. QED
  BY <1>1, <1>2, TypeCorrect, PTL DEF Spec

-------------------------------------------------------------------------------
\* Every event is in exactly one of the three places, in the order of the pushes.
THEOREM EventsConserved == Spec => []NothingLostOrReordered
<1>1. Init => NothingLostOrReordered
  BY DEF Init, NothingLostOrReordered
<1>2. TypeOK /\ NothingLostOrReordered /\ [Next]_vars => NothingLostOrReordered'
  <2> SUFFICES ASSUME TypeOK, NothingLostOrReordered, [Next]_vars
               PROVE  NothingLostOrReordered'
    OBVIOUS
  <2>t. /\ handled \in Seq(Event) /\ batch \in Seq(Event)
        /\ gcEvents \in Seq(Event) /\ posted \in Seq(Event)
        /\ handled \o batch \in Seq(Event)
    BY DEF TypeOK
  <2>1. ASSUME NEW p \in Posters, Push(p)
        PROVE  NothingLostOrReordered'
    <3> DEFINE e == <<p, Len(posted) + 1>>
    <3>1. e \in Event /\ <<e>> \in Seq(Event)
      BY <2>t DEF Event
    <3> HIDE DEF e
    <3>2. posted' = posted \o <<e>> /\ gcEvents' = gcEvents \o <<e>>
      BY <2>1, <2>t, <3>1, EventSeq DEF Push, PostToGC, WasEmpty, e
    <3>3. handled' = handled /\ batch' = batch
      BY <2>1 DEF Push, PostToGC, WasEmpty
    <3>4. ASSUME NEW u \in Seq(Event)
          PROVE  (u \o gcEvents) \o <<e>> = u \o (gcEvents \o <<e>>)
      <4>1. PICK E, g, x : E = Event /\ g = gcEvents /\ x = <<e>>
        OBVIOUS
      <4>2. u \in Seq(E) /\ g \in Seq(E) /\ x \in Seq(E)
        BY <2>t, <3>1, <4>1
      <4>3. (u \o g) \o x = u \o (g \o x)
        BY <4>2, ConcatAssociative
      <4> QED
        BY <4>1, <4>3
    <3>5. posted' = (handled \o batch) \o (gcEvents \o <<e>>)
      BY <2>t, <3>2, <3>4, Zenon DEF NothingLostOrReordered
    <3>6. QED
      BY <3>2, <3>3, <3>5, Zenon DEF NothingLostOrReordered
  <2>2. CASE TakeBatch
    <3>1. batch = <<>>
      BY <2>2 DEF TypeOK, TakeBatch
    <3>2. handled \o batch = handled
      BY <2>t, <3>1, ConcatEmptySeq
    <3>3. (handled \o gcEvents) \o <<>> = handled \o gcEvents
      BY <2>t, ConcatProperties, ConcatEmptySeq
    <3>4. QED
      BY <2>2, <3>2, <3>3 DEF TakeBatch, NothingLostOrReordered
  <2>3. CASE HandlerReturns
    <3>1. batch # <<>>
      BY <2>3 DEF TypeOK, HandlerReturns
    <3>2. Append(handled, Head(batch)) \o Tail(batch) = handled \o batch
      BY <2>t, <3>1, MoveHead
    <3>3. QED
      BY <2>3, <3>2 DEF HandlerReturns, NothingLostOrReordered
  <2>4. UNCHANGED <<posted, handled, batch, gcEvents>> => NothingLostOrReordered'
    BY DEF NothingLostOrReordered
  <2>5. QED
    BY <2>1, <2>2, <2>3, <2>4
       DEF Next, WorkerStep, Notify, Sleep, SpuriousWakeup, PostToHost, Exit,
           GetHostEvents, StopSet, BeginStop, StopNotify, Join, vars
<1>3. QED
  BY <1>1, <1>2, TypeCorrect, PTL DEF Spec

-------------------------------------------------------------------------------
\* The stop protocol, from which draining follows.
LEMMA StopProtocolHolds == Spec => []StopProtocol
<1>1. Init => StopProtocol
  BY DEF Init, StopProtocol
<1>2. TypeOK /\ StopProtocol /\ [Next]_vars => StopProtocol'
  <2> SUFFICES ASSUME TypeOK, StopProtocol, [Next]_vars
               PROVE  StopProtocol'
    OBVIOUS
  <2> USE DEF StopProtocol, TypeOK
  <2>1. ASSUME NEW p \in Posters, Push(p)
        PROVE  StopProtocol'
    BY <2>1 DEF Push, PostToGC, WasEmpty
  <2>2. ASSUME NEW p \in Posters, Notify(p)
        PROVE  StopProtocol'
    BY <2>2 DEF Notify, Signalled
  <2>3. CASE Sleep \/ SpuriousWakeup \/ TakeBatch \/ PostToHost
    BY <2>3 DEF Sleep, SpuriousWakeup, TakeBatch, PostToHost
  <2>4. CASE HandlerReturns
    BY <2>4 DEF HandlerReturns
  <2>5. CASE Exit \/ GetHostEvents \/ StopSet
    BY <2>5 DEF Exit, GetHostEvents, StopSet, BeginStop
  <2>6. CASE StopNotify
    BY <2>6 DEF StopNotify, Signalled
  <2>7. CASE Join
    BY <2>7 DEF Join
  <2>8. CASE UNCHANGED vars
    BY <2>8 DEF vars
  <2>9. QED
    BY <2>1, <2>2, <2>3, <2>4, <2>5, <2>6, <2>7, <2>8 DEF Next, WorkerStep
<1>3. QED
  BY <1>1, <1>2, TypeCorrect, PTL DEF Spec

\* StopThread returns only after the worker handled every event that was posted.
THEOREM StopDrains == Spec => []DrainedWhenJoined
<1>1. TypeOK /\ StopProtocol /\ NothingLostOrReordered => DrainedWhenJoined
  <2> SUFFICES ASSUME TypeOK, StopProtocol, NothingLostOrReordered,
                      stopper = "joined"
               PROVE  handled = posted
    BY DEF DrainedWhenJoined
  <2>1. gcEvents = <<>> /\ batch = <<>>
    BY DEF TypeOK, StopProtocol
  <2>2. (handled \o <<>>) \o <<>> = handled
    BY ConcatEmptySeq DEF TypeOK
  <2>3. QED
    BY <2>1, <2>2 DEF NothingLostOrReordered
<1>2. QED
  BY <1>1, TypeCorrect, StopProtocolHolds, EventsConserved, PTL

-------------------------------------------------------------------------------
\* While a batch is being handled, its head is the event the log hands out next.
LEMMA NextHandled ==
    ASSUME TypeOK, NothingLostOrReordered, batch # <<>>
    PROVE  /\ Len(handled) < Len(posted)
           /\ Head(batch) = posted[Len(handled) + 1]
<1>1. /\ handled \in Seq(Event) /\ batch \in Seq(Event)
      /\ gcEvents \in Seq(Event) /\ handled \o batch \in Seq(Event)
  BY DEF TypeOK
<1>2. Len(batch) \in Nat \ {0} /\ Len(handled) \in Nat /\ Len(gcEvents) \in Nat
  BY <1>1, EmptySeq, LenProperties
<1>3. /\ Len(handled \o batch) = Len(handled) + Len(batch)
      /\ (handled \o batch)[Len(handled) + 1] = batch[1]
  BY <1>1, <1>2, ConcatProperties
<1>4. /\ Len(posted) = Len(handled \o batch) + Len(gcEvents)
      /\ posted[Len(handled) + 1] = (handled \o batch)[Len(handled) + 1]
  BY <1>1, <1>2, <1>3, ConcatProperties DEF NothingLostOrReordered
<1>5. Head(batch) = batch[1]
  OBVIOUS
<1>6. QED
  BY <1>2, <1>3, <1>4, <1>5

\* The event loop implements the event log: a push is an Accept, the return of a
\* handler is a Handle, every other step leaves the log alone.
THEOREM RefinesEventLog == Spec => Log!Init /\ [][Log!Next]_(Log!vars)
<1>1. Init => Log!Init
  BY DEF Init, Log!Init
<1>2. TypeOK /\ NothingLostOrReordered /\ [Next]_vars => [Log!Next]_(Log!vars)
  <2> SUFFICES ASSUME TypeOK, NothingLostOrReordered, [Next]_vars
               PROVE  [Log!Next]_(Log!vars)
    OBVIOUS
  <2>1. ASSUME NEW p \in Posters, Push(p)
        PROVE  Log!Accept
    <3>1. Len(posted) + 1 \in 1..MaxPosts
      <4>1. Len(posted) \in Nat
        BY LenProperties DEF TypeOK
      <4>2. QED
        BY <2>1, <4>1, SharedGCAssumption DEF Push, PostToGC, WasEmpty
    <3>2. <<p, Len(posted) + 1>> \in Posters \X (1..MaxPosts)
      BY <3>1
    <3>3. QED
      BY <2>1, <3>2 DEF Push, PostToGC, WasEmpty, Log!Accept
  <2>2. CASE HandlerReturns
    <3>1. batch # <<>>
      BY <2>2 DEF TypeOK, HandlerReturns
    <3>2. QED
      BY <2>2, <3>1, NextHandled DEF HandlerReturns, Log!Handle, Log!Next
  <2>3. UNCHANGED <<posted, handled>> => [Log!Next]_(Log!vars)
    BY DEF Log!vars
  <2>4. QED
    BY <2>1, <2>2, <2>3
       DEF Next, WorkerStep, Notify, Sleep, SpuriousWakeup, TakeBatch, PostToHost,
           Exit, GetHostEvents, StopSet, BeginStop, StopNotify, Join, vars, Log!Next
<1>3. QED
  BY <1>1, <1>2, TypeCorrect, EventsConserved, PTL DEF Spec
-------------------------------------------------------------------------------
(* Host events keep their order.  An event is numbered by its place in the *)
(* history, so those of which a host event tells come in the order of      *)
(* their numbers, and none is ahead of the event being handled.            *)

Seen == delivered \o hostEvents

Before(x, y) == x[1][2] < y[1][2] \/ (x[1] = y[1] /\ x[2] < y[2])

InOrder(seen) == \A i, j \in DOMAIN seen : i < j => Before(seen[i], seen[j])

Numbered == \A k \in 1..Len(posted) : posted[k][2] = k

\* A host event is of an event that was handled, or an earlier reply to the present one.
Told(x, done, b, n) == x[1][2] <= Len(done) \/ (b # <<>> /\ x[1] = Head(b) /\ x[2] <= n)

OrderInv == Numbered /\ InOrder(Seen) /\ \A i \in DOMAIN Seen : Told(Seen[i], handled, batch, replies)

LEMMA OrderExtended ==
    ASSUME NEW seen \in Seq(HostEvent), NEW x \in HostEvent, InOrder(seen),
           \A i \in DOMAIN seen : Before(seen[i], x)
    PROVE  InOrder(Append(seen, x))
<1>1. /\ DOMAIN seen = 1..Len(seen) /\ Len(seen) \in Nat
      /\ DOMAIN Append(seen, x) = 1..Len(seen) + 1
      /\ \A i \in 1..Len(seen) : Append(seen, x)[i] = seen[i]
      /\ Append(seen, x)[Len(seen) + 1] = x
  BY AppendProperties, LenProperties
<1>2. SUFFICES ASSUME NEW i \in 1..Len(seen) + 1, NEW j \in 1..Len(seen) + 1, i < j
               PROVE  Before(Append(seen, x)[i], Append(seen, x)[j])
  BY <1>1, Zenon DEF InOrder
<1>3. i \in 1..Len(seen)
  BY <1>1, <1>2
<1>4. CASE j \in 1..Len(seen)
  BY <1>1, <1>2, <1>3, <1>4 DEF InOrder
<1>5. CASE j = Len(seen) + 1
  BY <1>1, <1>3, <1>5
<1>6. QED
  BY <1>1, <1>2, <1>4, <1>5

LEMMA HeadIsNumbered ==
    ASSUME TypeOK, NothingLostOrReordered, Numbered, batch # <<>>
    PROVE  Head(batch)[2] = Len(handled) + 1
  BY NextHandled, LenProperties DEF TypeOK, Numbered

LEMMA OrderInvInit == Init => OrderInv
<1>1. ASSUME Init PROVE Seen = <<>> /\ posted = <<>>
  BY <1>1 DEF Init, Seen
<1>2. QED
  BY <1>1 DEF OrderInv, Numbered, InOrder

LEMMA OrderInvStep ==
    ASSUME TypeOK, TypeOK', NothingLostOrReordered, OrderInv, [Next]_vars PROVE OrderInv'
<1>t. /\ delivered \in Seq(HostEvent) /\ hostEvents \in Seq(HostEvent) /\ Seen \in Seq(HostEvent)
      /\ Len(handled) \in Nat /\ replies \in Nat
  BY LenProperties, ConcatProperties DEF TypeOK, Seen
<1>d. DOMAIN Seen = 1..Len(Seen) /\ \A i \in DOMAIN Seen : Seen[i] \in HostEvent
  BY <1>t
\* A push only makes the history longer.
<1>1. ASSUME NEW p \in Posters, Push(p) PROVE OrderInv'
  <2>1. /\ posted' = Append(posted, <<p, Len(posted) + 1>>)
        /\ UNCHANGED <<delivered, hostEvents, handled, batch, replies>>
    BY <1>1 DEF Push, PostToGC
  <2>2. Numbered'
    <3>1. posted \in Seq(Event) /\ Len(posted) \in Nat
      BY DEF TypeOK
    <3>2. <<p, Len(posted) + 1>> \in Event
      BY <3>1 DEF Event
    <3>3. QED
      BY <2>1, <3>1, <3>2, AppendProperties DEF OrderInv, Numbered
  <2>3. QED
    BY <2>1, <2>2 DEF OrderInv, InOrder, Told, Seen
<1>2. CASE TakeBatch
  <2>1. batch = <<>>
    BY <1>2 DEF TypeOK, TakeBatch
  <2>2. UNCHANGED <<posted, delivered, hostEvents, handled>>
    BY <1>2 DEF TakeBatch
  <2>3. Seen' = Seen /\ Numbered'
    BY <2>2 DEF OrderInv, Seen, Numbered
  <2>4. QED
    <3>1. ASSUME NEW y, Told(y, handled, batch, replies)
          PROVE  Told(y, handled', batch', replies')
      BY <2>1, <2>2, <3>1 DEF Told
    <3>2. QED
      BY <2>3, <3>1, Zenon DEF OrderInv, InOrder
<1>3. CASE PostToHost
  <2> DEFINE x == <<Head(batch), replies + 1>>
  <2>1. batch # <<>> /\ Head(batch) \in Event
    BY <1>3 DEF TypeOK, PostToHost
  <2>2. x \in HostEvent
    BY <1>t, <2>1 DEF HostEvent
  <2>3. /\ hostEvents' = Append(hostEvents, x) /\ replies' = replies + 1
        /\ UNCHANGED <<posted, delivered, handled, batch>>
    BY <1>3 DEF PostToHost
  <2>4. Head(batch)[2] = Len(handled) + 1
    BY <2>1, HeadIsNumbered DEF OrderInv
  <2>5. \A i \in DOMAIN Seen : Before(Seen[i], x)
    <3>1. ASSUME NEW y \in HostEvent, Told(y, handled, batch, replies) PROVE Before(y, x)
      BY <1>t, <2>4, <3>1 DEF Told, Before, HostEvent, Event
    <3>2. QED
      BY <1>d, <3>1, Zenon DEF OrderInv
  <2>6. Told(x, handled', batch', replies')
    BY <1>t, <2>1, <2>3 DEF Told
  <2>7. ASSUME NEW y \in HostEvent, Told(y, handled, batch, replies) PROVE Told(y, handled', batch', replies')
    BY <1>t, <2>3, <2>7 DEF Told, HostEvent
  <2> HIDE DEF x
  <2>8. Seen' = Append(Seen, x)
    <3>1. Seen' = delivered \o (hostEvents \o <<x>>)
      BY <1>t, <2>2, <2>3, AppendIsConcat DEF Seen
    <3>2. <<x>> \in Seq(HostEvent)
      BY <2>2
    <3>3. Seen' = Seen \o <<x>>
      BY <1>t, <3>1, <3>2, ConcatAssociative DEF Seen
    <3>4. QED
      BY <1>t, <2>2, <3>3, AppendIsConcat
  <2>9. /\ DOMAIN (Seen') = 1..Len(Seen) + 1 /\ Len(Seen) \in Nat
        /\ \A i \in 1..Len(Seen) : Seen'[i] = Seen[i]
        /\ Seen'[Len(Seen) + 1] = x
    BY <1>t, <2>2, <2>8, AppendProperties, LenProperties
  <2>10. \A i \in DOMAIN (Seen') : Told(Seen'[i], handled', batch', replies')
    <3> SUFFICES ASSUME NEW i \in 1..Len(Seen) + 1 PROVE Told(Seen'[i], handled', batch', replies')
      BY <2>9, Zenon
    <3>1. CASE i = Len(Seen) + 1
      BY <2>6, <2>9, <3>1
    <3>2. CASE i \in 1..Len(Seen)
      BY <1>d, <2>7, <2>9, <3>2 DEF OrderInv
    <3>3. QED
      BY <2>9, <3>1, <3>2
  <2>11. InOrder(Seen)'
    BY <1>t, <2>2, <2>5, <2>8, OrderExtended DEF OrderInv
  <2>12. Numbered'
    BY <2>3 DEF OrderInv, Numbered
  <2>13. QED
    BY <2>10, <2>11, <2>12 DEF OrderInv
<1>4. CASE HandlerReturns
  <2>1. batch # <<>>
    BY <1>4 DEF TypeOK, HandlerReturns
  <2>2. UNCHANGED <<posted, delivered, hostEvents>> /\ handled' = Append(handled, Head(batch))
    BY <1>4 DEF HandlerReturns
  <2>3. Len(handled') = Len(handled) + 1
    BY <2>1, <2>2, AppendProperties DEF TypeOK
  <2>4. Head(batch)[2] = Len(handled) + 1
    BY <2>1, HeadIsNumbered DEF OrderInv
  <2>5. ASSUME NEW y \in HostEvent, Told(y, handled, batch, replies) PROVE Told(y, handled', batch', replies')
    <3>1. y[1][2] \in Nat
      BY DEF HostEvent, Event
    <3>2. y[1][2] <= Len(handled) + 1
      BY <1>t, <2>4, <2>5, <3>1 DEF Told
    <3>3. QED
      BY <2>3, <3>2 DEF Told
  <2>6. Seen' = Seen /\ Numbered'
    BY <2>2 DEF OrderInv, Seen, Numbered
  <2>7. QED
    BY <1>d, <2>5, <2>6 DEF OrderInv, InOrder
<1>5. CASE GetHostEvents
  <2>1. /\ delivered' = delivered \o hostEvents /\ hostEvents' = <<>>
        /\ UNCHANGED <<posted, handled, batch, replies>>
    BY <1>5 DEF GetHostEvents
  <2>2. Seen' = Seen
    BY <1>t, <2>1, ConcatEmptySeq DEF Seen
  <2>3. QED
    BY <2>1, <2>2 DEF OrderInv, Numbered, InOrder, Told
<1>6. ASSUME UNCHANGED <<posted, delivered, hostEvents, handled, batch, replies>> PROVE OrderInv'
  BY <1>6 DEF OrderInv, Numbered, InOrder, Told, Seen
<1>7. QED
  BY <1>1, <1>2, <1>3, <1>4, <1>5, <1>6
     DEF Next, WorkerStep, Notify, Sleep, SpuriousWakeup, Exit, StopSet, BeginStop,
         StopNotify, Join, vars

\* What the main thread collects is in the order in which the handlers produced it,
\* whatever is posted meanwhile and however the batches fall (gc_shared.cpp:51-56, 91-94).
THEOREM HostEventsKeepOrder == Spec => []HostEventsInOrder
<1>1. OrderInv => HostEventsInOrder
  BY Zenon DEF OrderInv, InOrder, Before, Seen, HostEventsInOrder
<1>2. TypeOK /\ TypeOK' /\ NothingLostOrReordered /\ OrderInv /\ [Next]_vars => OrderInv'
  BY OrderInvStep
<1>3. QED
  BY <1>1, <1>2, OrderInvInit, TypeCorrect, EventsConserved, PTL DEF Spec

-------------------------------------------------------------------------------
(* The item tools.  What the game learns from a message, and what it has   *)
(* learned on the way.                                                     *)

Items == UNION {[D -> Item] : D \in SUBSET Nat}

Message ==
    [kind : {"item"}, id : Nat, item : Item] \cup [kind : {"destroy"}, id : Nat]
    \cup [kind : {"notification"}, ids : SUBSET Nat] \cup [kind : {"snapshot"}, items : Items]

\* What the game knows after it has fetched some messages, what it knew at some time on
\* the way, and whether it knew the items it was told of.
Follow(c, m) ==
    [cache |-> Apply(c.cache, m),
     seen |-> c.seen \cup DOMAIN Apply(c.cache, m),
     ok |-> c.ok /\ (m.kind = "notification" => m.ids \subseteq DOMAIN c.cache)]
From(cache) == [cache |-> cache, seen |-> DOMAIN cache, ok |-> TRUE]
Copies == [cache : Items, seen : SUBSET Nat, ok : BOOLEAN]

-------------------------------------------------------------------------------
(* The folds of the models, as far as their first n steps.  FoldLeft is    *)
(* defined through a function on all the sets of positions; what it gives  *)
(* for the first n positions is Folded.  Four folds meet here.  (The       *)
(* induction is a least counterexample.)                                   *)

Step(k, c, o) ==
    CASE k = 1 -> Apply(c, o)
      [] k = 2 -> Follow(c, o)
      [] k = 3 -> Plus(c, o)
      [] k = 4 -> Times(c, o)

IsFold(k, f, c, s, n) ==
    f = [x \in SUBSET (1..n) |-> IF x = {} THEN c ELSE Step(k, f[x \ {Max(x)}], s[Max(x)])]

Folds(k, c, s, n) == \E f : IsFold(k, f, c, s, n) /\ \A g : IsFold(k, g, c, s, n) => g = f

Folded(k, c, s, n) == (CHOOSE f : IsFold(k, f, c, s, n))[1..n]

LEMMA MaxIs == ASSUME NEW n \in Nat, NEW x \in SUBSET (1..n), n \in x PROVE Max(x) = n
  <1>1. \A y \in x : n >= y
    OBVIOUS
  <1>2. \A m \in x : (\A y \in x : m >= y) => m = n
    OBVIOUS
  <1> QED
    BY <1>1, <1>2 DEF Max

\* The function for one position more contains the one without it.
LEMMA FoldPart ==
    ASSUME NEW k, NEW c, NEW s, NEW n \in Nat, NEW f, IsFold(k, f, c, s, n + 1)
    PROVE  /\ IsFold(k, [x \in SUBSET (1..n) |-> f[x]], c, s, n)
           /\ \A x \in SUBSET (1 .. n + 1) :
                n + 1 \in x => f[x] = Step(k, f[x \ {n + 1}], s[n + 1])
           /\ \A x \in SUBSET (1 .. n + 1) : n + 1 \in x => x \ {n + 1} \in SUBSET (1..n)
  <1> DEFINE g == [x \in SUBSET (1..n) |-> f[x]]
  <1>1. ASSUME NEW x \in SUBSET (1 .. n + 1)
        PROVE  f[x] = IF x = {} THEN c ELSE Step(k, f[x \ {Max(x)}], s[Max(x)])
    BY Zenon DEF IsFold
  <1>2. ASSUME NEW x \in SUBSET (1..n)
        PROVE  /\ x \in SUBSET (1 .. n + 1) /\ x \ {Max(x)} \in SUBSET (1..n)
    <2>1. 1..n \subseteq 1 .. n + 1
      OBVIOUS
    <2> QED
      BY <2>1, Zenon
  <1>3. ASSUME NEW x \in SUBSET (1..n)
        PROVE  g[x] = IF x = {} THEN c ELSE Step(k, g[x \ {Max(x)}], s[Max(x)])
    <2>1. g[x] = f[x] /\ g[x \ {Max(x)}] = f[x \ {Max(x)}]
      BY <1>2
    <2>2. f[x] = IF x = {} THEN c ELSE Step(k, f[x \ {Max(x)}], s[Max(x)])
      BY <1>1, <1>2
    <2> QED
      BY <2>1, <2>2, Zenon
  <1>4. g = [x \in SUBSET (1..n) |-> IF x = {} THEN c ELSE Step(k, g[x \ {Max(x)}], s[Max(x)])]
    <2>1. g = [x \in SUBSET (1..n) |-> g[x]]
      OBVIOUS
    <2> HIDE DEF g
    <2> QED
      BY <1>3, <2>1
  <1>5. ASSUME NEW x \in SUBSET (1 .. n + 1), n + 1 \in x
        PROVE  f[x] = Step(k, f[x \ {n + 1}], s[n + 1]) /\ x \ {n + 1} \in SUBSET (1..n)
    <2>1. Max(x) = n + 1 /\ x # {}
      BY <1>5, MaxIs
    <2>2. x \ {n + 1} \in SUBSET (1..n)
      OBVIOUS
    <2> QED
      BY <1>1, <2>1, <2>2
  <1> QED
    BY <1>4, <1>5 DEF IsFold

LEMMA Induction ==
    ASSUME NEW T, 0 \in T, \A n \in Nat : n \in T => n + 1 \in T
    PROVE  Nat \subseteq T
  <1> DEFINE bad == Nat \ T
  <1> SUFFICES ASSUME bad # {} PROVE FALSE
    OBVIOUS
  <1>1. PICK n \in bad : \A m \in bad : <<m, n>> \notin OpToRel(<, Nat)
    BY NatLessThanWellFounded, WFMin
  <1>2. n # 0
    OBVIOUS
  <1>3. n - 1 \in Nat /\ (n - 1) + 1 = n /\ <<n - 1, n>> \in OpToRel(<, Nat)
    BY <1>2 DEF OpToRel
  <1>4. n - 1 \notin bad
    BY <1>1, <1>3
  <1> QED
    BY <1>3, <1>4

LEMMA FoldZero ==
    ASSUME NEW k, NEW c, NEW s
    PROVE  Folds(k, c, s, 0) /\ Folded(k, c, s, 0) = c
  <1> DEFINE f == [x \in SUBSET (1..0) |-> c]
  <1>1. SUBSET (1..0) = {{}}
    OBVIOUS
  <1>2. IsFold(k, f, c, s, 0)
    BY <1>1 DEF IsFold
  <1>3. ASSUME NEW g, IsFold(k, g, c, s, 0) PROVE g = f
    BY <1>1, <1>3 DEF IsFold
  <1>4. f[1..0] = c
    BY <1>1
  <1> QED
    BY <1>2, <1>3, <1>4 DEF Folds, Folded

LEMMA FoldMore ==
    ASSUME NEW k, NEW c, NEW s, NEW n \in Nat, Folds(k, c, s, n)
    PROVE  Folds(k, c, s, n + 1) /\ Folded(k, c, s, n + 1) = Step(k, Folded(k, c, s, n), s[n + 1])
  <1> DEFINE m == n + 1
  <1>1. PICK f : IsFold(k, f, c, s, n) /\ \A g : IsFold(k, g, c, s, n) => g = f
    BY DEF Folds
  <1> DEFINE h == [x \in SUBSET (1..m) |->
                     IF m \in x THEN Step(k, f[x \ {m}], s[m]) ELSE f[x]]
  <1>2. ASSUME NEW x \in SUBSET (1..m), m \in x
        PROVE  /\ Max(x) = m /\ x # {} /\ x \ {m} \in SUBSET (1..n)
               /\ h[x] = Step(k, f[x \ {m}], s[m]) /\ h[x \ {m}] = f[x \ {m}]
    <2>1. Max(x) = m /\ x # {}
      BY <1>2, MaxIs
    <2>2. x \ {m} \in SUBSET (1..n) /\ x \ {m} \in SUBSET (1..m) /\ m \notin x \ {m}
      OBVIOUS
    <2>3. h[x] = Step(k, f[x \ {m}], s[m])
      BY <1>2, Zenon
    <2>4. h[x \ {m}] = f[x \ {m}]
      BY <2>2, Zenon
    <2> QED
      BY <2>1, <2>2, <2>3, <2>4
  <1>3. ASSUME NEW x \in SUBSET (1..m), m \notin x
        PROVE  h[x] = f[x] /\ h[x \ {Max(x)}] = f[x \ {Max(x)}] /\ x \in SUBSET (1..n)
    <2>1. x \in SUBSET (1..n)
      BY <1>3
    <2>2. x \ {Max(x)} \in SUBSET (1..m) /\ m \notin x \ {Max(x)}
      BY <1>3
    <2>3. h[x] = f[x]
      BY <1>3, Zenon
    <2>4. h[x \ {Max(x)}] = f[x \ {Max(x)}]
      BY <2>2, Zenon
    <2> QED
      BY <2>1, <2>3, <2>4
  <1>4. ASSUME NEW x \in SUBSET (1..n)
        PROVE  f[x] = IF x = {} THEN c ELSE Step(k, f[x \ {Max(x)}], s[Max(x)])
    BY <1>1, Zenon DEF IsFold
  <1>5. h = [x \in SUBSET (1..m) |-> h[x]]
    OBVIOUS
  <1> HIDE DEF h
  <1>6. ASSUME NEW x \in SUBSET (1..m)
        PROVE  h[x] = IF x = {} THEN c ELSE Step(k, h[x \ {Max(x)}], s[Max(x)])
    <2>1. CASE m \in x
      BY <1>2, <2>1
    <2>2. CASE m \notin x
      <3>1. h[x] = f[x] /\ h[x \ {Max(x)}] = f[x \ {Max(x)}] /\ x \in SUBSET (1..n)
        BY <1>3, <2>2
      <3>2. f[x] = IF x = {} THEN c ELSE Step(k, f[x \ {Max(x)}], s[Max(x)])
        BY <1>4, <3>1
      <3> QED
        BY <3>1, <3>2, Zenon
    <2> QED
      BY <2>1, <2>2
  <1>7. IsFold(k, h, c, s, m)
    BY <1>5, <1>6 DEF IsFold
  <1>8. ASSUME NEW g, IsFold(k, g, c, s, m)
        PROVE  g = h /\ g[1..m] = Step(k, f[1..n], s[m])
    <2> DEFINE part == [x \in SUBSET (1..n) |-> g[x]]
    <2>1. /\ IsFold(k, part, c, s, n)
          /\ \A x \in SUBSET (1..m) : m \in x => g[x] = Step(k, g[x \ {m}], s[m])
          /\ \A x \in SUBSET (1..m) : m \in x => x \ {m} \in SUBSET (1..n)
      BY <1>8, FoldPart
    <2>2. part = f
      BY <1>1, <2>1
    <2>3. \A x \in SUBSET (1..n) : g[x] = f[x]
      BY <2>2
    <2>4. g = [x \in SUBSET (1..m) |-> g[x]]
      BY <1>8 DEF IsFold
    <2> HIDE DEF part
    <2>5. ASSUME NEW x \in SUBSET (1..m) PROVE g[x] = h[x]
      <3>1. CASE m \in x
        BY <1>2, <2>1, <2>3, <3>1
      <3>2. CASE m \notin x
        BY <1>3, <2>3, <3>2
      <3> QED
        BY <3>1, <3>2
    <2>6. g = h
      BY <1>5, <2>4, <2>5
    <2>7. g[1..m] = Step(k, f[1..n], s[m])
      <3>1. 1..m \in SUBSET (1..m) /\ m \in 1..m /\ (1..m) \ {m} = 1..n
        OBVIOUS
      <3>2. g[1..m] = Step(k, g[(1..m) \ {m}], s[m])
        BY <2>1, <3>1
      <3>3. g[1..n] = f[1..n]
        BY <2>3
      <3> QED
        BY <3>1, <3>2, <3>3, Zenon
    <2> QED
      BY <2>6, <2>7
  <1>9. Folded(k, c, s, n) = f[1..n]
    BY <1>1 DEF Folded
  <1>10. Folds(k, c, s, m)
    BY <1>7, <1>8 DEF Folds
  <1>11. Folded(k, c, s, m) = Step(k, f[1..n], s[m])
    BY <1>7, <1>8 DEF Folded
  <1> QED
    BY <1>9, <1>10, <1>11

LEMMA FoldsAll == ASSUME NEW k, NEW c, NEW s PROVE \A n \in Nat : Folds(k, c, s, n)
  <1> DEFINE T == {n \in Nat : Folds(k, c, s, n)}
  <1>1. 0 \in T /\ \A n \in Nat : n \in T => n + 1 \in T
    BY FoldZero, FoldMore
  <1> HIDE DEF T
  <1>2. Nat \subseteq T
    BY <1>1, Induction
  <1> QED
    BY <1>2 DEF T

LEMMA FoldStep ==
    ASSUME NEW k, NEW c, NEW s, NEW n \in Nat
    PROVE  Folded(k, c, s, n + 1) = Step(k, Folded(k, c, s, n), s[n + 1])
  BY FoldsAll, FoldMore

\* The elements beyond the n-th do not count yet.
LEMMA FoldSame ==
    ASSUME NEW k, NEW c, NEW s, NEW t, NEW m \in Nat, \A i \in 1..m : s[i] = t[i]
    PROVE  Folded(k, c, s, m) = Folded(k, c, t, m)
  <1> DEFINE T == {n \in Nat : n <= m => Folded(k, c, s, n) = Folded(k, c, t, n)}
  <1>1. 0 \in T
    BY FoldZero
  <1>2. ASSUME NEW n \in Nat, n \in T, n + 1 <= m PROVE n + 1 \in T
    <2>1. Folded(k, c, s, n + 1) = Step(k, Folded(k, c, s, n), s[n + 1])
      BY FoldStep
    <2>2. Folded(k, c, t, n + 1) = Step(k, Folded(k, c, t, n), t[n + 1])
      BY FoldStep
    <2>3. s[n + 1] = t[n + 1] /\ Folded(k, c, s, n) = Folded(k, c, t, n)
      BY <1>2
    <2> QED
      BY <2>1, <2>2, <2>3
  <1>3. Nat \subseteq T
    <2>1. \A n \in Nat : n \in T => n + 1 \in T
      BY <1>2
    <2> HIDE DEF T
    <2> QED
      BY <1>1, <2>1, Induction
  <1> QED
    BY <1>3

\* The k-th fold of a sequence.
Reduced(k, c, s) == Folded(k, c, s, Len(s))

LEMMA ReducedNone == ASSUME NEW k, NEW c PROVE Reduced(k, c, <<>>) = c
  BY FoldZero DEF Reduced

LEMMA ReducedMore ==
    ASSUME NEW k, NEW c, NEW S, NEW s \in Seq(S), NEW o \in S
    PROVE  Reduced(k, c, Append(s, o)) = Step(k, Reduced(k, c, s), o)
  <1> DEFINE t == Append(s, o)
             n == Len(s)
  <1>1. n \in Nat /\ Len(t) = n + 1 /\ t[n + 1] = o /\ \A i \in 1..n : t[i] = s[i]
    OBVIOUS
  <1> HIDE DEF t, n
  <1>2. Folded(k, c, t, n + 1) = Step(k, Folded(k, c, t, n), o)
    BY <1>1, FoldStep
  <1>3. Folded(k, c, t, n) = Folded(k, c, s, n)
    BY <1>1, FoldSame
  <1> QED
    BY <1>1, <1>2, <1>3 DEF t, n, Reduced

\* A sequence is the prefixes of it, one after another.
Prefix(s, n) == [i \in 1..n |-> s[i]]

LEMMA PrefixIs ==
    ASSUME NEW S, NEW s \in Seq(S)
    PROVE  /\ Prefix(s, 0) = <<>> /\ Prefix(s, Len(s)) = s
           /\ \A n \in 0..Len(s) : Prefix(s, n) \in Seq(S) /\ Len(Prefix(s, n)) = n
           /\ \A n \in 0..(Len(s) - 1) : Prefix(s, n + 1) = Append(Prefix(s, n), s[n + 1]) /\ s[n + 1] \in S
  <1>1. Prefix(s, 0) = <<>>
    BY DEF Prefix
  <1>2. Prefix(s, Len(s)) = s
    BY DEF Prefix
  <1>3. ASSUME NEW n \in 0..Len(s) PROVE Prefix(s, n) \in Seq(S) /\ Len(Prefix(s, n)) = n
    BY DEF Prefix
  <1>4. ASSUME NEW n \in 0..(Len(s) - 1)
        PROVE  Prefix(s, n + 1) = Append(Prefix(s, n), s[n + 1]) /\ s[n + 1] \in S
    <2>1. Prefix(s, n) \in Seq(S) /\ Len(Prefix(s, n)) = n /\ n \in Nat /\ s[n + 1] \in S
      BY <1>3
    <2>2. Append(Prefix(s, n), s[n + 1]) \in Seq(S) /\ Len(Append(Prefix(s, n), s[n + 1])) = n + 1
      BY <2>1
    <2>3. \A i \in 1..(n + 1) : Append(Prefix(s, n), s[n + 1])[i] = s[i]
      BY <2>1 DEF Prefix
    <2> QED
      BY <2>1, <2>2, <2>3 DEF Prefix
  <1> QED
    BY <1>1, <1>2, <1>3, <1>4

LEMMA ReducedPrefix ==
    ASSUME NEW k, NEW c, NEW S, NEW s \in Seq(S), NEW n \in 0..(Len(s) - 1)
    PROVE  Reduced(k, c, Prefix(s, n + 1)) = Step(k, Reduced(k, c, Prefix(s, n)), s[n + 1])
  <1> DEFINE p == Prefix(s, n)
             o == s[n + 1]
  <1>1. p \in Seq(S) /\ o \in S /\ Prefix(s, n + 1) = Append(p, o)
    BY PrefixIs
  <1> HIDE DEF p, o
  <1>2. Reduced(k, c, Append(p, o)) = Step(k, Reduced(k, c, p), o)
    BY <1>1, ReducedMore
  <1> QED
    BY <1>1, <1>2 DEF p, o

LEMMA ReducedOne ==
    ASSUME NEW k, NEW c, NEW o PROVE Reduced(k, c, <<o>>) = Step(k, c, o)
  <1>1. PICK e : e = <<>>
    OBVIOUS
  <1>2. PICK S : S = {o}
    OBVIOUS
  <1>3. e \in Seq(S) /\ o \in S /\ Append(e, o) = <<o>>
    BY <1>1, <1>2
  <1>4. Reduced(k, c, e) = c
    BY <1>1, ReducedNone
  <1>5. Reduced(k, c, Append(e, o)) = Step(k, Reduced(k, c, e), o)
    <2>1. e \in Seq(S) /\ o \in S
      BY <1>3
    <2> QED
      BY <2>1, ReducedMore
  <1> QED
    BY <1>3, <1>4, <1>5

LEMMA ReducedConcat ==
    ASSUME NEW k, NEW c, NEW S, NEW s \in Seq(S), NEW t \in Seq(S)
    PROVE  Reduced(k, c, s \o t) = Reduced(k, Reduced(k, c, s), t)
  <1> DEFINE T == {n \in Nat : n <= Len(t) =>
                       Reduced(k, c, s \o Prefix(t, n)) = Reduced(k, Reduced(k, c, s), Prefix(t, n))}
  <1>1. 0 \in T
    <2>1. s \o Prefix(t, 0) = s /\ Prefix(t, 0) = <<>>
      BY PrefixIs
    <2> QED
      BY <2>1, ReducedNone
  <1>2. ASSUME NEW n \in Nat, n \in T, n + 1 <= Len(t) PROVE n + 1 \in T
    <2> DEFINE p == Prefix(t, n)
               o == t[n + 1]
    <2>1. p \in Seq(S) /\ o \in S /\ Prefix(t, n + 1) = Append(p, o)
      BY <1>2, PrefixIs
    <2>2. Reduced(k, c, s \o p) = Reduced(k, Reduced(k, c, s), p)
      BY <1>2
    <2> DEFINE q == s \o p
               d == Reduced(k, c, s)
    <2>6. q \in Seq(S) /\ s \o Append(p, o) = Append(q, o)
      BY <2>1
    <2> HIDE DEF p, o, q, d
    <2>4. Reduced(k, c, Append(q, o)) = Step(k, Reduced(k, c, q), o)
      BY <2>1, <2>6, ReducedMore
    <2>5. Reduced(k, d, Append(p, o)) = Step(k, Reduced(k, d, p), o)
      BY <2>1, ReducedMore
    <2>7. Reduced(k, c, s \o Prefix(t, n + 1)) = Reduced(k, d, Prefix(t, n + 1))
      BY <2>1, <2>2, <2>4, <2>5, <2>6 DEF q, d
    <2> QED
      BY <2>7 DEF d
  <1>3. Nat \subseteq T
    <2>1. \A n \in Nat : n \in T => n + 1 \in T
      BY <1>2
    <2> HIDE DEF T
    <2> QED
      BY <1>1, <2>1, Induction
  <1>4. Len(t) \in T
    BY <1>3
  <1> QED
    BY <1>4, PrefixIs

\* The folds of the model are these.
LEMMA ApplyFold == ASSUME NEW c, NEW S, NEW s \in Seq(S) PROVE FoldLeft(Apply, c, s) = Reduced(1, c, s)
  <1> DEFINE n == Len(s)
             IsIt(f) == f = [x \in SUBSET (1..n) |-> IF x = {} THEN c ELSE Apply(f[x \ {Max(x)}], s[Max(x)])]
  <1>1. \A f : IsIt(f) <=> IsFold(1, f, c, s, n)
    BY DEF IsFold, Step
  <1>2. DOMAIN s = 1..n
    OBVIOUS
  <1>3. FoldLeft(Apply, c, s) = (CHOOSE f : IsIt(f))[1..n]
    BY <1>2 DEF FoldLeft, MapThenFoldSet
  <1> HIDE DEF IsIt
  <1> QED
    BY <1>1, <1>3 DEF Folded, Reduced

LEMMA SumIs == ASSUME NEW S, NEW s \in Seq(S) PROVE Sum(s) = Reduced(3, 0, s)
  <1> DEFINE n == Len(s)
             IsIt(f) == f = [x \in SUBSET (1..n) |-> IF x = {} THEN 0 ELSE Plus(f[x \ {Max(x)}], s[Max(x)])]
  <1>1. \A f : IsIt(f) <=> IsFold(3, f, 0, s, n)
    BY DEF IsFold, Step
  <1>2. DOMAIN s = 1..n
    OBVIOUS
  <1>3. Sum(s) = (CHOOSE f : IsIt(f))[1..n]
    BY <1>2 DEF FoldLeft, MapThenFoldSet, Sum
  <1> HIDE DEF IsIt
  <1> QED
    BY <1>1, <1>3 DEF Folded, Reduced

LEMMA ProductIs ==
    ASSUME NEW S, NEW s \in Seq(S) PROVE FoldLeft(Times, 1, s) = Reduced(4, 1, s)
  <1> DEFINE n == Len(s)
             IsIt(f) == f = [x \in SUBSET (1..n) |-> IF x = {} THEN 1 ELSE Times(f[x \ {Max(x)}], s[Max(x)])]
  <1>1. \A f : IsIt(f) <=> IsFold(4, f, 1, s, n)
    BY DEF IsFold, Step
  <1>2. DOMAIN s = 1..n
    OBVIOUS
  <1>3. FoldLeft(Times, 1, s) = (CHOOSE f : IsIt(f))[1..n]
    BY <1>2 DEF FoldLeft, MapThenFoldSet
  <1> HIDE DEF IsIt
  <1> QED
    BY <1>1, <1>3 DEF Folded, Reduced

-------------------------------------------------------------------------------
(* Sums.                                                                   *)

Total(s, n) == Folded(3, 0, s, n)

LEMMA TotalNone == ASSUME NEW s PROVE Total(s, 0) = 0
  BY FoldZero DEF Total

LEMMA TotalMore ==
    ASSUME NEW s, NEW n \in Nat
    PROVE  Total(s, n + 1) = Total(s, n) + s[n + 1]
  BY FoldStep DEF Total, Step, Plus

LEMMA TotalSame ==
    ASSUME NEW s, NEW t, NEW m \in Nat, \A i \in 1..m : s[i] = t[i]
    PROVE  Total(s, m) = Total(t, m)
  BY FoldSame DEF Total

LEMMA SumOf == ASSUME NEW s \in Seq(Nat) PROVE Sum(s) = Total(s, Len(s))
  BY SumIs DEF Total, Reduced

LEMMA TotalIsNat ==
    ASSUME NEW s, NEW m \in Nat, \A i \in 1..m : s[i] \in Nat
    PROVE  Total(s, m) \in Nat
  <1> DEFINE T == {n \in Nat : n <= m => Total(s, n) \in Nat}
  <1>1. 0 \in T
    BY TotalNone
  <1>2. ASSUME NEW n \in Nat, n \in T, n + 1 <= m PROVE n + 1 \in T
    <2>1. Total(s, n + 1) = Total(s, n) + s[n + 1]
      BY TotalMore
    <2>2. s[n + 1] \in Nat /\ Total(s, n) \in Nat
      BY <1>2
    <2> QED
      BY <2>1, <2>2
  <1>3. Nat \subseteq T
    <2>1. \A n \in Nat : n \in T => n + 1 \in T
      BY <1>2
    <2> HIDE DEF T
    <2> QED
      BY <1>1, <2>1, Induction
  <1> QED
    BY <1>3

\* The sum moves with the one element that changes.
DiffersAt(s, t, m, i) ==
    /\ \A j \in 1..m : s[j] \in Nat /\ t[j] \in Nat
    /\ \A j \in 1..m : j # i => s[j] = t[j]

LEMMA TotalChanged ==
    ASSUME NEW s, NEW t, NEW m \in Nat, NEW i \in 1..m, DiffersAt(s, t, m, i)
    PROVE  Total(t, m) + s[i] = Total(s, m) + t[i]
  <1> DEFINE Good(n) == /\ Total(s, n) \in Nat /\ Total(t, n) \in Nat
                        /\ n < i => Total(t, n) = Total(s, n)
                        /\ n >= i => Total(t, n) + s[i] = Total(s, n) + t[i]
             T == {n \in Nat : n <= m => Good(n)}
  <1>0. s[i] \in Nat /\ t[i] \in Nat
    BY DEF DiffersAt
  <1>1. 0 \in T
    BY TotalNone
  <1>2. ASSUME NEW n \in Nat, n \in T, n + 1 <= m PROVE n + 1 \in T
    <2>1. Total(s, n + 1) = Total(s, n) + s[n + 1]
      BY TotalMore
    <2>2. Total(t, n + 1) = Total(t, n) + t[n + 1]
      BY TotalMore
    <2>3. Good(n)
      BY <1>2
    <2>4. n + 1 \in 1..m /\ s[n + 1] \in Nat /\ t[n + 1] \in Nat /\ (n + 1 # i => s[n + 1] = t[n + 1])
      BY <1>2 DEF DiffersAt
    <2>5. Total(s, n + 1) \in Nat /\ Total(t, n + 1) \in Nat
      BY <2>1, <2>2, <2>3, <2>4
    <2>6. CASE n + 1 < i
      BY <2>1, <2>2, <2>3, <2>4, <2>5, <2>6
    <2>7. CASE n + 1 = i
      BY <1>0, <2>1, <2>2, <2>3, <2>4, <2>5, <2>7
    <2>8. CASE n + 1 > i
      BY <1>0, <2>1, <2>2, <2>3, <2>4, <2>5, <2>8
    <2> QED
      BY <2>6, <2>7, <2>8
  <1>3. Nat \subseteq T
    <2>1. \A n \in Nat : n \in T => n + 1 \in T
      BY <1>2
    <2> HIDE DEF T
    <2> QED
      BY <1>1, <2>1, Induction
  <1>4. Good(m)
    BY <1>3
  <1> QED
    BY <1>4

\* Nothing everywhere, or one everywhere.
LEMMA TotalEven ==
    ASSUME NEW s, NEW m \in Nat, NEW a \in {0, 1}, \A i \in 1..m : s[i] = a
    PROVE  Total(s, m) = IF a = 1 THEN m ELSE 0
  <1> DEFINE T == {n \in Nat : n <= m => Total(s, n) = IF a = 1 THEN n ELSE 0}
  <1>1. 0 \in T
    BY TotalNone
  <1>2. ASSUME NEW n \in Nat, n \in T, n + 1 <= m PROVE n + 1 \in T
    <2>1. Total(s, n + 1) = Total(s, n) + s[n + 1]
      BY TotalMore
    <2>2. s[n + 1] = a /\ Total(s, n) = IF a = 1 THEN n ELSE 0
      BY <1>2
    <2> QED
      BY <2>1, <2>2
  <1>3. Nat \subseteq T
    <2>1. \A n \in Nat : n \in T => n + 1 \in T
      BY <1>2
    <2> HIDE DEF T
    <2> QED
      BY <1>1, <2>1, Induction
  <1> QED
    BY <1>3

-------------------------------------------------------------------------------
(* What items are worth.                                                   *)

LEMMA PowerMore ==
    ASSUME NEW r \in Nat
    PROVE  Power(0) = 1 /\ Power(r + 1) = Power(r) * Contract
  <1> DEFINE s(n) == [j \in 1..n |-> Contract]
  <1>1. ASSUME NEW n \in Nat PROVE Power(n) = Folded(4, 1, s(n), n)
    <2>1. s(n) \in Seq({Contract}) /\ Len(s(n)) = n
      OBVIOUS
    <2> HIDE DEF s
    <2>2. FoldLeft(Times, 1, s(n)) = Folded(4, 1, s(n), n)
      BY <2>1, ProductIs DEF Reduced
    <2> QED
      BY <2>2 DEF Power, s
  <1>2. Power(0) = 1
    BY <1>1, FoldZero
  <1>3. r + 1 \in Nat /\ s(r + 1)[r + 1] = Contract /\ \A i \in 1..r : s(r + 1)[i] = s(r)[i]
    OBVIOUS
  <1> HIDE DEF s
  <1>4. Folded(4, 1, s(r + 1), r + 1) = Step(4, Folded(4, 1, s(r + 1), r), Contract)
    BY <1>3, FoldStep
  <1>5. Folded(4, 1, s(r + 1), r) = Folded(4, 1, s(r), r)
    BY <1>3, FoldSame
  <1>6. Step(4, Power(r), Contract) = Power(r) * Contract
    BY DEF Step, Times
  <1> QED
    BY <1>1, <1>2, <1>3, <1>4, <1>5, <1>6

LEMMA PowerIs ==
    ASSUME NEW r \in Nat, NEW q \in Nat, r <= q
    PROVE  Power(q) \in Nat /\ Power(r) >= 1 /\ Power(r) <= Power(q)
  <1> DEFINE T == {n \in Nat : Power(n) \in Nat /\ Power(n) >= 1}
             U == {n \in Nat : r <= n => Power(r) <= Power(n)}
  <1>0. Contract \in Nat /\ Contract >= 1
    BY ItemToolsAssumption
  <1>1. ASSUME NEW p \in Nat, p >= 1
        PROVE  p * Contract \in Nat /\ p * Contract >= p
    <2>1. \A c \in Nat : c >= 1 => p * c \in Nat /\ p * c >= p
      <3>1. ASSUME NEW c \in Nat, c >= 1 PROVE p * c \in Nat /\ p * c >= p
        <4>1. c - 1 \in Nat /\ p * (c - 1) \in Nat
          BY <3>1
        <4>2. p * c = p * (c - 1) + p
          BY <3>1
        <4> QED
          BY <4>1, <4>2, <1>1
      <3> QED
        BY <3>1
    <2> QED
      BY <1>0, <2>1
  <1>2. 0 \in T
    BY PowerMore
  <1>3. ASSUME NEW n \in Nat, n \in T PROVE n + 1 \in T
    <2>1. Power(n + 1) = Power(n) * Contract
      BY PowerMore
    <2>2. Power(n) \in Nat /\ Power(n) >= 1
      BY <1>3
    <2>3. Power(n) * Contract \in Nat /\ Power(n) * Contract >= Power(n)
      BY <1>1, <2>2
    <2> HIDE DEF T
    <2>4. Power(n + 1) \in Nat /\ Power(n + 1) >= 1
      BY <2>1, <2>2, <2>3
    <2> QED
      BY <2>4 DEF T
  <1>4. Nat \subseteq T
    <2>1. \A n \in Nat : n \in T => n + 1 \in T
      BY <1>3
    <2> HIDE DEF T
    <2> QED
      BY <1>2, <2>1, Induction
  <1>5. 0 \in U
    BY <1>4
  <1>6. ASSUME NEW n \in Nat, n \in U PROVE n + 1 \in U
    <2>1. Power(n + 1) = Power(n) * Contract
      BY PowerMore
    <2>2. Power(n) \in Nat /\ Power(n) >= 1 /\ Power(r) \in Nat
      BY <1>4
    <2>3. Power(n) * Contract \in Nat /\ Power(n) * Contract >= Power(n)
      BY <1>1, <2>2
    <2>4. r <= n => Power(r) <= Power(n)
      BY <1>6
    <2>5. r <= n + 1 => r <= n \/ r = n + 1
      OBVIOUS
    <2> HIDE DEF U
    <2>6. r <= n + 1 => Power(r) <= Power(n + 1)
      BY <2>1, <2>2, <2>3, <2>4, <2>5
    <2> QED
      BY <2>6 DEF U
  <1>7. Nat \subseteq U
    <2>1. \A n \in Nat : n \in U => n + 1 \in U
      BY <1>6
    <2> HIDE DEF U
    <2> QED
      BY <1>5, <2>1, Induction
  <1> QED
    BY <1>4, <1>7

LEMMA ItemIs ==
    ASSUME NEW item \in Item
    PROVE  /\ item.def \in Defs /\ item.rarity \in 0..MaxRarity /\ item.kills \in Nat \cup {none}
           /\ item.named \in BOOLEAN /\ item.clone \in BOOLEAN
           /\ item.stickers \in [Slots -> Seq(0..MaxWear \cup {none})]
           /\ \A s \in Slots : Len(item.stickers[s]) \in Nat
  BY DEF Item

LEMMA SlotIs ==
    /\ MaxStickers \in Nat
    /\ \A n \in 1..MaxStickers : n - 1 \in Slots
    /\ \A s \in Slots : s \in Int /\ s + 1 \in 1..MaxStickers /\ (s + 1) - 1 = s
    /\ \A n \in 1..MaxStickers : \A s \in Slots : n # s + 1 => n - 1 # s
  BY ItemToolsAssumption DEF Slots

Lengths(item) == [n \in 1..MaxStickers |-> Len(item.stickers[n - 1])]

LEMMA AppliedIs ==
    ASSUME NEW item \in Item
    PROVE  /\ \A n \in 1..MaxStickers : Lengths(item)[n] \in Nat
           /\ Applied(item) = Total(Lengths(item), MaxStickers) /\ Applied(item) \in Nat
  <1>1. \A n \in 1..MaxStickers : Lengths(item)[n] \in Nat
    BY ItemIs, SlotIs DEF Lengths
  <1>2. Lengths(item) \in Seq(Nat) /\ Len(Lengths(item)) = MaxStickers
    <2>1. \A n \in 1..MaxStickers : Len(item.stickers[n - 1]) \in Nat
      BY ItemIs, SlotIs
    <2> QED
      BY <2>1, SlotIs DEF Lengths
  <1>3. Sum(Lengths(item)) = Total(Lengths(item), MaxStickers)
    BY <1>2, SumOf
  <1>4. Total(Lengths(item), MaxStickers) \in Nat
    BY <1>1, SlotIs, TotalIsNat
  <1> QED
    BY <1>1, <1>3, <1>4 DEF Applied, Lengths

LEMMA AppliedChanged ==
    ASSUME NEW item \in Item, NEW other \in Item, NEW slot \in Slots,
           \A s \in Slots : s # slot => other.stickers[s] = item.stickers[s]
    PROVE  Applied(other) + Len(item.stickers[slot]) = Applied(item) + Len(other.stickers[slot])
  <1> DEFINE s == Lengths(item)
             t == Lengths(other)
             i == slot + 1
  <1>1. i \in 1..MaxStickers /\ s[i] = Len(item.stickers[slot]) /\ t[i] = Len(other.stickers[slot])
    BY SlotIs DEF Lengths
  <1>2. \A j \in 1..MaxStickers : s[j] \in Nat /\ t[j] \in Nat
    BY AppliedIs
  <1>3. ASSUME NEW j \in 1..MaxStickers, j # i PROVE s[j] = t[j]
    <2>1. j - 1 \in Slots /\ j - 1 # slot
      BY <1>3, SlotIs
    <2> QED
      BY <2>1 DEF Lengths
  <1>4. Applied(item) = Total(s, MaxStickers) /\ Applied(other) = Total(t, MaxStickers)
    BY AppliedIs
  <1> HIDE DEF s, t, i
  <1>5. DiffersAt(s, t, MaxStickers, i)
    BY <1>2, <1>3 DEF DiffersAt
  <1>6. Total(t, MaxStickers) + s[i] = Total(s, MaxStickers) + t[i]
    BY <1>1, <1>5, SlotIs, TotalChanged
  <1> QED
    BY <1>1, <1>4, <1>6

LEMMA AppliedEven ==
    ASSUME NEW item \in Item, NEW a \in {0, 1}, \A s \in Slots : Len(item.stickers[s]) = a
    PROVE  Applied(item) = IF a = 1 THEN MaxStickers ELSE 0
  <1>1. \A n \in 1..MaxStickers : Lengths(item)[n] = a
    BY SlotIs DEF Lengths
  <1>2. Total(Lengths(item), MaxStickers) = IF a = 1 THEN MaxStickers ELSE 0
    BY <1>1, SlotIs, TotalEven
  <1> QED
    BY <1>2, AppliedIs

LEMMA RarityIs ==
    /\ MaxRarity \in Nat
    /\ \A r \in 0..MaxRarity :
         r \in Nat /\ Power(r) \in Nat /\ Power(r) >= 1 /\ Power(r) <= Power(MaxRarity)
  <1>1. MaxRarity \in Nat
    BY ItemToolsAssumption
  <1>2. ASSUME NEW r \in 0..MaxRarity
        PROVE  r \in Nat /\ Power(r) \in Nat /\ Power(r) >= 1 /\ Power(r) <= Power(MaxRarity)
    <2>1. r \in Nat /\ r <= MaxRarity /\ r <= r
      BY <1>1
    <2> QED
      BY <1>1, <2>1, PowerIs
  <1> QED
    BY <1>1, <1>2

LEMMA ContentsAre ==
    Contents("mega") = <<Plain("tag"), Plain("sticker")>>
    /\ Contents("swapbundle") = <<Plain("swaptool"), Plain("swaptool")>>
  BY DEF Contents

LEMMA BaseIs ==
    ASSUME NEW item \in Item
    PROVE  /\ Base(item) \in Nat
           /\ item.def \in Stickers \cup {"tag", "swaptool", "other"} => Base(item) = 1
           /\ item.def \in BaseItems /\ item.clone => Base(item) = 0
           /\ item.def = "weapon" /\ ~item.clone => Base(item) = Power(item.rarity)
           /\ item.def = "crate" => Base(item) = Power(MaxRarity)
           /\ item.def = "souvenir" => Base(item) = Power(MaxRarity) + MaxStickers
           /\ item.def \in {"mega", "swapbundle"} => Base(item) = 2
  <1>1. Power(item.rarity) \in Nat /\ Power(MaxRarity) \in Nat /\ MaxStickers \in Nat
    BY ItemIs, RarityIs, SlotIs
  <1>2. Len(Contents("mega")) = 2 /\ Len(Contents("swapbundle")) = 2
    BY ContentsAre
  <1>3. item.def \in Defs
    BY ItemIs
  <1>4. CASE item.def \in {"mega", "swapbundle"}
    <2>1. Base(item) = 2
      BY <1>2, <1>4 DEF Base
    <2> QED
      BY <1>4, <2>1 DEF Stickers, BaseItems
  <1>5. CASE item.def \notin {"mega", "swapbundle"}
    BY <1>1, <1>3, <1>5 DEF Base, Defs, Stickers, BaseItems
  <1> QED
    BY <1>4, <1>5

LEMMA WorthIs ==
    ASSUME NEW item \in Item
    PROVE  /\ Worth(item) \in Nat /\ Kills(item) \in Nat /\ Worth(item) >= Base(item)
           /\ Worth(item) = Base(item) + (IF item.named THEN 1 ELSE 0) + Applied(item)
  BY ItemIs, BaseIs, AppliedIs DEF Worth, Kills

LEMMA PlainIs ==
    ASSUME NEW def \in Defs
    PROVE  /\ Plain(def) \in Item /\ Plain(def).def = def /\ ~Plain(def).clone
           /\ Plain(def).kills = none /\ ~Plain(def).named
           /\ \A s \in Slots : Plain(def).stickers[s] = <<>>
           /\ Worth(Plain(def)) = Base(Plain(def)) /\ Kills(Plain(def)) = 0
  <1> DEFINE p == Plain(def)
  <1>1. PICK e : e = <<>>
    OBVIOUS
  <1>2. e \in Seq(0..MaxWear \cup {none}) /\ Len(e) = 0
    BY <1>1
  <1>3. p = [def |-> def, rarity |-> 0, kills |-> none, named |-> FALSE, clone |-> FALSE,
             stickers |-> [s \in Slots |-> e]]
    BY <1>1 DEF Plain
  <1>4. 0 \in 0..MaxRarity
    BY RarityIs
  <1> HIDE DEF p
  <1>5. p \in Item
    BY <1>2, <1>3, <1>4 DEF Item
  <1>6. p.def = def /\ ~p.clone /\ p.kills = none /\ ~p.named /\ \A s \in Slots : p.stickers[s] = e
    BY <1>3
  <1>7. Applied(p) = 0
    <2>1. \A s \in Slots : Len(p.stickers[s]) = 0
      BY <1>2, <1>6
    <2> QED
      BY <1>5, <2>1, AppliedEven
  <1>8. Worth(p) = Base(p) /\ Kills(p) = 0
    BY <1>5, <1>6, <1>7, WorthIs, BaseIs DEF Kills
  <1> QED
    BY <1>1, <1>5, <1>6, <1>8 DEF p

\* A clone as it is made, an item with a name or without, and with a sticker more.
LEMMA CloneIs ==
    ASSUME NEW def \in BaseItems
    PROVE  /\ Clone(def) \in Item /\ Clone(def).def = def /\ Clone(def).clone
           /\ Clone(def).kills = none /\ ~Clone(def).named
           /\ \A s \in Slots : Clone(def).stickers[s] = <<>>
           /\ Worth(Clone(def)) = 0 /\ Kills(Clone(def)) = 0
  <1> DEFINE p == Plain(def)
             c == Clone(def)
  <1>1. def \in Defs
    BY DEF BaseItems, Defs
  <1>2. p \in Item /\ p.def = def /\ p.kills = none /\ ~p.named /\ \A s \in Slots : p.stickers[s] = <<>>
    BY <1>1, PlainIs
  <1>3. c = [p EXCEPT !.clone = TRUE]
    BY DEF Clone
  <1> HIDE DEF p, c
  <1>4. /\ c \in Item /\ c.def = def /\ c.clone /\ c.kills = none /\ ~c.named
        /\ \A s \in Slots : c.stickers[s] = <<>>
    BY <1>2, <1>3 DEF Item
  <1>5. Applied(c) = 0
    <2>1. \A s \in Slots : Len(c.stickers[s]) = 0
      <3>1. PICK e : e = <<>>
        OBVIOUS
      <3>2. Len(e) = 0
        BY <3>1
      <3> QED
        BY <1>4, <3>1, <3>2
    <2> QED
      BY <1>4, <2>1, AppliedEven
  <1>6. Worth(c) = 0 /\ Kills(c) = 0
    BY <1>4, <1>5, WorthIs, BaseIs DEF Kills
  <1> QED
    BY <1>4, <1>6 DEF c

LEMMA WeaponIs ==
    ASSUME NEW r \in 0..MaxRarity, NEW k \in {none, 0}
    PROVE  /\ Weapon(r, k) \in Item /\ Weapon(r, k).def = "weapon" /\ ~Weapon(r, k).clone
           /\ Worth(Weapon(r, k)) = Power(r) /\ Kills(Weapon(r, k)) = 0
  <1> DEFINE p == Plain("weapon")
             w == Weapon(r, k)
  <1>1. "weapon" \in Defs
    BY DEF Defs
  <1>2. p \in Item /\ p.def = "weapon" /\ ~p.named /\ ~p.clone /\ \A s \in Slots : p.stickers[s] = <<>>
    BY <1>1, PlainIs
  <1>3. w = [p EXCEPT !.rarity = r, !.kills = k]
    BY DEF Weapon
  <1> HIDE DEF p, w
  <1>4. /\ w \in Item /\ w.def = "weapon" /\ ~w.clone /\ w.kills = k /\ ~w.named /\ w.rarity = r
        /\ \A s \in Slots : w.stickers[s] = <<>>
    <2>1. r \in 0..MaxRarity /\ k \in Nat \cup {none}
      OBVIOUS
    <2>2. w \in Item
      BY <1>2, <1>3, <2>1 DEF Item
    <2>3. w.stickers = p.stickers /\ w.def = p.def /\ w.clone = p.clone /\ w.named = p.named
      BY <1>2, <1>3 DEF Item
    <2>4. w.kills = k /\ w.rarity = r
      BY <1>2, <1>3 DEF Item
    <2> QED
      BY <1>2, <2>2, <2>3, <2>4
  <1>5. Applied(w) = 0
    <2>1. \A s \in Slots : Len(w.stickers[s]) = 0
      <3>1. PICK e : e = <<>>
        OBVIOUS
      <3>2. Len(e) = 0
        BY <3>1
      <3> QED
        BY <1>4, <3>1, <3>2
    <2> QED
      BY <1>4, <2>1, AppliedEven
  <1>6. Worth(w) = Power(r) /\ Kills(w) = 0
    BY <1>4, <1>5, WorthIs, BaseIs, RarityIs DEF Kills
  <1> QED
    BY <1>4, <1>6 DEF w

\* What comes out of a crate or a souvenir package is worth no more than it.
LEMMA LootIs ==
    ASSUME NEW def \in {"crate", "souvenir"}, NEW item \in Loot(def)
    PROVE  /\ item \in Item /\ ~item.clone /\ Kills(item) = 0
           /\ Worth(item) <= Power(MaxRarity) + (IF def = "souvenir" THEN MaxStickers ELSE 0)
  <1>1. CASE def = "crate"
    <2>1. PICK r \in 0..MaxRarity, k \in {none, 0} : item = Weapon(r, k)
      BY <1>1 DEF Loot
    <2>2. Weapon(r, k) \in Item /\ ~Weapon(r, k).clone
          /\ Worth(Weapon(r, k)) = Power(r) /\ Kills(Weapon(r, k)) = 0
      BY WeaponIs
    <2> QED
      BY <1>1, <2>1, <2>2, RarityIs
  <1>2. CASE def = "souvenir"
    <2>1. PICK r \in 0..MaxRarity : item = [Weapon(r, none) EXCEPT !.stickers = [s \in Slots |-> <<0>>]]
      BY <1>2 DEF Loot
    <2>2. PICK w : w = Weapon(r, none)
      OBVIOUS
    <2>3. w \in Item /\ w.def = "weapon" /\ ~w.clone /\ w.named = FALSE /\ w.kills = none /\ w.rarity = r
      <3>1. Weapon(r, none) \in Item /\ Weapon(r, none).def = "weapon" /\ ~Weapon(r, none).clone
        BY WeaponIs
      <3>2. Plain("weapon").named = FALSE
        BY DEF Plain
      <3>3. Plain("weapon") \in Item
        BY PlainIs DEF Defs
      <3>4. w.named = FALSE /\ w.kills = none /\ w.rarity = r
        BY <2>2, <3>2, <3>3 DEF Weapon, Item
      <3> QED
        BY <2>2, <3>1, <3>4
    <2>4. PICK one : one = <<0>>
      OBVIOUS
    <2>5. one \in Seq(0..MaxWear \cup {none}) /\ Len(one) = 1
      <3>1. 0 \in 0..MaxWear
        BY ItemToolsAssumption
      <3> QED
        BY <2>4, <3>1
    <2>6. item = [w EXCEPT !.stickers = [s \in Slots |-> one]]
      BY <2>1, <2>2, <2>4
    <2>7. /\ item \in Item /\ item.def = "weapon" /\ ~item.clone /\ ~item.named /\ item.kills = none
          /\ item.rarity = r /\ \A s \in Slots : item.stickers[s] = one
      BY <2>3, <2>5, <2>6 DEF Item
    <2>8. Applied(item) = MaxStickers
      <3>1. \A s \in Slots : Len(item.stickers[s]) = 1
        BY <2>5, <2>7
      <3> QED
        BY <2>7, <3>1, AppliedEven
    <2>9. Worth(item) = Power(r) + MaxStickers /\ Kills(item) = 0
      BY <2>7, <2>8, WorthIs, BaseIs, RarityIs, SlotIs DEF Kills
    <2> QED
      BY <1>2, <2>7, <2>9, RarityIs, SlotIs
  <1> QED
    BY <1>1, <1>2

LEMMA ApplyToSlotIs ==
    ASSUME NEW item \in Item, NEW slot \in Slots, NEW tool
    PROVE  LET other == ApplyToSlot(item, slot, tool) IN
             /\ other \in Item /\ other.def = item.def /\ other.clone = item.clone
             /\ ~IsUncustomizedBaseItemClone(other)
             /\ Worth(other) = Worth(item) + 1 /\ Kills(other) = Kills(item)
  <1> DEFINE other == ApplyToSlot(item, slot, tool)
             e == IF tool = "patch" THEN none ELSE 0
             now == Append(item.stickers[slot], e)
  <1>1. item.stickers[slot] \in Seq(0..MaxWear \cup {none}) /\ e \in 0..MaxWear \cup {none}
    BY ItemIs, ItemToolsAssumption
  <1>2. now \in Seq(0..MaxWear \cup {none}) /\ Len(now) = Len(item.stickers[slot]) + 1 /\ now # <<>>
    BY <1>1
  <1>3. other = [item EXCEPT !.stickers = [item.stickers EXCEPT ![slot] = now]]
    BY DEF ApplyToSlot
  <1>4. item.stickers \in [Slots -> Seq(0..MaxWear \cup {none})]
    BY ItemIs
  <1> HIDE DEF other, now
  <1>5. /\ other \in Item /\ other.def = item.def /\ other.clone = item.clone
        /\ other.named = item.named /\ other.kills = item.kills /\ other.rarity = item.rarity
        /\ other.stickers = [item.stickers EXCEPT ![slot] = now]
    BY <1>2, <1>3, <1>4 DEF Item
  <1>6. other.stickers[slot] = now /\ \A s \in Slots : s # slot => other.stickers[s] = item.stickers[s]
    BY <1>4, <1>5
  <1>7. Applied(other) = Applied(item) + 1
    <2>1. Applied(other) + Len(item.stickers[slot]) = Applied(item) + Len(other.stickers[slot])
      BY <1>5, <1>6, AppliedChanged
    <2>2. Applied(other) \in Nat /\ Applied(item) \in Nat /\ Len(item.stickers[slot]) \in Nat
      BY <1>1, <1>5, AppliedIs
    <2> QED
      BY <1>2, <1>6, <2>1, <2>2
  <1>8. Base(other) = Base(item)
    BY <1>5 DEF Base
  <1>9. Worth(other) = Worth(item) + 1 /\ Kills(other) = Kills(item)
    BY <1>5, <1>7, <1>8, WorthIs, BaseIs, AppliedIs DEF Kills
  <1>10. ~IsUncustomizedBaseItemClone(other)
    BY <1>2, <1>6 DEF IsUncustomizedBaseItemClone
  <1> QED
    BY <1>5, <1>9, <1>10 DEF other

\* An item of which all of a slot is taken off, or that gets or loses its name.
LEMMA CleanIs ==
    ASSUME NEW item \in Item, NEW slot \in Slots
    PROVE  LET clean == [item EXCEPT !.stickers[slot] = <<>>] IN
             /\ clean \in Item /\ clean.def = item.def /\ clean.clone = item.clone
             /\ Worth(clean) <= Worth(item) /\ Kills(clean) = Kills(item)
  <1>1. PICK e : e = <<>>
    OBVIOUS
  <1>2. e \in Seq(0..MaxWear \cup {none}) /\ Len(e) = 0
    BY <1>1
  <1> DEFINE other == [item EXCEPT !.stickers[slot] = e]
  <1>3. other = [item EXCEPT !.stickers = [item.stickers EXCEPT ![slot] = e]]
    OBVIOUS
  <1>4. item.stickers \in [Slots -> Seq(0..MaxWear \cup {none})]
    BY ItemIs
  <1> HIDE DEF other
  <1>5. /\ other \in Item /\ other.def = item.def /\ other.clone = item.clone
        /\ other.named = item.named /\ other.kills = item.kills /\ other.rarity = item.rarity
        /\ other.stickers = [item.stickers EXCEPT ![slot] = e]
    BY <1>2, <1>3, <1>4 DEF Item
  <1>6. other.stickers[slot] = e /\ \A s \in Slots : s # slot => other.stickers[s] = item.stickers[s]
    BY <1>4, <1>5
  <1>7. Applied(other) <= Applied(item)
    <2>1. Applied(other) + Len(item.stickers[slot]) = Applied(item) + Len(other.stickers[slot])
      BY <1>5, <1>6, AppliedChanged
    <2>2. Applied(other) \in Nat /\ Applied(item) \in Nat /\ Len(item.stickers[slot]) \in Nat
      BY <1>5, AppliedIs, ItemIs
    <2> QED
      BY <1>2, <1>6, <2>1, <2>2
  <1>8. Base(other) = Base(item)
    BY <1>5 DEF Base
  <1>9. Worth(other) <= Worth(item) /\ Kills(other) = Kills(item)
    BY <1>5, <1>7, <1>8, WorthIs, BaseIs, AppliedIs DEF Kills
  <1> QED
    BY <1>1, <1>5, <1>9 DEF other

LEMMA WornIs ==
    ASSUME NEW item \in Item, NEW slot \in Slots, Wear(item, slot) # none, Wear(item, slot) < MaxWear
    PROVE  LET worn == [item EXCEPT !.stickers[slot][1] = @ + 1] IN
             /\ worn \in Item /\ worn.def = item.def /\ worn.clone = item.clone
             /\ Worth(worn) = Worth(item) /\ Kills(worn) = Kills(item)
             /\ ~IsUncustomizedBaseItemClone(worn)
  <1> DEFINE was == item.stickers[slot]
             now == [was EXCEPT ![1] = was[1] + 1]
             other == [item EXCEPT !.stickers[slot][1] = @ + 1]
  <1>1. was \in Seq(0..MaxWear \cup {none}) /\ item.stickers \in [Slots -> Seq(0..MaxWear \cup {none})]
    BY ItemIs
  <1>2. was # <<>> /\ was[1] # none /\ was[1] < MaxWear
    BY DEF Wear
  <1>3. Len(was) \in Nat /\ 1 \in 1..Len(was) /\ was[1] \in 0..MaxWear
    BY <1>1, <1>2
  <1>4. was[1] + 1 \in 0..MaxWear
    BY <1>2, <1>3, ItemToolsAssumption
  <1>5. other = [item EXCEPT !.stickers = [item.stickers EXCEPT ![slot] = now]]
    OBVIOUS
  <1>6. now \in Seq(0..MaxWear \cup {none}) /\ Len(now) = Len(was) /\ now # <<>>
    BY <1>1, <1>3, <1>4
  <1> HIDE DEF other, now, was
  <1>7. /\ other \in Item /\ other.def = item.def /\ other.clone = item.clone
        /\ other.named = item.named /\ other.kills = item.kills /\ other.rarity = item.rarity
        /\ other.stickers = [item.stickers EXCEPT ![slot] = now]
    BY <1>1, <1>5, <1>6 DEF Item
  <1>8. other.stickers[slot] = now /\ \A s \in Slots : s # slot => other.stickers[s] = item.stickers[s]
    BY <1>1, <1>7
  <1>9. Applied(other) = Applied(item)
    <2>1. Applied(other) + Len(item.stickers[slot]) = Applied(item) + Len(other.stickers[slot])
      BY <1>7, <1>8, AppliedChanged
    <2>2. Applied(other) \in Nat /\ Applied(item) \in Nat /\ Len(was) \in Nat
      BY <1>3, <1>7, AppliedIs
    <2> QED
      BY <1>6, <1>8, <2>1, <2>2 DEF was
  <1>10. Base(other) = Base(item)
    BY <1>7 DEF Base
  <1>11. Worth(other) = Worth(item) /\ Kills(other) = Kills(item)
    BY <1>7, <1>9, <1>10, WorthIs DEF Kills
  <1>12. ~IsUncustomizedBaseItemClone(other)
    BY <1>6, <1>8 DEF IsUncustomizedBaseItemClone
  <1> QED
    BY <1>7, <1>11, <1>12 DEF other

LEMMA NamedIs ==
    ASSUME NEW item \in Item, NEW named \in BOOLEAN
    PROVE  LET other == [item EXCEPT !.named = named] IN
             /\ other \in Item /\ other.def = item.def /\ other.clone = item.clone /\ other.named = named
             /\ Worth(other) <= Worth(item) + 1 /\ Kills(other) = Kills(item)
             /\ ~named => Worth(other) <= Worth(item)
             /\ named => ~IsUncustomizedBaseItemClone(other)
  <1> DEFINE other == [item EXCEPT !.named = named]
  <1>1. /\ other \in Item /\ other.def = item.def /\ other.clone = item.clone /\ other.named = named
        /\ other.stickers = item.stickers /\ other.kills = item.kills /\ other.rarity = item.rarity
    BY DEF Item
  <1> HIDE DEF other
  <1>2. Applied(other) = Applied(item) /\ Base(other) = Base(item)
    BY <1>1 DEF Applied, Base
  <1>3. /\ Worth(other) <= Worth(item) + 1 /\ Kills(other) = Kills(item)
        /\ ~named => Worth(other) <= Worth(item)
    BY <1>1, <1>2, WorthIs, BaseIs, AppliedIs DEF Kills
  <1>4. named => ~IsUncustomizedBaseItemClone(other)
    BY <1>1 DEF IsUncustomizedBaseItemClone
  <1> QED
    BY <1>1, <1>3, <1>4 DEF other

-------------------------------------------------------------------------------
(* What an inventory is worth (k = 1), and the kills its counters show     *)
(* (k = 2).                                                                *)

Inventories == UNION {[D -> Item] : D \in SUBSET (1..MaxId)}

Value(k, item) == IF k = 1 THEN Worth(item) ELSE Kills(item)
ValueOf(k, its) == IF k = 1 THEN WorthOf(its) ELSE KillsOf(its)
Entry(k, its, i) == IF i \in DOMAIN its THEN Value(k, its[i]) ELSE 0
Entries(k, its) == [i \in 1..MaxId |-> Entry(k, its, i)]

LEMMA InventoriesAre ==
    ASSUME NEW its
    PROVE  its \in Inventories <=> DOMAIN its \subseteq 1..MaxId /\ its \in [DOMAIN its -> Item]
  BY DEF Inventories

LEMMA ItemsAre ==
    ASSUME NEW its
    PROVE  its \in Items <=> DOMAIN its \subseteq Nat /\ its \in [DOMAIN its -> Item]
  BY DEF Items

LEMMA WithoutIs ==
    ASSUME NEW its, NEW ids
    PROVE  /\ DOMAIN Without(its, ids) = DOMAIN its \ ids
           /\ \A j \in DOMAIN its \ ids : Without(its, ids)[j] = its[j]
  BY DEF Without

LEMMA WithItems ==
    ASSUME NEW its, NEW i, NEW x \in Item
    PROVE  /\ its \in Items /\ i \in Nat => With(its, One(i, x)) \in Items
           /\ its \in Inventories /\ i \in 1..MaxId => With(its, One(i, x)) \in Inventories
  <1> DEFINE f == With(its, One(i, x))
  <1>1. f = [j \in DOMAIN f |-> f[j]]
    BY DEF With
  <1>2. /\ DOMAIN f = DOMAIN its \cup {i} /\ f[i] = x
        /\ \A j \in DOMAIN its : j # i => f[j] = its[j]
    BY DEF With, One
  <1> HIDE DEF f
  <1>3. ASSUME \A j \in DOMAIN its : its[j] \in Item
        PROVE  f \in [DOMAIN f -> Item]
    <2>1. \A j \in DOMAIN f : f[j] \in Item
      BY <1>2, <1>3
    <2> QED
      BY <1>1, <2>1
  <1>4. ASSUME its \in Items, i \in Nat PROVE f \in Items
    BY <1>2, <1>3, <1>4, ItemsAre
  <1>5. ASSUME its \in Inventories, i \in 1..MaxId PROVE f \in Inventories
    BY <1>2, <1>3, <1>5, InventoriesAre
  <1> QED
    BY <1>4, <1>5 DEF f

LEMMA WithoutItems ==
    ASSUME NEW its, NEW ids
    PROVE  /\ its \in Items => Without(its, ids) \in Items
           /\ its \in Inventories => Without(its, ids) \in Inventories
  <1> DEFINE f == Without(its, ids)
  <1>1. f = [j \in DOMAIN f |-> f[j]]
    BY DEF Without
  <1>2. DOMAIN f = DOMAIN its \ ids /\ \A j \in DOMAIN its \ ids : f[j] = its[j]
    BY WithoutIs
  <1> HIDE DEF f
  <1>3. ASSUME \A j \in DOMAIN its : its[j] \in Item
        PROVE  f \in [DOMAIN f -> Item]
    <2>1. \A j \in DOMAIN f : f[j] \in Item
      BY <1>2, <1>3
    <2> QED
      BY <1>1, <2>1
  <1>4. ASSUME its \in Items PROVE f \in Items
    BY <1>2, <1>3, <1>4, ItemsAre
  <1>5. ASSUME its \in Inventories PROVE f \in Inventories
    BY <1>2, <1>3, <1>5, InventoriesAre
  <1> QED
    BY <1>4, <1>5 DEF f

\* EXCEPT, for an item that is there.
LEMMA ExceptIs ==
    ASSUME NEW its, its = [j \in DOMAIN its |-> its[j]], NEW i \in DOMAIN its, NEW x
    PROVE  [its EXCEPT ![i] = x] = With(its, One(i, x))
  <1> DEFINE f == [its EXCEPT ![i] = x]
             g == With(its, One(i, x))
  <1>1. f = [j \in DOMAIN its |-> IF j = i THEN x ELSE its[j]]
    OBVIOUS
  <1>2. g = [j \in DOMAIN g |-> g[j]]
    BY DEF With
  <1>3. DOMAIN g = DOMAIN its /\ g[i] = x /\ \A j \in DOMAIN its : j # i => g[j] = its[j]
    BY DEF With, One
  <1> HIDE DEF f, g
  <1>4. \A j \in DOMAIN its : (IF j = i THEN x ELSE its[j]) = g[j]
    BY <1>3
  <1>5. f = g
    BY <1>1, <1>2, <1>3, <1>4
  <1> QED
    BY <1>5 DEF f, g

LEMMA WithoutNone ==
    ASSUME NEW its, its = [j \in DOMAIN its |-> its[j]]
    PROVE  Without(its, {}) = its
  <1>1. DOMAIN its \ {} = DOMAIN its
    OBVIOUS
  <1> QED
    BY <1>1 DEF Without

LEMMA WithoutTwice ==
    ASSUME NEW its, NEW S, NEW T
    PROVE  Without(Without(its, S), T) = Without(its, S \cup T)
  <1> DEFINE f == Without(its, S)
             g == Without(its, S \cup T)
  <1>1. DOMAIN f = DOMAIN its \ S /\ \A j \in DOMAIN its \ S : f[j] = its[j]
    BY WithoutIs
  <1>2. Without(f, T) = [j \in DOMAIN f \ T |-> f[j]]
    BY DEF Without
  <1>3. g = [j \in DOMAIN its \ (S \cup T) |-> its[j]]
    BY DEF Without
  <1> HIDE DEF f, g
  <1>4. DOMAIN f \ T = DOMAIN its \ (S \cup T) /\ \A j \in DOMAIN its \ (S \cup T) : f[j] = its[j]
    BY <1>1
  <1>5. Without(f, T) = g
    BY <1>2, <1>3, <1>4
  <1> QED
    BY <1>5 DEF f, g

LEMMA WithWithout ==
    ASSUME NEW its, NEW i, NEW x, NEW T, i \notin T
    PROVE  Without(With(its, One(i, x)), T) = With(Without(its, T), One(i, x))
  <1> DEFINE a == With(its, One(i, x))
             b == Without(its, T)
             f == Without(a, T)
             g == With(b, One(i, x))
  <1>1. DOMAIN a = DOMAIN its \cup {i} /\ a[i] = x /\ \A j \in DOMAIN its : j # i => a[j] = its[j]
    BY DEF With, One
  <1>2. DOMAIN b = DOMAIN its \ T /\ \A j \in DOMAIN its \ T : b[j] = its[j]
    BY WithoutIs
  <1> HIDE DEF a, b
  <1>3. DOMAIN f = DOMAIN a \ T /\ \A j \in DOMAIN a \ T : f[j] = a[j]
    BY WithoutIs
  <1>4. DOMAIN g = DOMAIN b \cup {i} /\ g[i] = x /\ \A j \in DOMAIN b : j # i => g[j] = b[j]
    BY DEF With, One
  <1>5. f = [j \in DOMAIN f |-> f[j]] /\ g = [j \in DOMAIN g |-> g[j]]
    BY DEF With, Without
  <1> HIDE DEF f, g
  <1>6. DOMAIN f = DOMAIN g /\ \A j \in DOMAIN f : f[j] = g[j]
    BY <1>1, <1>2, <1>3, <1>4
  <1>7. f = g
    BY <1>5, <1>6
  <1> QED
    BY <1>7 DEF f, g, a, b

LEMMA EntryIs ==
    ASSUME NEW k \in {1, 2}, NEW its \in Inventories
    PROVE  /\ \A i : Entry(k, its, i) \in Nat
           /\ ValueOf(k, its) = Total(Entries(k, its), MaxId) /\ ValueOf(k, its) \in Nat
  <1>1. ASSUME NEW i PROVE Entry(k, its, i) \in Nat
    <2>1. CASE i \in DOMAIN its
      <3>1. its[i] \in Item
        BY <2>1, InventoriesAre
      <3> QED
        BY <2>1, <3>1, WorthIs DEF Entry, Value
    <2>2. CASE i \notin DOMAIN its
      BY <2>2 DEF Entry
    <2> QED
      BY <2>1, <2>2
  <1>2. MaxId \in Nat
    BY ItemToolsAssumption
  <1>3. Entries(k, its) \in Seq(Nat) /\ Len(Entries(k, its)) = MaxId
    BY <1>1, <1>2 DEF Entries
  <1>4. Sum(Entries(k, its)) = Total(Entries(k, its), MaxId)
    BY <1>3, SumOf
  <1>5. ValueOf(k, its) = Sum(Entries(k, its))
    <2>1. CASE k = 1
      BY <2>1 DEF ValueOf, Entries, Entry, Value, WorthOf
    <2>2. CASE k = 2
      BY <2>2 DEF ValueOf, Entries, Entry, Value, KillsOf
    <2> QED
      BY <2>1, <2>2
  <1>6. Total(Entries(k, its), MaxId) \in Nat
    <2>1. \A i \in 1..MaxId : Entries(k, its)[i] \in Nat
      BY <1>1 DEF Entries
    <2> QED
      BY <1>2, <2>1, TotalIsNat
  <1> QED
    BY <1>1, <1>4, <1>5, <1>6

LEMMA ValueChanged ==
    ASSUME NEW k \in {1, 2}, NEW its \in Inventories, NEW new \in Inventories, NEW i \in 1..MaxId,
           \A j : j # i => /\ j \in DOMAIN its <=> j \in DOMAIN new
                           /\ j \in DOMAIN its => new[j] = its[j]
    PROVE  ValueOf(k, new) + Entry(k, its, i) = ValueOf(k, its) + Entry(k, new, i)
  <1> DEFINE s == Entries(k, its)
             t == Entries(k, new)
  <1>1. \A j \in 1..MaxId : s[j] = Entry(k, its, j) /\ t[j] = Entry(k, new, j)
    BY DEF Entries
  <1>2. \A j \in 1..MaxId : s[j] \in Nat /\ t[j] \in Nat
    BY <1>1, EntryIs
  <1>3. ASSUME NEW j \in 1..MaxId, j # i PROVE s[j] = t[j]
    BY <1>1, <1>3 DEF Entry
  <1>4. ValueOf(k, its) = Total(s, MaxId) /\ ValueOf(k, new) = Total(t, MaxId) /\ MaxId \in Nat
    BY EntryIs, ItemToolsAssumption
  <1> HIDE DEF s, t
  <1>5. DiffersAt(s, t, MaxId, i)
    BY <1>2, <1>3 DEF DiffersAt
  <1>6. Total(t, MaxId) + s[i] = Total(s, MaxId) + t[i]
    BY <1>4, <1>5, TotalChanged
  <1> QED
    BY <1>1, <1>4, <1>6

LEMMA ValueWith ==
    ASSUME NEW k \in {1, 2}, NEW its \in Inventories, NEW i \in 1..MaxId, NEW x \in Item
    PROVE  /\ With(its, One(i, x)) \in Inventories
           /\ ValueOf(k, With(its, One(i, x))) + Entry(k, its, i) = ValueOf(k, its) + Value(k, x)
           /\ Value(k, x) \in Nat
  <1> DEFINE f == With(its, One(i, x))
  <1>1. f \in Inventories
    BY WithItems
  <1>2. DOMAIN f = DOMAIN its \cup {i} /\ f[i] = x /\ \A j \in DOMAIN its : j # i => f[j] = its[j]
    BY DEF With, One
  <1> HIDE DEF f
  <1>3. Entry(k, f, i) = Value(k, x)
    BY <1>2 DEF Entry
  <1>4. ValueOf(k, f) + Entry(k, its, i) = ValueOf(k, its) + Entry(k, f, i)
    <2>1. \A j : j # i => /\ j \in DOMAIN its <=> j \in DOMAIN f
                          /\ j \in DOMAIN its => f[j] = its[j]
      BY <1>2
    <2> QED
      BY <1>1, <2>1, ValueChanged
  <1>5. Value(k, x) \in Nat
    BY WorthIs DEF Value
  <1> QED
    BY <1>1, <1>3, <1>4, <1>5 DEF f

LEMMA ValueWithout ==
    ASSUME NEW k \in {1, 2}, NEW its \in Inventories, NEW i
    PROVE  /\ Without(its, {i}) \in Inventories
           /\ ValueOf(k, Without(its, {i})) + Entry(k, its, i) = ValueOf(k, its)
  <1> DEFINE f == Without(its, {i})
  <1>1. f \in Inventories
    BY WithoutItems
  <1>2. DOMAIN f = DOMAIN its \ {i} /\ \A j \in DOMAIN its \ {i} : f[j] = its[j]
    BY WithoutIs
  <1>3. CASE i \in DOMAIN its
    <2> HIDE DEF f
    <2>1. i \in 1..MaxId
      BY <1>3, InventoriesAre
    <2>2. Entry(k, f, i) = 0
      BY <1>2 DEF Entry
    <2>3. ValueOf(k, f) + Entry(k, its, i) = ValueOf(k, its) + Entry(k, f, i)
      <3>1. \A j : j # i => /\ j \in DOMAIN its <=> j \in DOMAIN f
                            /\ j \in DOMAIN its => f[j] = its[j]
        BY <1>2
      <3> QED
        BY <1>1, <2>1, <3>1, ValueChanged
    <2>4. ValueOf(k, its) \in Nat
      BY EntryIs
    <2>5. ValueOf(k, f) + Entry(k, its, i) = ValueOf(k, its)
      BY <2>2, <2>3, <2>4
    <2> QED
      BY <1>1, <2>5 DEF f
  <1>4. CASE i \notin DOMAIN its
    <2>1. f = its
      <3>1. its = [j \in DOMAIN its |-> its[j]] /\ DOMAIN its \ {i} = DOMAIN its
        BY <1>4, InventoriesAre
      <3> QED
        BY <3>1 DEF Without
    <2>2. Entry(k, its, i) = 0 /\ ValueOf(k, its) \in Nat
      BY <1>4, EntryIs DEF Entry
    <2> HIDE DEF f
    <2>3. ValueOf(k, f) + Entry(k, its, i) = ValueOf(k, its)
      BY <2>1, <2>2
    <2> QED
      BY <1>1, <2>3 DEF f
  <1> QED
    BY <1>3, <1>4

-------------------------------------------------------------------------------
(* What the game hears.  A world is an inventory, the ids of it that were  *)
(* created without a word, and the highest id so far; a copy agrees with   *)
(* it if it holds what was not hidden, and never held what is.             *)

World(its, hid, last) == [items |-> its, hidden |-> hid, last |-> last]

Agrees(c, w) ==
    /\ c \in Copies /\ c.ok
    /\ w.items \in Items /\ w.last \in Nat /\ DOMAIN w.items \subseteq 1..w.last
    /\ c.cache = Without(w.items, w.hidden)
    /\ c.seen \cap w.hidden = {} /\ c.seen \subseteq 1..w.last

\* The messages that bring the game from one world to another.
Brings(messages, v, w) ==
    /\ messages \in Seq(Message)
    /\ \A c : Agrees(c, v) => Agrees(Reduced(2, c, messages), w)

ItemMessage(i, x) == [kind |-> "item", id |-> i, item |-> x]

LEMMA MessageIs ==
    ASSUME NEW m \in Message
    PROVE  /\ m.kind \in {"item", "destroy", "notification", "snapshot"}
           /\ m.kind = "item" => m.id \in Nat /\ m.item \in Item
           /\ m.kind = "notification" => m.ids \subseteq Nat
           /\ m.kind = "snapshot" => m.items \in Items
  BY DEF Message

LEMMA ApplyIs ==
    ASSUME NEW cache \in Items, NEW m \in Message
    PROVE  Apply(cache, m) \in Items
  <1>1. CASE m.kind = "item"
    <2>1. With(cache, One(m.id, m.item)) \in Items
      BY <1>1, MessageIs, WithItems
    <2> QED
      BY <1>1, <2>1 DEF Apply
  <1>2. CASE m.kind = "destroy"
    <2>1. Without(cache, {m.id}) \in Items
      BY WithoutItems
    <2> QED
      BY <1>2, <2>1 DEF Apply
  <1>3. CASE m.kind = "notification"
    BY <1>3 DEF Apply
  <1>4. CASE m.kind = "snapshot"
    BY <1>4, MessageIs DEF Apply
  <1> QED
    BY <1>1, <1>2, <1>3, <1>4, MessageIs

LEMMA FollowIs ==
    ASSUME NEW c \in Copies, NEW m \in Message
    PROVE  /\ Follow(c, m) \in Copies
           /\ Follow(c, m).cache = Apply(c.cache, m)
           /\ Follow(c, m).seen = c.seen \cup DOMAIN Apply(c.cache, m)
           /\ Follow(c, m).ok <=> c.ok /\ (m.kind = "notification" => m.ids \subseteq DOMAIN c.cache)
  <1>1. c.cache \in Items /\ c.seen \subseteq Nat /\ c.ok \in BOOLEAN
    BY DEF Copies
  <1>2. Apply(c.cache, m) \in Items
    BY <1>1, ApplyIs
  <1>3. DOMAIN Apply(c.cache, m) \subseteq Nat
    BY <1>2, ItemsAre
  <1> DEFINE a == Apply(c.cache, m)
  <1>4. Follow(c, m) = [cache |-> a, seen |-> c.seen \cup DOMAIN a,
                        ok |-> c.ok /\ (m.kind = "notification" => m.ids \subseteq DOMAIN c.cache)]
    BY DEF Follow
  <1> HIDE DEF a
  <1>5. a \in Items /\ c.seen \cup DOMAIN a \subseteq Nat
    BY <1>1, <1>2, <1>3 DEF a
  <1>6. (c.ok /\ (m.kind = "notification" => m.ids \subseteq DOMAIN c.cache)) \in BOOLEAN
    BY <1>1
  <1>7. Follow(c, m) \in Copies
    BY <1>4, <1>5, <1>6 DEF Copies
  <1>8. Follow(c, m).cache = a /\ Follow(c, m).seen = c.seen \cup DOMAIN a
    BY <1>4
  <1>9. Follow(c, m).ok <=> c.ok /\ (m.kind = "notification" => m.ids \subseteq DOMAIN c.cache)
    <2> DEFINE b == c.ok /\ (m.kind = "notification" => m.ids \subseteq DOMAIN c.cache)
    <2>1. Follow(c, m) = [cache |-> a, seen |-> c.seen \cup DOMAIN a, ok |-> b]
      BY <1>4
    <2> HIDE DEF b
    <2>2. Follow(c, m).ok = b
      BY <2>1
    <2> QED
      BY <2>2 DEF b
  <1> QED
    BY <1>7, <1>8, <1>9 DEF a

LEMMA OneMessage ==
    ASSUME NEW m, NEW v, NEW w, m \in Message,
           \A c : Agrees(c, v) => Agrees(Follow(c, m), w)
    PROVE  Brings(<<m>>, v, w)
  <1>1. PICK s : s = <<m>>
    OBVIOUS
  <1>2. s \in Seq(Message)
    BY <1>1
  <1>3. \A c : Reduced(2, c, s) = Follow(c, m)
    BY <1>1, ReducedOne DEF Step
  <1>4. Brings(s, v, w)
    BY <1>2, <1>3 DEF Brings
  <1> QED
    BY <1>1, <1>4

LEMMA BringsThen ==
    ASSUME NEW s, NEW t, NEW u, NEW v, NEW w, Brings(s, u, v), Brings(t, v, w)
    PROVE  Brings(s \o t, u, w)
  <1>1. s \in Seq(Message) /\ t \in Seq(Message)
    BY DEF Brings
  <1>2. s \o t \in Seq(Message)
    BY <1>1
  <1>3. ASSUME NEW c, Agrees(c, u) PROVE Agrees(Reduced(2, c, s \o t), w)
    <2>1. Agrees(Reduced(2, c, s), v)
      BY <1>3 DEF Brings
    <2>2. Agrees(Reduced(2, Reduced(2, c, s), t), w)
      BY <2>1 DEF Brings
    <2> QED
      BY <1>1, <2>2, ReducedConcat
  <1> QED
    BY <1>2, <1>3 DEF Brings

LEMMA BringsNothing ==
    ASSUME NEW v PROVE Brings(<<>>, v, v)
  <1>1. PICK e : e = <<>>
    OBVIOUS
  <1>2. e \in Seq(Message)
    BY <1>1
  <1>3. \A c : Reduced(2, c, e) = c
    BY <1>1, ReducedNone
  <1>4. Brings(e, v, v)
    BY <1>2, <1>3 DEF Brings
  <1> QED
    BY <1>1, <1>4

\* An item, changed or new.
LEMMA BringsItem ==
    ASSUME NEW its \in Items, NEW hid, NEW last \in Nat, NEW next \in Nat, last <= next,
           NEW i \in 1..next, i \notin hid, NEW x \in Item
    PROVE  Brings(<<ItemMessage(i, x)>>, World(its, hid, last), World(With(its, One(i, x)), hid, next))
  <1> DEFINE m == ItemMessage(i, x)
             new == With(its, One(i, x))
             v == World(its, hid, last)
             w == World(new, hid, next)
  <1>1. m \in Message /\ m.kind = "item" /\ m.id = i /\ m.item = x
    BY DEF ItemMessage, Message
  <1>2. v.items = its /\ v.hidden = hid /\ v.last = last
    BY DEF World
  <1>3. w.items = new /\ w.hidden = hid /\ w.last = next
    BY DEF World
  <1>4. new \in Items
    BY WithItems
  <1>5. DOMAIN new = DOMAIN its \cup {i}
    BY DEF With, One
  <1>6. Without(new, hid) = With(Without(its, hid), One(i, x))
    BY WithWithout
  <1>7. DOMAIN Without(new, hid) = (DOMAIN its \cup {i}) \ hid
    BY <1>5, WithoutIs
  <1> HIDE DEF m, new, v, w
  <1>8. ASSUME NEW c, Agrees(c, v) PROVE Agrees(Follow(c, m), w)
    <2>1. /\ c \in Copies /\ c.ok /\ c.cache = Without(its, hid) /\ c.seen \cap hid = {}
          /\ c.seen \subseteq 1..last /\ DOMAIN its \subseteq 1..last
      BY <1>2, <1>8 DEF Agrees
    <2>2. Apply(c.cache, m) = Without(new, hid)
      BY <1>1, <1>6, <2>1 DEF Apply
    <2>3. /\ Follow(c, m) \in Copies /\ Follow(c, m).ok /\ Follow(c, m).cache = Without(new, hid)
          /\ Follow(c, m).seen = c.seen \cup ((DOMAIN its \cup {i}) \ hid)
      BY <1>1, <1>7, <2>1, <2>2, FollowIs
    <2>4. DOMAIN new \subseteq 1..next /\ Follow(c, m).seen \subseteq 1..next
      BY <1>5, <2>1, <2>3
    <2>5. Follow(c, m).seen \cap hid = {}
      BY <2>1, <2>3
    <2> QED
      BY <1>3, <1>4, <2>3, <2>4, <2>5 DEF Agrees
  <1>9. Brings(<<m>>, v, w)
    BY <1>1, <1>8, OneMessage
  <1> QED
    BY <1>9 DEF m, v, w, new

LEMMA BringsDestroy ==
    ASSUME NEW its \in Items, NEW hid, NEW last \in Nat, NEW i \in Nat, NEW less,
           less = hid \/ less = hid \ {i}
    PROVE  Brings(<<DestroyObject(i)>>, World(its, hid, last), World(Without(its, {i}), less, last))
  <1> DEFINE m == DestroyObject(i)
             new == Without(its, {i})
             v == World(its, hid, last)
             w == World(new, less, last)
  <1>1. m \in Message /\ m.kind = "destroy" /\ m.id = i
    BY DEF DestroyObject, Message
  <1>2. v.items = its /\ v.hidden = hid /\ v.last = last
    BY DEF World
  <1>3. w.items = new /\ w.hidden = less /\ w.last = last
    BY DEF World
  <1>4. new \in Items /\ DOMAIN new = DOMAIN its \ {i}
    BY WithoutItems, WithoutIs
  <1>5. Without(new, less) = Without(Without(its, hid), {i})
    <2>1. Without(new, less) = Without(its, {i} \cup less)
      BY WithoutTwice
    <2>2. Without(Without(its, hid), {i}) = Without(its, hid \cup {i})
      BY WithoutTwice
    <2>3. {i} \cup less = hid \cup {i}
      OBVIOUS
    <2> QED
      BY <2>1, <2>2, <2>3, Zenon
  <1>6. DOMAIN Without(new, less) = (DOMAIN its \ {i}) \ less
    <2> HIDE DEF new
    <2>1. DOMAIN Without(new, less) = DOMAIN new \ less
      BY WithoutIs
    <2> QED
      BY <1>4, <2>1
  <1> HIDE DEF m, new, v, w
  <1>7. ASSUME NEW c, Agrees(c, v) PROVE Agrees(Follow(c, m), w)
    <2>1. /\ c \in Copies /\ c.ok /\ c.cache = Without(its, hid) /\ c.seen \cap hid = {}
          /\ c.seen \subseteq 1..last /\ DOMAIN its \subseteq 1..last
      BY <1>2, <1>7 DEF Agrees
    <2>2. Apply(c.cache, m) = Without(new, less)
      BY <1>1, <1>5, <2>1 DEF Apply
    <2>3. /\ Follow(c, m) \in Copies /\ Follow(c, m).ok /\ Follow(c, m).cache = Without(new, less)
          /\ Follow(c, m).seen = c.seen \cup ((DOMAIN its \ {i}) \ less)
      BY <1>1, <1>6, <2>1, <2>2, FollowIs
    <2>4. DOMAIN new \subseteq 1..last /\ Follow(c, m).seen \subseteq 1..last
      BY <1>4, <2>1, <2>3
    <2>5. Follow(c, m).seen \cap less = {}
      BY <2>1, <2>3
    <2> QED
      BY <1>3, <1>4, <2>3, <2>4, <2>5 DEF Agrees
  <1>8. Brings(<<m>>, v, w)
    BY <1>1, <1>7, OneMessage
  <1> QED
    BY <1>8 DEF m, v, w, new

LEMMA BringsNotification ==
    ASSUME NEW its \in Items, NEW hid, NEW last \in Nat, NEW ids, ids \subseteq DOMAIN its \ hid
    PROVE  Brings(<<Notification(ids)>>, World(its, hid, last), World(its, hid, last))
  <1> DEFINE m == Notification(ids)
             v == World(its, hid, last)
  <1>1. m \in Message /\ m.kind = "notification" /\ m.ids = ids
    <2>1. ids \subseteq Nat
      BY ItemsAre
    <2> QED
      BY <2>1 DEF Notification, Message
  <1>2. v.items = its /\ v.hidden = hid /\ v.last = last
    BY DEF World
  <1>3. DOMAIN Without(its, hid) = DOMAIN its \ hid
    BY WithoutIs
  <1> HIDE DEF m, v
  <1>4. ASSUME NEW c, Agrees(c, v) PROVE Agrees(Follow(c, m), v)
    <2>1. /\ c \in Copies /\ c.ok /\ c.cache = Without(its, hid) /\ c.seen \cap hid = {}
          /\ c.seen \subseteq 1..last /\ DOMAIN its \subseteq 1..last
      BY <1>2, <1>4 DEF Agrees
    <2>2. Apply(c.cache, m) = c.cache
      BY <1>1 DEF Apply
    <2>3. /\ Follow(c, m) \in Copies /\ Follow(c, m).ok /\ Follow(c, m).cache = c.cache
          /\ Follow(c, m).seen = c.seen \cup (DOMAIN its \ hid)
      BY <1>1, <1>3, <2>1, <2>2, FollowIs
    <2>4. Follow(c, m).seen \subseteq 1..last /\ Follow(c, m).seen \cap hid = {}
      BY <2>1, <2>3
    <2> QED
      BY <1>2, <2>1, <2>3, <2>4 DEF Agrees
  <1>5. Brings(<<m>>, v, v)
    BY <1>1, <1>4, OneMessage
  <1> QED
    BY <1>5 DEF m, v

LEMMA BringsSnapshot ==
    ASSUME NEW its \in Items, NEW hid, NEW last \in Nat
    PROVE  Brings(<<[kind |-> "snapshot", items |-> its]>>, World(its, hid, last), World(its, {}, last))
  <1> DEFINE m == [kind |-> "snapshot", items |-> its]
             v == World(its, hid, last)
             w == World(its, {}, last)
  <1>1. m \in Message /\ m.kind = "snapshot" /\ m.items = its
    BY DEF Message
  <1>2. v.items = its /\ v.hidden = hid /\ v.last = last /\ w.items = its /\ w.hidden = {} /\ w.last = last
    BY DEF World
  <1>3. Without(its, {}) = its
    BY WithoutNone, ItemsAre
  <1> HIDE DEF m, v, w
  <1>4. ASSUME NEW c, Agrees(c, v) PROVE Agrees(Follow(c, m), w)
    <2>1. c \in Copies /\ c.ok /\ c.seen \subseteq 1..last /\ DOMAIN its \subseteq 1..last
      BY <1>2, <1>4 DEF Agrees
    <2>2. Apply(c.cache, m) = its
      BY <1>1 DEF Apply
    <2>3. /\ Follow(c, m) \in Copies /\ Follow(c, m).ok /\ Follow(c, m).cache = its
          /\ Follow(c, m).seen = c.seen \cup DOMAIN its
      BY <1>1, <2>1, <2>2, FollowIs
    <2>4. Follow(c, m).seen \subseteq 1..last /\ Follow(c, m).seen \cap {} = {}
      BY <2>1, <2>3
    <2> QED
      BY <1>2, <1>3, <2>1, <2>3, <2>4 DEF Agrees
  <1>5. Brings(<<m>>, v, w)
    BY <1>1, <1>4, OneMessage
  <1> QED
    BY <1>5 DEF m, v, w

\* A clone that nobody hears of.
LEMMA BringsHidden ==
    ASSUME NEW its \in Items, NEW hid, NEW last \in Nat, NEW x \in Item
    PROVE  Brings(<<>>, World(its, hid, last),
                  World(With(its, One(last + 1, x)), hid \cup {last + 1}, last + 1))
  <1> DEFINE i == last + 1
             new == With(its, One(i, x))
             v == World(its, hid, last)
             w == World(new, hid \cup {i}, i)
  <1>1. PICK e : e = <<>>
    OBVIOUS
  <1>2. e \in Seq(Message)
    BY <1>1
  <1>3. v.items = its /\ v.hidden = hid /\ v.last = last
    BY DEF World
  <1>4. w.items = new /\ w.hidden = hid \cup {i} /\ w.last = i
    BY DEF World
  <1>5. new \in Items /\ i \in Nat
    BY WithItems
  <1>6. DOMAIN new = DOMAIN its \cup {i} /\ \A j \in DOMAIN its : j # i => new[j] = its[j]
    BY DEF With, One
  <1>7. i \notin 1..last /\ 1..last \subseteq 1..i
    OBVIOUS
  <1> HIDE DEF v, w, new, i
  <1>8. ASSUME NEW c, Agrees(c, v) PROVE Agrees(Reduced(2, c, e), w)
    <2>1. /\ c \in Copies /\ c.ok /\ c.cache = Without(its, hid) /\ c.seen \cap hid = {}
          /\ c.seen \subseteq 1..last /\ DOMAIN its \subseteq 1..last
      BY <1>3, <1>8 DEF Agrees
    <2>2. Without(new, hid \cup {i}) = Without(its, hid)
      <3>1. DOMAIN new \ (hid \cup {i}) = DOMAIN its \ hid
        BY <1>6, <1>7, <2>1
      <3>2. \A j \in DOMAIN its \ hid : new[j] = its[j]
        BY <1>6, <1>7, <2>1
      <3> QED
        BY <3>1, <3>2 DEF Without
    <2>3. Reduced(2, c, e) = c
      BY <1>1, ReducedNone
    <2>4. DOMAIN new \subseteq 1..i /\ c.seen \subseteq 1..i /\ c.seen \cap (hid \cup {i}) = {}
      <3>1. i \in 1..i
        BY <1>5 DEF i
      <3> QED
        BY <1>6, <1>7, <2>1, <3>1
    <2> QED
      BY <1>4, <1>5, <2>1, <2>2, <2>3, <2>4 DEF Agrees
  <1>9. Brings(e, v, w)
    BY <1>2, <1>8 DEF Brings
  <1> QED
    BY <1>1, <1>9 DEF v, w, new, i

\* What a copy knows follows from the messages: a copy that has forgotten what it once held
\* agrees as well, and nothing that was held, and no promise that was broken, is forgotten.
Forgets(d, c) ==
    /\ c \in Copies /\ d \in Copies
    /\ d.cache = c.cache /\ d.seen \subseteq c.seen /\ (c.ok => d.ok)

LEMMA FollowForgets ==
    ASSUME NEW c, NEW d, NEW m \in Message, Forgets(d, c)
    PROVE  /\ Forgets(Follow(d, m), Follow(c, m))
           /\ c.seen \subseteq Follow(c, m).seen /\ (Follow(c, m).ok => c.ok)
           /\ Apply(c.cache, m) = Follow(c, m).cache
  <1>1. c \in Copies /\ d \in Copies
    BY DEF Forgets
  <1>2. /\ Follow(c, m) \in Copies
        /\ Follow(c, m).cache = Apply(c.cache, m)
        /\ Follow(c, m).seen = c.seen \cup DOMAIN Apply(c.cache, m)
        /\ Follow(c, m).ok <=> c.ok /\ (m.kind = "notification" => m.ids \subseteq DOMAIN c.cache)
    BY <1>1, FollowIs
  <1>3. /\ Follow(d, m) \in Copies
        /\ Follow(d, m).cache = Apply(d.cache, m)
        /\ Follow(d, m).seen = d.seen \cup DOMAIN Apply(d.cache, m)
        /\ Follow(d, m).ok <=> d.ok /\ (m.kind = "notification" => m.ids \subseteq DOMAIN d.cache)
    BY <1>1, FollowIs
  <1> QED
    BY <1>2, <1>3 DEF Forgets

LEMMA Forgotten ==
    ASSUME NEW c, NEW d, NEW s \in Seq(Message), Forgets(d, c)
    PROVE  /\ Forgets(Reduced(2, d, s), Reduced(2, c, s))
           /\ c.seen \subseteq Reduced(2, c, s).seen /\ (Reduced(2, c, s).ok => c.ok)
           /\ Reduced(1, c.cache, s) = Reduced(2, c, s).cache
  <1> DEFINE Good(t) == /\ Forgets(Reduced(2, d, t), Reduced(2, c, t))
                        /\ c.seen \subseteq Reduced(2, c, t).seen /\ (Reduced(2, c, t).ok => c.ok)
                        /\ Reduced(1, c.cache, t) = Reduced(2, c, t).cache
             T == {n \in Nat : n <= Len(s) => Good(Prefix(s, n))}
  <1>1. 0 \in T
    <2>1. Prefix(s, 0) = <<>>
      BY PrefixIs
    <2>2. \A k, a : Reduced(k, a, Prefix(s, 0)) = a
      BY <2>1, ReducedNone
    <2> QED
      BY <2>2
  <1>2. ASSUME NEW n \in Nat, n \in T, n + 1 <= Len(s) PROVE n + 1 \in T
    <2> DEFINE p == Prefix(s, n)
               q == Prefix(s, n + 1)
               m == s[n + 1]
    <2>1. m \in Message
      BY <1>2
    <2>2. \A k, a : Reduced(k, a, q) = Step(k, Reduced(k, a, p), m)
      <3>1. n \in 0..(Len(s) - 1)
        BY <1>2
      <3> QED
        BY <3>1, ReducedPrefix
    <2>3. Good(p)
      BY <1>2
    <2> HIDE DEF p, q, m
    <2>4. Reduced(2, c, q) = Follow(Reduced(2, c, p), m) /\ Reduced(2, d, q) = Follow(Reduced(2, d, p), m)
      BY <2>2 DEF Step
    <2>5. Reduced(1, c.cache, q) = Apply(Reduced(1, c.cache, p), m)
      BY <2>2 DEF Step
    <2>6. /\ Forgets(Follow(Reduced(2, d, p), m), Follow(Reduced(2, c, p), m))
          /\ Reduced(2, c, p).seen \subseteq Follow(Reduced(2, c, p), m).seen
          /\ Follow(Reduced(2, c, p), m).ok => Reduced(2, c, p).ok
          /\ Apply(Reduced(2, c, p).cache, m) = Follow(Reduced(2, c, p), m).cache
      BY <2>1, <2>3, FollowForgets
    <2>7. Good(q)
      BY <2>3, <2>4, <2>5, <2>6
    <2> QED
      BY <2>7 DEF q
  <1>3. Nat \subseteq T
    <2>1. \A n \in Nat : n \in T => n + 1 \in T
      BY <1>2
    <2> HIDE DEF T
    <2> QED
      BY <1>1, <2>1, Induction
  <1>4. Good(Prefix(s, Len(s)))
    BY <1>3
  <1> HIDE DEF Good
  <1>5. Good(s)
    BY <1>4, PrefixIs
  <1> QED
    BY <1>5 DEF Good

LEMMA AgreesForgets ==
    ASSUME NEW c, NEW d, NEW w, Agrees(c, w), Forgets(d, c)
    PROVE  Agrees(d, w)
  BY DEF Agrees, Forgets

LEMMA FromIs ==
    ASSUME NEW cache \in Items
    PROVE  /\ From(cache) \in Copies /\ From(cache).cache = cache /\ From(cache).seen = DOMAIN cache
           /\ From(cache).ok
  BY ItemsAre DEF From, Copies

-------------------------------------------------------------------------------
(* What the game has been sent, with what it knows, agrees with the        *)
(* inventory.                                                              *)

Heard(cache, messages, w) ==
    /\ cache \in Items /\ messages \in Seq(Message)
    /\ Agrees(Reduced(2, From(cache), messages), w)

LEMMA HeardMore ==
    ASSUME NEW cache, NEW old, NEW new, NEW v, NEW w, Heard(cache, old, v), Brings(new, v, w)
    PROVE  Heard(cache, old \o new, w)
  <1>1. old \in Seq(Message) /\ new \in Seq(Message) /\ cache \in Items
    BY DEF Heard, Brings
  <1>2. Agrees(Reduced(2, Reduced(2, From(cache), old), new), w)
    BY DEF Heard, Brings
  <1>3. Reduced(2, From(cache), old \o new) = Reduced(2, Reduced(2, From(cache), old), new)
    BY <1>1, ReducedConcat
  <1>4. old \o new \in Seq(Message)
    BY <1>1
  <1> QED
    BY <1>1, <1>2, <1>3, <1>4 DEF Heard

LEMMA HeardIs ==
    ASSUME NEW cache, NEW messages, NEW w, Heard(cache, messages, w)
    PROVE  /\ FoldLeft(Apply, cache, messages) = Without(w.items, w.hidden)
           /\ DOMAIN cache \cap w.hidden = {}
  <1> DEFINE c == From(cache)
  <1>1. cache \in Items /\ messages \in Seq(Message) /\ Agrees(Reduced(2, c, messages), w)
    BY DEF Heard
  <1>2. c \in Copies /\ c.cache = cache /\ c.seen = DOMAIN cache /\ c.ok
    BY <1>1, FromIs
  <1> HIDE DEF c
  <1>3. Forgets(c, c)
    BY <1>2 DEF Forgets
  <1>4. /\ c.seen \subseteq Reduced(2, c, messages).seen
        /\ Reduced(1, c.cache, messages) = Reduced(2, c, messages).cache
    BY <1>1, <1>3, Forgotten
  <1>5. FoldLeft(Apply, cache, messages) = Reduced(1, cache, messages)
    BY <1>1, ApplyFold
  <1>6. /\ Reduced(2, c, messages).cache = Without(w.items, w.hidden)
        /\ Reduced(2, c, messages).seen \cap w.hidden = {}
    BY <1>1 DEF Agrees
  <1> QED
    BY <1>2, <1>4, <1>5, <1>6

LEMMA HeardNext ==
    ASSUME NEW cache, NEW messages, messages # <<>>, NEW w, Heard(cache, messages, w)
    PROVE  /\ Heard(Apply(cache, Head(messages)), Tail(messages), w)
           /\ Head(messages).kind = "notification" => Head(messages).ids \subseteq DOMAIN cache
  <1> DEFINE m == Head(messages)
             t == Tail(messages)
             c == From(cache)
             next == Apply(cache, m)
  <1>1. cache \in Items /\ messages \in Seq(Message) /\ Agrees(Reduced(2, c, messages), w)
    BY DEF Heard
  <1>2. m \in Message /\ t \in Seq(Message) /\ messages = <<m>> \o t
    BY <1>1
  <1>3. c \in Copies /\ c.cache = cache /\ c.seen = DOMAIN cache /\ c.ok
    BY <1>1, FromIs
  <1>4. PICK one : one = <<m>>
    OBVIOUS
  <1>5. one \in Seq(Message) /\ messages = one \o t
    BY <1>2, <1>4
  <1> HIDE DEF m, t, c
  <1>6. Reduced(2, c, one) = Follow(c, m)
    BY <1>4, ReducedOne DEF Step
  <1>7. Reduced(2, c, one \o t) = Reduced(2, Follow(c, m), t)
    BY <1>2, <1>5, <1>6, ReducedConcat
  <1>8. /\ Follow(c, m) \in Copies
        /\ Follow(c, m).cache = next
        /\ Follow(c, m).seen = c.seen \cup DOMAIN next
        /\ Follow(c, m).ok <=> c.ok /\ (m.kind = "notification" => m.ids \subseteq DOMAIN cache)
    BY <1>2, <1>3, FollowIs
  <1>9. next \in Items
    BY <1>1, <1>2, ApplyIs
  <1> HIDE DEF next
  <1>10. Forgets(From(next), Follow(c, m))
    BY <1>8, <1>9, FromIs DEF Forgets
  <1>11. /\ Forgets(Reduced(2, From(next), t), Reduced(2, Follow(c, m), t))
         /\ Reduced(2, Follow(c, m), t).ok => Follow(c, m).ok
    BY <1>2, <1>10, Forgotten
  <1>12. Agrees(Reduced(2, Follow(c, m), t), w)
    BY <1>1, <1>5, <1>7
  <1>13. Agrees(Reduced(2, From(next), t), w)
    BY <1>11, <1>12, AgreesForgets
  <1>14. Reduced(2, Follow(c, m), t).ok
    BY <1>12 DEF Agrees
  <1>15. Heard(next, t, w)
    BY <1>2, <1>9, <1>13 DEF Heard
  <1>16. m.kind = "notification" => m.ids \subseteq DOMAIN cache
    BY <1>8, <1>11, <1>14
  <1> QED
    BY <1>15, <1>16 DEF m, t, next

-------------------------------------------------------------------------------
(* Destroying and creating several items.                                  *)

FirstOf(ids, n) == {ids[j] : j \in 1..n}

LEMMA FirstOfIs ==
    ASSUME NEW ids, NEW n \in Nat
    PROVE  /\ FirstOf(ids, 0) = {}
           /\ FirstOf(ids, n + 1) = FirstOf(ids, n) \cup {ids[n + 1]}
           /\ \A S : ids \in Seq(S) => FirstOf(ids, Len(ids)) = ToSet(ids)
  <1>1. FirstOf(ids, 0) = {}
    BY DEF FirstOf
  <1>2. 1 .. n + 1 = (1..n) \cup {n + 1}
    OBVIOUS
  <1>3. FirstOf(ids, n + 1) = FirstOf(ids, n) \cup {ids[n + 1]}
    BY <1>2 DEF FirstOf
  <1>4. ASSUME NEW S, ids \in Seq(S) PROVE FirstOf(ids, Len(ids)) = ToSet(ids)
    BY <1>4 DEF FirstOf, ToSet
  <1> QED
    BY <1>1, <1>3, <1>4

LEMMA BringsDestroys ==
    ASSUME NEW its \in Items, NEW hid, NEW last \in Nat, NEW ids \in Seq(Nat)
    PROVE  Brings(Destroys(ids), World(its, hid, last), World(Without(its, ToSet(ids)), hid, last))
  <1> DEFINE v == World(its, hid, last)
             ms == Destroys(ids)
             Good(n) == Brings(Prefix(ms, n), v, World(Without(its, FirstOf(ids, n)), hid, last))
             T == {n \in Nat : n <= Len(ids) => Good(n)}
  <1>1. ms \in Seq(Message) /\ Len(ms) = Len(ids) /\ \A n \in 1..Len(ids) : ms[n] = DestroyObject(ids[n])
    BY DEF Destroys, DestroyObject, Message
  <1>2. 0 \in T
    <2>1. Prefix(ms, 0) = <<>> /\ FirstOf(ids, 0) = {}
      BY <1>1, PrefixIs, FirstOfIs
    <2>2. Without(its, {}) = its
      BY WithoutNone, ItemsAre
    <2>3. Brings(<<>>, v, v)
      BY BringsNothing
    <2>4. Good(0)
      BY <2>1, <2>2, <2>3
    <2> QED
      BY <2>4
  <1>3. ASSUME NEW n \in Nat, n \in T, n + 1 <= Len(ids) PROVE n + 1 \in T
    <2> DEFINE id == ids[n + 1]
               p == Prefix(ms, n)
               a == Without(its, FirstOf(ids, n))
               b == Without(its, FirstOf(ids, n + 1))
    <2>1. n \in 0..(Len(ms) - 1) /\ n + 1 \in 1..Len(ids) /\ id \in Nat
      BY <1>1, <1>3
    <2>2. Prefix(ms, n + 1) = Append(p, DestroyObject(id)) /\ p \in Seq(Message)
      <3> HIDE DEF ms
      <3>1. Prefix(ms, n + 1) = Append(Prefix(ms, n), ms[n + 1])
        BY <1>1, <2>1, PrefixIs
      <3>2. n \in 0..Len(ms)
        BY <1>1, <2>1
      <3>3. Prefix(ms, n) \in Seq(Message)
        BY <1>1, <3>2, PrefixIs
      <3> QED
        BY <1>1, <2>1, <3>1, <3>3
    <2>3. a \in Items
      BY WithoutItems
    <2>4. b = Without(a, {id})
      BY WithoutTwice, FirstOfIs
    <2>5. Brings(p, v, World(a, hid, last))
      BY <1>3
    <2> HIDE DEF id, p, a, v
    <2>6. Brings(<<DestroyObject(id)>>, World(a, hid, last), World(Without(a, {id}), hid, last))
      BY <2>1, <2>3, BringsDestroy
    <2>7. PICK one : one = <<DestroyObject(id)>>
      OBVIOUS
    <2>8. Brings(p \o one, v, World(Without(a, {id}), hid, last))
      BY <2>5, <2>6, <2>7, BringsThen
    <2>9. Append(p, DestroyObject(id)) = p \o one
      BY <2>2, <2>7
    <2>10. Good(n + 1)
      BY <2>2, <2>4, <2>8, <2>9 DEF v
    <2> QED
      BY <2>10
  <1>4. Nat \subseteq T
    <2>1. \A n \in Nat : n \in T => n + 1 \in T
      BY <1>3
    <2> HIDE DEF T
    <2> QED
      BY <1>2, <2>1, Induction
  <1>5. Good(Len(ids))
    BY <1>4
  <1>6. Prefix(ms, Len(ids)) = ms
    BY <1>1, PrefixIs
  <1> QED
    BY <1>5, <1>6, FirstOfIs

\* DestroyObjects: only when the configuration says so.
LEMMA BringsDestroyObjects ==
    ASSUME NEW its \in Items, NEW hid, NEW last \in Nat, NEW ids \in Seq(Nat)
    PROVE  Brings(DestroyObjects(ids), World(its, hid, last), World(Without(its, Used(ids)), hid, last))
  <1>1. CASE destroyUsedItems
    BY <1>1, BringsDestroys DEF DestroyObjects, Used
  <1>2. CASE ~destroyUsedItems
    <2>1. Without(its, {}) = its
      BY WithoutNone, ItemsAre
    <2>2. DestroyObjects(ids) = <<>> /\ Used(ids) = {}
      BY <1>2 DEF DestroyObjects, Used
    <2> QED
      BY <2>1, <2>2, BringsNothing
  <1> QED
    BY <1>1, <1>2

\* Different items are worth what they are worth together.
LEMMA ValueWithoutAll ==
    ASSUME NEW k \in {1, 2}, NEW its \in Inventories, NEW p \in Nat,
           NEW ids \in Seq(DOMAIN its), IsInjective(ids),
           \A i \in DOMAIN its : i \in ToSet(ids) => Value(k, its[i]) >= p
    PROVE  ValueOf(k, Without(its, ToSet(ids))) + Len(ids) * p <= ValueOf(k, its)
  <1> DEFINE v(n) == ValueOf(k, Without(its, FirstOf(ids, n)))
             T == {n \in Nat : n <= Len(ids) => v(n) \in Nat /\ v(n) + n * p <= ValueOf(k, its)}
  <1>1. ValueOf(k, its) \in Nat
    BY EntryIs
  <1>2. 0 \in T
    <2>1. FirstOf(ids, 0) = {} /\ Without(its, {}) = its
      BY FirstOfIs, WithoutNone, InventoriesAre
    <2>2. v(0) = ValueOf(k, its)
      BY <2>1
    <2> QED
      BY <1>1, <2>2
  <1>3. ASSUME NEW n \in Nat, n \in T, n + 1 <= Len(ids) PROVE n + 1 \in T
    <2> DEFINE id == ids[n + 1]
               a == Without(its, FirstOf(ids, n))
    <2>1. n + 1 \in 1..Len(ids) /\ id \in DOMAIN its /\ id \in ToSet(ids)
      BY <1>3 DEF ToSet
    <2>2. id \notin FirstOf(ids, n)
      <3>1. ASSUME NEW j \in 1..n PROVE ids[j] # id
        BY <2>1, <3>1 DEF IsInjective
      <3> QED
        BY <3>1 DEF FirstOf
    <2>3. a \in Inventories
      BY WithoutItems
    <2>4. id \in DOMAIN a /\ a[id] = its[id]
      BY <2>1, <2>2 DEF Without
    <2>5. Entry(k, a, id) = Value(k, its[id]) /\ Value(k, its[id]) >= p
      BY <2>1, <2>4 DEF Entry
    <2>6. Without(its, FirstOf(ids, n + 1)) = Without(a, {id})
      BY WithoutTwice, FirstOfIs
    <2>7. ValueOf(k, a) \in Nat /\ ValueOf(k, a) + n * p <= ValueOf(k, its)
      BY <1>3
    <2>8. v(n + 1) = ValueOf(k, Without(a, {id}))
      BY <2>6
    <2> HIDE DEF a, id, v
    <2>9. /\ ValueOf(k, Without(a, {id})) + Entry(k, a, id) = ValueOf(k, a)
          /\ ValueOf(k, Without(a, {id})) \in Nat
      BY <2>3, ValueWithout, EntryIs
    <2>10. Entry(k, a, id) \in Nat /\ n * p \in Nat /\ (n + 1) * p = n * p + p
      BY <2>3, EntryIs
    <2>11. PICK np : np = n * p
      OBVIOUS
    <2>12. ValueOf(k, Without(a, {id})) + np + p <= ValueOf(k, its)
      BY <1>1, <2>5, <2>7, <2>9, <2>10, <2>11
    <2>13. v(n + 1) \in Nat /\ v(n + 1) + (n + 1) * p <= ValueOf(k, its)
      BY <1>1, <2>8, <2>9, <2>10, <2>11, <2>12
    <2> QED
      BY <2>13
  <1>4. Nat \subseteq T
    <2>1. \A n \in Nat : n \in T => n + 1 \in T
      BY <1>3
    <2> HIDE DEF T
    <2> QED
      BY <1>2, <2>1, Induction
  <1>5. Len(ids) \in Nat /\ FirstOf(ids, Len(ids)) = ToSet(ids)
    <2>1. Len(ids) \in Nat
      OBVIOUS
    <2> HIDE DEF T, v
    <2> QED
      BY <2>1, FirstOfIs
  <1>6. v(Len(ids)) + Len(ids) * p <= ValueOf(k, its)
    BY <1>4, <1>5
  <1> QED
    BY <1>5, <1>6

-------------------------------------------------------------------------------
(* Short sequences.                                                        *)

LEMMA Joined ==
    ASSUME NEW S, NEW s \in Seq(S), NEW t \in Seq(S), NEW c \in S, Len(t) = 1, t[1] = c
    PROVE  s \o t = Append(s, c)
  <1> DEFINE w == s \o t
             v == Append(s, c)
             n == Len(s)
  <1>1. /\ w \in Seq(S) /\ Len(w) = n + Len(t)
        /\ \A i \in 1 .. n + Len(t) : w[i] = IF i <= n THEN s[i] ELSE t[i - n]
    BY ConcatProperties
  <1>2. v \in Seq(S) /\ Len(v) = n + 1 /\ v[n + 1] = c /\ \A i \in 1..n : v[i] = s[i]
    OBVIOUS
  <1>3. n \in Nat
    OBVIOUS
  <1> HIDE DEF w, v, n
  <1>4. \A i \in 1 .. n + 1 : w[i] = v[i]
    BY <1>1, <1>2, <1>3
  <1>5. w = [i \in 1 .. n + 1 |-> w[i]] /\ v = [i \in 1 .. n + 1 |-> v[i]]
    BY <1>1, <1>2, <1>3
  <1> QED
    BY <1>4, <1>5 DEF w, v

LEMMA AppendIs ==
    ASSUME NEW S, NEW s \in Seq(S), NEW c \in S
    PROVE  /\ Append(s, c) \in Seq(S) /\ Len(Append(s, c)) = Len(s) + 1
           /\ Append(s, c)[Len(s) + 1] = c /\ \A i \in 1..Len(s) : Append(s, c)[i] = s[i]
  OBVIOUS

LEMMA PairIs == ASSUME NEW a, NEW b PROVE <<a>> \o <<b>> = <<a, b>>
  <1>1. PICK S : S = {a, b}
    OBVIOUS
  <1>2. PICK s, t, u : s = <<a>> /\ t = <<b>> /\ u = <<a, b>>
    OBVIOUS
  <1>3. /\ s \in Seq(S) /\ Len(s) = 1 /\ s[1] = a
        /\ t \in Seq(S) /\ Len(t) = 1 /\ t[1] = b
        /\ u \in Seq(S) /\ Len(u) = 2 /\ u[1] = a /\ u[2] = b
        /\ b \in S
    BY <1>1, <1>2
  <1>4. s \o t = Append(s, b)
    BY <1>3, Joined
  <1> DEFINE w == Append(s, b)
  <1>5. w \in Seq(S) /\ Len(w) = 2 /\ w[1] = a /\ w[2] = b
    BY <1>3
  <1> HIDE DEF w
  <1>6. u = [i \in 1..2 |-> u[i]] /\ w = [i \in 1..2 |-> w[i]]
    BY <1>3, <1>5
  <1>7. \A i \in 1..2 : u[i] = w[i]
    BY <1>3, <1>5
  <1>8. u = w
    BY <1>6, <1>7
  <1> QED
    BY <1>2, <1>4, <1>8 DEF w

LEMMA TripleIs == ASSUME NEW a, NEW b, NEW c PROVE <<a, b>> \o <<c>> = <<a, b, c>>
  <1>1. PICK S : S = {a, b, c}
    OBVIOUS
  <1>2. PICK s, t, u : s = <<a, b>> /\ t = <<c>> /\ u = <<a, b, c>>
    OBVIOUS
  <1>3. /\ s \in Seq(S) /\ Len(s) = 2 /\ s[1] = a /\ s[2] = b
        /\ t \in Seq(S) /\ Len(t) = 1 /\ t[1] = c
        /\ u \in Seq(S) /\ Len(u) = 3 /\ u[1] = a /\ u[2] = b /\ u[3] = c
        /\ c \in S
    BY <1>1, <1>2
  <1>4. s \o t = Append(s, c)
    BY <1>3, Joined
  <1> DEFINE w == Append(s, c)
  <1>5. w \in Seq(S) /\ Len(w) = 3 /\ w[1] = a /\ w[2] = b /\ w[3] = c
    <2>1. /\ w \in Seq(S) /\ Len(w) = Len(s) + 1 /\ w[Len(s) + 1] = c
          /\ \A i \in 1..Len(s) : w[i] = s[i]
      <3>1. s \in Seq(S) /\ c \in S
        BY <1>3
      <3> QED
        BY <3>1, AppendIs
    <2> HIDE DEF w
    <2> QED
      BY <1>3, <2>1
  <1> HIDE DEF w
  <1>6. u = [i \in 1..3 |-> u[i]] /\ w = [i \in 1..3 |-> w[i]]
    BY <1>3, <1>5
  <1>7. \A i \in 1..3 : u[i] = w[i]
    <2>1. \A i \in 1..3 : i = 1 \/ i = 2 \/ i = 3
      OBVIOUS
    <2> QED
      BY <1>3, <1>5, <2>1, Zenon
  <1>8. u = w
    BY <1>6, <1>7
  <1> QED
    BY <1>2, <1>4, <1>8 DEF w

-------------------------------------------------------------------------------
(* A tool used on one item or on two.                                      *)

LEMMA UsedIs ==
    ASSUME NEW i, NEW ids, i \notin ToSet(ids) PROVE i \notin Used(ids)
  BY DEF Used

LEMMA TotalLess ==
    ASSUME NEW s, NEW t, NEW m \in Nat,
           \A i \in 1..m : s[i] \in Nat /\ t[i] \in Nat /\ s[i] <= t[i]
    PROVE  Total(s, m) <= Total(t, m)
  <1> DEFINE T == {n \in Nat : n <= m => /\ Total(s, n) \in Nat /\ Total(t, n) \in Nat
                                         /\ Total(s, n) <= Total(t, n)}
  <1>1. 0 \in T
    BY TotalNone
  <1>2. ASSUME NEW n \in Nat, n \in T, n + 1 <= m PROVE n + 1 \in T
    <2>1. Total(s, n + 1) = Total(s, n) + s[n + 1]
      BY TotalMore
    <2>2. Total(t, n + 1) = Total(t, n) + t[n + 1]
      BY TotalMore
    <2>3. s[n + 1] \in Nat /\ t[n + 1] \in Nat /\ s[n + 1] <= t[n + 1]
      BY <1>2
    <2>4. Total(s, n) \in Nat /\ Total(t, n) \in Nat /\ Total(s, n) <= Total(t, n)
      BY <1>2
    <2> QED
      BY <2>1, <2>2, <2>3, <2>4
  <1>3. Nat \subseteq T
    <2>1. \A n \in Nat : n \in T => n + 1 \in T
      BY <1>2
    <2> HIDE DEF T
    <2> QED
      BY <1>1, <2>1, Induction
  <1> QED
    BY <1>3

LEMMA ValueLess ==
    ASSUME NEW k \in {1, 2}, NEW its \in Inventories, NEW S, NEW T, S \subseteq T
    PROVE  ValueOf(k, Without(its, T)) <= ValueOf(k, Without(its, S))
  <1> DEFINE f == Without(its, T)
             g == Without(its, S)
             a == Entries(k, f)
             b == Entries(k, g)
  <1>1. f \in Inventories /\ g \in Inventories
    BY WithoutItems
  <1>2. /\ DOMAIN f = DOMAIN its \ T /\ \A j \in DOMAIN its \ T : f[j] = its[j]
        /\ DOMAIN g = DOMAIN its \ S /\ \A j \in DOMAIN its \ S : g[j] = its[j]
    BY WithoutIs
  <1> HIDE DEF f, g
  <1>3. ASSUME NEW j \in 1..MaxId
        PROVE  a[j] \in Nat /\ b[j] \in Nat /\ a[j] <= b[j]
    <2>1. a[j] = Entry(k, f, j) /\ b[j] = Entry(k, g, j)
      BY DEF Entries
    <2>2. Entry(k, f, j) \in Nat /\ Entry(k, g, j) \in Nat
      BY <1>1, EntryIs
    <2>3. CASE j \in DOMAIN f
      <3>1. j \in DOMAIN g /\ f[j] = g[j]
        BY <1>2, <2>3
      <3>2. Entry(k, f, j) = Entry(k, g, j)
        BY <2>3, <3>1 DEF Entry
      <3> QED
        BY <2>1, <2>2, <3>2
    <2>4. CASE j \notin DOMAIN f
      <3>1. Entry(k, f, j) = 0
        BY <2>4 DEF Entry
      <3> QED
        BY <2>1, <2>2, <3>1
    <2> QED
      BY <2>3, <2>4
  <1>4. ValueOf(k, f) = Total(a, MaxId) /\ ValueOf(k, g) = Total(b, MaxId) /\ MaxId \in Nat
    BY <1>1, EntryIs, ItemToolsAssumption
  <1> HIDE DEF a, b
  <1>5. Total(a, MaxId) <= Total(b, MaxId)
    BY <1>3, <1>4, TotalLess
  <1> QED
    BY <1>4, <1>5 DEF f, g

\* Used items take their value with them, when the configuration says so.
LEMMA ValueUsed ==
    ASSUME NEW k \in {1, 2}, NEW its \in Inventories, NEW ids
    PROVE  LET new == Without(its, Used(ids)) IN
             /\ new \in Inventories /\ ValueOf(k, new) \in Nat /\ ValueOf(k, new) <= ValueOf(k, its)
             /\ destroyUsedItems =>
                  \A t \in ToSet(ids) \cap DOMAIN its :
                    ValueOf(k, new) + Value(k, its[t]) <= ValueOf(k, its)
  <1> DEFINE new == Without(its, Used(ids))
  <1>1. new \in Inventories /\ ValueOf(k, new) \in Nat /\ ValueOf(k, its) \in Nat
    BY WithoutItems, EntryIs
  <1>2. Without(its, {}) = its
    BY WithoutNone, InventoriesAre
  <1>3. ValueOf(k, new) <= ValueOf(k, its)
    <2>1. {} \subseteq Used(ids)
      OBVIOUS
    <2> QED
      BY <1>2, <2>1, ValueLess
  <1>4. ASSUME destroyUsedItems, NEW t \in ToSet(ids) \cap DOMAIN its
        PROVE  ValueOf(k, new) + Value(k, its[t]) <= ValueOf(k, its)
    <2>1. {t} \subseteq Used(ids)
      BY <1>4 DEF Used
    <2>2. ValueOf(k, new) <= ValueOf(k, Without(its, {t}))
      BY <2>1, ValueLess
    <2>3. /\ ValueOf(k, Without(its, {t})) + Entry(k, its, t) = ValueOf(k, its)
          /\ ValueOf(k, Without(its, {t})) \in Nat
      BY ValueWithout, EntryIs
    <2>4. Entry(k, its, t) = Value(k, its[t]) /\ Entry(k, its, t) \in Nat
      BY <1>4, EntryIs DEF Entry
    <2> HIDE DEF new
    <2> QED
      BY <1>1, <2>2, <2>3, <2>4
  <1> QED
    BY <1>1, <1>3, <1>4

LEMMA BringsChange ==
    ASSUME NEW its \in Items, NEW hid, NEW last \in Nat, NEW next \in Nat, last <= next,
           NEW i \in 1..next, i \notin hid, NEW x \in Item, NEW ids \in Seq(Nat), i \notin ToSet(ids)
    PROVE  LET v == World(its, hid, last)
               w == World(Without(With(its, One(i, x)), Used(ids)), hid, next) IN
             /\ Brings(DestroyObjects(ids) \o <<ItemMessage(i, x), Notification({i})>>, v, w)
             /\ Brings(<<ItemMessage(i, x)>> \o DestroyObjects(ids) \o <<Notification({i})>>, v, w)
  <1> DEFINE less == Without(its, Used(ids))
             more == With(its, One(i, x))
             new == Without(more, Used(ids))
             v == World(its, hid, last)
             w == World(new, hid, next)
             d == DestroyObjects(ids)
  <1>1. PICK m, n : m = <<ItemMessage(i, x)>> /\ n = <<Notification({i})>>
    OBVIOUS
  <1>2. less \in Items /\ more \in Items /\ new \in Items
    <2>1. more \in Items
      BY WithItems
    <2> QED
      BY <2>1, WithoutItems
  <1>3. With(less, One(i, x)) = new
    <2>1. i \notin Used(ids)
      BY UsedIs
    <2> QED
      BY <2>1, WithWithout
  <1>4. {i} \subseteq DOMAIN new \ hid
    <2>1. DOMAIN new = (DOMAIN its \ Used(ids)) \cup {i}
      <3>1. i \notin Used(ids)
        BY UsedIs
      <3> QED
        BY <3>1 DEF Without, With, One
    <2> HIDE DEF new
    <2> QED
      BY <2>1
  <1>5. Brings(d, v, World(less, hid, last))
    BY BringsDestroyObjects
  <1>6. Brings(d, World(more, hid, next), w)
    BY <1>2, BringsDestroyObjects
  <1>7. Brings(m, v, World(more, hid, next))
    BY <1>1, BringsItem
  <1> HIDE DEF more, less, v, d
  <1>8. Brings(m, World(less, hid, last), w)
    <2>1. Brings(m, World(less, hid, last), World(With(less, One(i, x)), hid, next))
      BY <1>1, <1>2, BringsItem
    <2> QED
      BY <1>3, <2>1
  <1> HIDE DEF new
  <1>9. Brings(n, w, w)
    BY <1>1, <1>2, <1>4, BringsNotification
  <1> HIDE DEF w
  <1>10. Brings(d \o (m \o n), v, w)
    <2>1. Brings(m \o n, World(less, hid, last), w)
      BY <1>8, <1>9, BringsThen
    <2> QED
      BY <1>5, <2>1, BringsThen
  <1>11. Brings((m \o d) \o n, v, w)
    <2>1. Brings(m \o d, v, w)
      BY <1>6, <1>7, BringsThen
    <2> QED
      BY <1>9, <2>1, BringsThen
  <1>12. m \o n = <<ItemMessage(i, x), Notification({i})>>
    BY <1>1, PairIs
  <1>13. /\ Brings(d \o <<ItemMessage(i, x), Notification({i})>>, v, w)
         /\ Brings(<<ItemMessage(i, x)>> \o d \o <<Notification({i})>>, v, w)
    BY <1>1, <1>10, <1>11, <1>12
  <1> QED
    BY <1>13 DEF v, w, d, new, more

LEMMA BringsChanges ==
    ASSUME NEW its \in Items, NEW hid, NEW last \in Nat, NEW next \in Nat, last <= next,
           NEW i \in 1..next, i \notin hid, NEW x \in Item,
           NEW j \in 1..next, j \notin hid, NEW y \in Item,
           NEW ids \in Seq(Nat), i \notin ToSet(ids), j \notin ToSet(ids)
    PROVE  LET v == World(its, hid, last)
               w == World(Without(With(With(its, One(i, x)), One(j, y)), Used(ids)), hid, next) IN
             Brings(DestroyObjects(ids) \o <<ItemMessage(i, x), ItemMessage(j, y), Notification({i, j})>>, v, w)
  <1> DEFINE less == Without(its, Used(ids))
             some == With(its, One(i, x))
             one == Without(some, Used(ids))
             new == Without(With(some, One(j, y)), Used(ids))
             v == World(its, hid, last)
             w == World(new, hid, next)
             d == DestroyObjects(ids)
  <1>1. PICK m, n, p : m = <<ItemMessage(i, x)>> /\ n = <<Notification({i, j})>> /\ p = <<ItemMessage(j, y)>>
    OBVIOUS
  <1>2. less \in Items /\ one \in Items /\ new \in Items
    <2>1. some \in Items
      BY WithItems
    <2> HIDE DEF some
    <2>2. With(some, One(j, y)) \in Items
      BY <2>1, WithItems
    <2> QED
      BY <2>1, <2>2, WithoutItems
  <1>3. With(less, One(i, x)) = one /\ With(one, One(j, y)) = new
    <2>1. i \notin Used(ids) /\ j \notin Used(ids)
      BY UsedIs
    <2> QED
      BY <2>1, WithWithout
  <1>4. {i, j} \subseteq DOMAIN new \ hid
    <2>1. /\ DOMAIN one = (DOMAIN its \ Used(ids)) \cup {i}
          /\ DOMAIN new = (DOMAIN some \ Used(ids)) \cup {j}
      <3>1. i \notin Used(ids) /\ j \notin Used(ids)
        BY UsedIs
      <3> QED
        BY <3>1 DEF Without, With, One
    <2>2. i \in DOMAIN some /\ i \notin Used(ids)
      BY UsedIs DEF With, One
    <2> QED
      BY <2>1, <2>2
  <1>5. Brings(d, v, World(less, hid, last))
    BY BringsDestroyObjects
  <1> HIDE DEF less, v, d, some
  <1>6. Brings(m, World(less, hid, last), World(one, hid, next))
    <2>1. Brings(m, World(less, hid, last), World(With(less, One(i, x)), hid, next))
      BY <1>1, <1>2, BringsItem
    <2> QED
      BY <1>3, <2>1
  <1> HIDE DEF one
  <1>7. Brings(p, World(one, hid, next), w)
    <2>1. Brings(p, World(one, hid, next), World(With(one, One(j, y)), hid, next))
      BY <1>1, <1>2, BringsItem
    <2> QED
      BY <1>3, <2>1
  <1> HIDE DEF new
  <1>8. Brings(n, w, w)
    BY <1>1, <1>2, <1>4, BringsNotification
  <1> HIDE DEF w
  <1>9. Brings(d \o ((m \o p) \o n), v, w)
    <2>1. Brings(m \o p, World(less, hid, last), w)
      BY <1>6, <1>7, BringsThen
    <2>2. Brings((m \o p) \o n, World(less, hid, last), w)
      BY <1>8, <2>1, BringsThen
    <2> QED
      BY <1>5, <2>2, BringsThen
  <1>10. (m \o p) \o n = <<ItemMessage(i, x), ItemMessage(j, y), Notification({i, j})>>
    BY <1>1, PairIs, TripleIs
  <1>11. Brings(d \o <<ItemMessage(i, x), ItemMessage(j, y), Notification({i, j})>>, v, w)
    BY <1>9, <1>10
  <1> QED
    BY <1>11 DEF v, w, d, new, some

-------------------------------------------------------------------------------
(* The invariant.                                                          *)

\* Clones are of base items, and customized but for the ones of a list.
Clones(its, plain) ==
    /\ plain \subseteq DOMAIN its
    /\ \A i \in DOMAIN its :
         /\ its[i].clone => its[i].def \in BaseItems
         /\ IsUncustomizedBaseItemClone(its[i]) => i \in plain
         /\ i \in plain => its[i].clone

ToolsIInv ==
    /\ ToolsTypeOK
    /\ NothingFromNothing
    /\ Heard(game, toGame, World(items, hidden, lastId))
    /\ Clones(items, bare)

LEMMA ToolsIs ==
    ASSUME ToolsIInv
    PROVE  /\ items \in Inventories /\ items \in Items /\ items = [j \in Held |-> items[j]]
           /\ MaxId \in Nat /\ lastId \in Nat /\ Held \subseteq 1..lastId /\ 1..lastId \subseteq 1..MaxId
           /\ \A i \in Held : items[i] \in Item /\ i \in Nat
           /\ \A k \in {1, 2} : ValueOf(k, items) \in Nat
           /\ DOMAIN game \cap hidden = {}
           /\ lastId + 1 \notin hidden /\ lastId + 2 \notin hidden
  <1>1. /\ lastId \in 0..MaxId /\ Held \subseteq 1..lastId /\ items \in [Held -> Item]
        /\ hidden \subseteq Held
    BY DEF ToolsIInv, ToolsTypeOK
  <1>2. MaxId \in Nat
    BY ItemToolsAssumption
  <1>3. lastId \in Nat /\ 1..lastId \subseteq 1..MaxId /\ lastId + 1 \notin 1..lastId /\ lastId + 2 \notin 1..lastId
    BY <1>1, <1>2
  <1>4. items \in Inventories
    BY <1>1, <1>3, InventoriesAre DEF Held
  <1>5. items \in Items
    BY <1>1, ItemsAre DEF Held
  <1>6. \A i \in Held : items[i] \in Item /\ i \in Nat
    BY <1>1
  <1>7. \A k \in {1, 2} : ValueOf(k, items) \in Nat
    BY <1>4, EntryIs
  <1>8. DOMAIN game \cap hidden = {}
    <2>1. Heard(game, toGame, World(items, hidden, lastId))
      BY DEF ToolsIInv
    <2>2. World(items, hidden, lastId).hidden = hidden
      BY DEF World
    <2> QED
      BY <2>1, <2>2, HeardIs
  <1> QED
    BY <1>1, <1>2, <1>3, <1>4, <1>5, <1>6, <1>7, <1>8

LEMMA ValueNames == \A its : ValueOf(1, its) = WorthOf(its) /\ ValueOf(2, its) = KillsOf(its)
  BY DEF ValueOf

\* An operation that sends these messages and gives nothing.
Dealt(messages) ==
    /\ lastId' \in lastId..MaxId /\ Held' \subseteq 1..lastId' /\ items' \in [Held' -> Item]
    /\ toGame' = toGame \o messages /\ UNCHANGED <<game, destroyUsedItems, granted>>
    /\ hidden' \subseteq Held'
    /\ Brings(messages, World(items, hidden, lastId), World(items', hidden', lastId'))
    /\ Clones(items', bare')
    /\ ValueOf(2, items') <= ValueOf(2, items)
    /\ destroyUsedItems => ValueOf(1, items') <= ValueOf(1, items)

LEMMA DealtIInv ==
    ASSUME ToolsIInv, NEW messages, Dealt(messages)
    PROVE  ToolsIInv'
  <1>1. ToolsTypeOK
    BY DEF ToolsIInv
  <1>2. lastId' \in 0..MaxId /\ MaxId \in Nat
    BY <1>1, ItemToolsAssumption DEF Dealt, ToolsTypeOK
  <1>3. ToolsTypeOK'
    BY <1>1, <1>2 DEF ToolsTypeOK, Dealt, Clones, Held
  <1>4. NothingFromNothing'
    <2>1. NothingFromNothing
      BY DEF ToolsIInv
    <2>2. items' \in Inventories
      <3>1. 1..lastId' \subseteq 1..MaxId
        BY <1>2
      <3> QED
        BY <3>1, InventoriesAre DEF Dealt, Held
    <2>3. \A k \in {1, 2} : ValueOf(k, items) \in Nat /\ ValueOf(k, items') \in Nat
      BY <2>2, ToolsIs, EntryIs
    <2>4. /\ KillsOf(items) \in Nat /\ WorthOf(items) \in Nat /\ KillsOf(items') \in Nat /\ WorthOf(items') \in Nat
          /\ KillsOf(items') <= KillsOf(items)
          /\ destroyUsedItems => WorthOf(items') <= WorthOf(items)
          /\ granted' = granted /\ destroyUsedItems' = destroyUsedItems
      BY <2>3, ValueNames DEF Dealt
    <2>5. granted.worth \in Nat /\ granted.kills \in Nat
      BY <1>1 DEF ToolsTypeOK
    <2>6. KillsOf(items') <= granted'.kills
      BY <2>1, <2>4, <2>5 DEF NothingFromNothing
    <2>7. destroyUsedItems' => WorthOf(items') <= granted'.worth
      BY <2>1, <2>4, <2>5 DEF NothingFromNothing
    <2>8. KillsOf(items)' = KillsOf(items') /\ WorthOf(items)' = WorthOf(items')
      BY DEF KillsOf, WorthOf
    <2> QED
      BY <2>6, <2>7, <2>8 DEF NothingFromNothing
  <1>5. Heard(game', toGame', World(items', hidden', lastId'))
    BY HeardMore DEF ToolsIInv, Dealt
  <1> QED
    BY <1>3, <1>4, <1>5 DEF ToolsIInv, Dealt

LEMMA GameReceivesIInv == ASSUME ToolsIInv, GameReceives PROVE ToolsIInv'
  <1>1. /\ toGame # <<>> /\ game' = Apply(game, Head(toGame)) /\ toGame' = Tail(toGame)
        /\ UNCHANGED <<items, lastId, destroyUsedItems, granted, hidden, bare>>
    BY DEF GameReceives, inventory
  <1>2. Heard(game', toGame', World(items', hidden', lastId'))
    BY <1>1, HeardNext DEF ToolsIInv
  <1>3. ToolsTypeOK' /\ NothingFromNothing'
    BY <1>1 DEF ToolsIInv, ToolsTypeOK, NothingFromNothing, Held, KillsOf, WorthOf
  <1> QED
    BY <1>1, <1>2, <1>3 DEF ToolsIInv

LEMMA RefreshInventoryIInv == ASSUME ToolsIInv, RefreshInventory PROVE ToolsIInv'
  <1> DEFINE ms == <<Snapshot>>
  <1>1. /\ toGame' = toGame \o ms /\ UNCHANGED <<items, lastId, game, destroyUsedItems, granted, bare>>
        /\ hidden' = {}
    BY DEF RefreshInventory, Send, inventory
  <1>2. Brings(ms, World(items, hidden, lastId), World(items', hidden', lastId'))
    <2>1. Snapshot = [kind |-> "snapshot", items |-> items]
      BY DEF Snapshot
    <2>2. Brings(<<[kind |-> "snapshot", items |-> items]>>, World(items, hidden, lastId), World(items, {}, lastId))
      BY ToolsIs, BringsSnapshot
    <2> QED
      BY <1>1, <2>1, <2>2
  <1> HIDE DEF ms
  <1>3. /\ lastId' \in lastId..MaxId /\ Held' \subseteq 1..lastId' /\ items' \in [Held' -> Item]
        /\ hidden' \subseteq Held'
    BY <1>1, ToolsIs, ItemToolsAssumption DEF ToolsIInv, ToolsTypeOK, Held
  <1>4. ValueOf(2, items') <= ValueOf(2, items) /\ ValueOf(1, items') <= ValueOf(1, items)
    BY <1>1, ToolsIs
  <1>5. Clones(items', bare')
    BY <1>1 DEF ToolsIInv
  <1>6. Dealt(ms)
    BY <1>1, <1>2, <1>3, <1>4, <1>5 DEF Dealt
  <1> QED
    BY <1>6, DealtIInv

-------------------------------------------------------------------------------
(* The operations on one item.                                             *)

\* What every operation that sends messages keeps, whatever becomes of the items.
Sent(messages) == toGame' = toGame \o messages /\ UNCHANGED <<game, destroyUsedItems, granted>>

LEMMA DestroyedIInv ==
    ASSUME ToolsIInv, NEW i \in Held, NEW messages, Sent(messages),
           items' = Without(items, {i}), lastId' = lastId, bare' = bare \ {i},
           hidden' = hidden \/ hidden' = hidden \ {i}, i \in hidden => hidden' = hidden \ {i},
           \/ messages = <<DestroyObject(i)>>
           \/ messages = <<DestroyObject(i), Notification({})>>
    PROVE  ToolsIInv'
  <1> DEFINE new == Without(items, {i})
             v == World(items, hidden, lastId)
             w == World(new, hidden', lastId)
  <1>1. PICK m, n : m = <<DestroyObject(i)>> /\ n = <<Notification({})>>
    OBVIOUS
  <1>2. new \in Items /\ i \in Nat /\ lastId \in Nat /\ items \in Items
    <2>1. items \in Items /\ i \in Nat /\ lastId \in Nat
      BY ToolsIs
    <2> QED
      BY <2>1, WithoutItems
  <1>3. Brings(m, v, w)
    <2>1. PICK less : less = hidden'
      OBVIOUS
    <2>2. Brings(<<DestroyObject(i)>>, v, World(new, less, lastId))
      BY <1>2, <2>1, BringsDestroy
    <2> QED
      BY <1>1, <2>1, <2>2
  <1>4. Brings(n, w, w)
    <2>1. PICK less : less = hidden'
      OBVIOUS
    <2>2. Brings(<<Notification({})>>, World(new, less, lastId), World(new, less, lastId))
      <3>1. {} \subseteq DOMAIN new \ less
        OBVIOUS
      <3> QED
        BY <1>2, <3>1, BringsNotification
    <2> QED
      BY <1>1, <2>1, <2>2
  <1>5. Brings(messages, v, w)
    <2>1. Brings(m \o n, v, w)
      BY <1>3, <1>4, BringsThen
    <2>2. m \o n = <<DestroyObject(i), Notification({})>>
      BY <1>1, PairIs
    <2> QED
      BY <1>1, <1>3, <2>1, <2>2
  <1>6. DOMAIN new = Held \ {i} /\ \A j \in Held \ {i} : new[j] = items[j]
    BY WithoutIs DEF Held
  <1>7. new \in [DOMAIN new -> Item]
    BY <1>2, ItemsAre
  <1>8. \A k \in {1, 2} : ValueOf(k, new) <= ValueOf(k, items)
    <2>1. ASSUME NEW k \in {1, 2} PROVE ValueOf(k, new) <= ValueOf(k, items)
      <3>1. items \in Inventories /\ ValueOf(k, items) \in Nat
        BY ToolsIs
      <3>2. /\ ValueOf(k, new) + Entry(k, items, i) = ValueOf(k, items)
            /\ new \in Inventories /\ Entry(k, items, i) \in Nat
        BY <3>1, ValueWithout, EntryIs
      <3>3. ValueOf(k, new) \in Nat
        BY <3>2, EntryIs
      <3> QED
        BY <3>1, <3>2, <3>3
    <2> QED
      BY <2>1
  <1>9. Clones(new, bare \ {i})
    BY <1>6 DEF ToolsIInv, Clones, Held
  <1>10. lastId \in lastId..MaxId /\ Held \subseteq 1..lastId /\ hidden \subseteq Held
    BY DEF ToolsIInv, ToolsTypeOK
  <1>11. hidden' \subseteq DOMAIN new
    BY <1>6, <1>10
  <1>12. Held' = DOMAIN new
    BY DEF Held
  <1> HIDE DEF new, v
  <1>13. Dealt(messages)
    <2>1. items' = new
      BY DEF new
    <2>2. Brings(messages, World(items, hidden, lastId), World(items', hidden', lastId'))
      BY <1>5, <2>1 DEF v
    <2> HIDE DEF w
    <2> QED
      BY <1>6, <1>7, <1>8, <1>9, <1>10, <1>11, <1>12, <2>1, <2>2 DEF Dealt, Sent
  <1> QED
    BY <1>13, DealtIInv

LEMMA ChangedIInv ==
    ASSUME ToolsIInv, NEW i \in Held \ hidden, NEW messages, Sent(messages), NEW x \in Item,
           items' = [items EXCEPT ![i] = x], lastId' = lastId, hidden' = hidden,
           bare' = bare \/ bare' = bare \ {i},
           x.def = items[i].def, x.clone = items[i].clone,
           IsUncustomizedBaseItemClone(x) => i \in bare',
           Worth(x) <= Worth(items[i]), Kills(x) <= Kills(items[i]),
           \/ messages = <<ItemMessage(i, x)>>
           \/ messages = <<ItemMessage(i, x), Notification({i})>>
    PROVE  ToolsIInv'
  <1> DEFINE new == With(items, One(i, x))
             v == World(items, hidden, lastId)
             w == World(new, hidden, lastId)
  <1>1. PICK m, n : m = <<ItemMessage(i, x)>> /\ n = <<Notification({i})>>
    OBVIOUS
  <1>2. /\ items \in Items /\ items \in Inventories /\ i \in 1..lastId /\ lastId \in Nat /\ i \in 1..MaxId
        /\ items = [j \in DOMAIN items |-> items[j]] /\ i \in DOMAIN items
    BY ToolsIs DEF Held
  <1>3. new \in Items
    BY <1>2, WithItems
  <1>4. items' = new
    BY <1>2, ExceptIs
  <1>5. DOMAIN new = Held /\ new[i] = x /\ \A j \in Held : j # i => new[j] = items[j]
    BY DEF With, One, Held
  <1>6. Brings(m, v, w)
    BY <1>1, <1>2, BringsItem
  <1>7. Brings(n, w, w)
    <2>1. {i} \subseteq DOMAIN new \ hidden
      BY <1>5
    <2> HIDE DEF new
    <2> QED
      BY <1>1, <1>2, <1>3, <2>1, BringsNotification
  <1>8. Brings(messages, v, w)
    <2>1. Brings(m \o n, v, w)
      BY <1>6, <1>7, BringsThen
    <2>2. m \o n = <<ItemMessage(i, x), Notification({i})>>
      BY <1>1, PairIs
    <2> QED
      BY <1>1, <1>6, <2>1, <2>2
  <1>9. \A k \in {1, 2} : ValueOf(k, new) <= ValueOf(k, items)
    <2>1. ASSUME NEW k \in {1, 2} PROVE ValueOf(k, new) <= ValueOf(k, items)
      <3>1. ValueOf(k, items) \in Nat
        BY ToolsIs
      <3>2. /\ new \in Inventories
            /\ ValueOf(k, new) + Entry(k, items, i) = ValueOf(k, items) + Value(k, x)
            /\ Value(k, x) \in Nat /\ Entry(k, items, i) \in Nat
        BY <1>2, ValueWith, EntryIs
      <3>3. ValueOf(k, new) \in Nat
        BY <3>2, EntryIs
      <3>4. Value(k, x) <= Entry(k, items, i)
        BY <1>2 DEF Entry, Value
      <3> QED
        BY <3>1, <3>2, <3>3, <3>4
    <2> QED
      BY <2>1
  <1>10. Clones(new, bare')
    BY <1>5 DEF ToolsIInv, Clones, Held
  <1>11. lastId \in lastId..MaxId /\ Held \subseteq 1..lastId /\ hidden \subseteq Held
    BY DEF ToolsIInv, ToolsTypeOK
  <1>12. Held' = DOMAIN new /\ new \in [DOMAIN new -> Item]
    BY <1>3, <1>4, ItemsAre DEF Held
  <1> HIDE DEF new
  <1>13. Dealt(messages)
    BY <1>4, <1>5, <1>8, <1>9, <1>10, <1>11, <1>12 DEF Dealt, Sent
  <1> QED
    BY <1>13, DealtIInv

LEMMA RemoveItemIInv == ASSUME ToolsIInv, NEW i \in Held, RemoveItem(i) PROVE ToolsIInv'
  <1>1. Sent(<<DestroyObject(i)>>)
    BY DEF RemoveItem, Send, Sent
  <1>2. /\ items' = Without(items, {i}) /\ lastId' = lastId
        /\ hidden' = hidden \ {i} /\ bare' = bare \ {i}
    BY DEF RemoveItem
  <1> QED
    BY <1>1, <1>2, DestroyedIInv

LEMMA RemoveItemNameIInv ==
    ASSUME ToolsIInv, NEW i \in DOMAIN game, RemoveItemName(i) PROVE ToolsIInv'
  <1> DEFINE unnamed == [items[i] EXCEPT !.named = FALSE]
  <1>1. i \in Held /\ UNCHANGED <<lastId, granted, hidden>> /\ bare' = bare \ {i}
    BY DEF RemoveItemName
  <1>2. i \notin hidden /\ items[i] \in Item
    BY <1>1, ToolsIs
  <1>3. /\ unnamed \in Item /\ unnamed.def = items[i].def /\ unnamed.clone = items[i].clone
        /\ Worth(unnamed) <= Worth(items[i]) /\ Kills(unnamed) <= Kills(items[i])
    <2>1. FALSE \in BOOLEAN
      OBVIOUS
    <2>2. Kills(items[i]) \in Nat
      BY <1>2, WorthIs
    <2>3. /\ unnamed \in Item /\ unnamed.def = items[i].def /\ unnamed.clone = items[i].clone
          /\ Worth(unnamed) <= Worth(items[i]) /\ Kills(unnamed) = Kills(items[i])
      BY <1>2, <2>1, NamedIs
    <2> QED
      BY <2>2, <2>3
  <1>4. CASE IsUncustomizedBaseItemClone(unnamed)
    <2>1. items' = Without(items, {i}) /\ Sent(<<DestroyObject(i), Notification({})>>)
      BY <1>1, <1>4 DEF RemoveItemName, Send, Sent
    <2> QED
      BY <1>1, <1>2, <2>1, DestroyedIInv
  <1>5. CASE ~IsUncustomizedBaseItemClone(unnamed)
    <2>1. items' = [items EXCEPT ![i] = unnamed] /\ Send(<<ItemObject(i), Notification({i})>>)
      BY <1>5 DEF RemoveItemName
    <2>2. ItemObject(i) = ItemMessage(i, unnamed)
      BY <1>1, <2>1, ToolsIs DEF ItemObject, ItemMessage, Held
    <2>3. Sent(<<ItemMessage(i, unnamed), Notification({i})>>)
      BY <1>1, <2>1, <2>2 DEF Send, Sent
    <2> HIDE DEF unnamed
    <2> QED
      BY <1>1, <1>2, <1>3, <1>5, <2>1, <2>3, ChangedIInv
  <1> QED
    BY <1>4, <1>5

LEMMA ScrapeStickerIInv ==
    ASSUME ToolsIInv, NEW i \in DOMAIN game, NEW slot \in Slots, ScrapeSticker(i, slot) PROVE ToolsIInv'
  <1> DEFINE wear == Wear(items[i], slot)
             clean == [items[i] EXCEPT !.stickers[slot] = <<>>]
             worn == [items[i] EXCEPT !.stickers[slot][1] = @ + 1]
  <1>1. i \in Held /\ UNCHANGED <<lastId, granted, hidden>>
    BY DEF ScrapeSticker
  <1>2. i \notin hidden /\ items[i] \in Item /\ Worth(items[i]) \in Nat /\ Kills(items[i]) \in Nat
    BY <1>1, ToolsIs, WorthIs
  <1>3. CASE /\ wear # none /\ wear < MaxWear
             /\ items' = [items EXCEPT ![i].stickers[slot][1] = @ + 1]
             /\ Send(<<ItemObject(i)>>)
             /\ UNCHANGED bare
    <2>1. /\ worn \in Item /\ worn.def = items[i].def /\ worn.clone = items[i].clone
          /\ Worth(worn) = Worth(items[i]) /\ Kills(worn) = Kills(items[i])
          /\ ~IsUncustomizedBaseItemClone(worn)
      BY <1>2, <1>3, WornIs
    <2>2. items' = [items EXCEPT ![i] = worn]
      BY <1>3
    <2>3. ItemObject(i) = ItemMessage(i, worn)
      BY <1>1, <2>2, ToolsIs DEF ItemObject, ItemMessage, Held
    <2>4. Sent(<<ItemMessage(i, worn)>>)
      BY <1>1, <1>3, <2>3 DEF Send, Sent
    <2> HIDE DEF worn
    <2>5. Worth(worn) <= Worth(items[i]) /\ Kills(worn) <= Kills(items[i])
      BY <1>2, <2>1
    <2> QED
      BY <1>1, <1>2, <1>3, <2>1, <2>2, <2>4, <2>5, ChangedIInv
  <1>4. CASE /\ IF IsUncustomizedBaseItemClone(clean)
                THEN /\ items' = Without(items, {i})
                     /\ Send(<<DestroyObject(i), Notification({})>>)
                ELSE /\ items' = [items EXCEPT ![i] = clean]
                     /\ Send(<<ItemObject(i), Notification({i})>>)
             /\ bare' = bare \ {i}
    <2>1. CASE IsUncustomizedBaseItemClone(clean)
      <3>1. items' = Without(items, {i}) /\ Sent(<<DestroyObject(i), Notification({})>>)
        BY <1>1, <1>4, <2>1 DEF Send, Sent
      <3> QED
        BY <1>1, <1>2, <1>4, <3>1, DestroyedIInv
    <2>2. CASE ~IsUncustomizedBaseItemClone(clean)
      <3>1. items' = [items EXCEPT ![i] = clean] /\ Send(<<ItemObject(i), Notification({i})>>)
        BY <1>4, <2>2
      <3>2. /\ clean \in Item /\ clean.def = items[i].def /\ clean.clone = items[i].clone
            /\ Worth(clean) <= Worth(items[i]) /\ Kills(clean) = Kills(items[i])
        BY <1>2, CleanIs
      <3>3. ItemObject(i) = ItemMessage(i, clean)
        BY <1>1, <3>1, ToolsIs DEF ItemObject, ItemMessage, Held
      <3>4. Sent(<<ItemMessage(i, clean), Notification({i})>>)
        BY <1>1, <3>1, <3>3 DEF Send, Sent
      <3> HIDE DEF clean
      <3>5. Kills(clean) <= Kills(items[i])
        BY <1>2, <3>2
      <3> QED
        BY <1>1, <1>2, <1>4, <2>2, <3>1, <3>2, <3>4, <3>5, ChangedIInv
    <2> QED
      BY <2>1, <2>2
  <1> QED
    BY <1>3, <1>4 DEF ScrapeSticker

LEMMA CreateRconItemIInv ==
    ASSUME ToolsIInv, NEW item \in Gifts, CreateRconItem(item) PROVE ToolsIInv'
  <1> DEFINE i == lastId + 1
             new == With(items, One(i, item))
             v == World(items, hidden, lastId)
             w == World(new, hidden, i)
  <1>1. item \in Item /\ ~item.clone /\ MaxId \in Nat
    BY ItemToolsAssumption
  <1>2. lastId + Len(<<item>>) <= MaxId /\ lastId' = lastId + Len(<<item>>)
    BY DEF CreateRconItem, Create
  <1>3. lastId \in Nat /\ i \in Nat /\ i <= MaxId /\ lastId' = i /\ i \in 1..MaxId /\ i \in 1..i /\ lastId <= i
    BY <1>1, <1>2, ToolsIs
  <1>4. /\ items' = new /\ UNCHANGED <<hidden, bare>> /\ Grant(item)
        /\ toGame' = toGame \o <<ItemObject(i)>> /\ UNCHANGED <<game, destroyUsedItems>>
    BY <1>3 DEF CreateRconItem, Send
  <1>5. /\ items \in Items /\ items \in Inventories /\ Held \subseteq 1..lastId
        /\ hidden \subseteq Held /\ i \notin hidden /\ i \notin Held
    <2>1. i \notin 1..lastId
      BY <1>3
    <2> QED
      BY <2>1, ToolsIs DEF ToolsIInv, ToolsTypeOK
  <1>6. DOMAIN new = Held \cup {i} /\ new[i] = item /\ \A j \in Held : new[j] = items[j]
    BY <1>5 DEF With, One, Held
  <1>7. new \in Items /\ new \in Inventories
    BY <1>1, <1>3, <1>5, WithItems
  <1>8. Brings(<<ItemMessage(i, item)>>, v, w)
    BY <1>1, <1>3, <1>5, BringsItem
  <1>9. ItemObject(i) = ItemMessage(i, item)
    BY <1>4, <1>6 DEF ItemObject, ItemMessage
  <1> HIDE DEF new, i
  <1>10. Heard(game', toGame', World(items', hidden', lastId'))
    <2>1. PICK m : m = <<ItemMessage(i, item)>>
      OBVIOUS
    <2>2. Heard(game, toGame, v) /\ Brings(m, v, w)
      BY <1>8, <2>1 DEF ToolsIInv
    <2>3. Heard(game, toGame \o m, w)
      BY <2>2, HeardMore
    <2> QED
      BY <1>3, <1>4, <1>9, <2>1, <2>3
  <1>11. Clones(items', bare')
    <2>1. ~IsUncustomizedBaseItemClone(item)
      BY <1>1 DEF IsUncustomizedBaseItemClone
    <2>2. Clones(items, bare)
      BY DEF ToolsIInv
    <2> QED
      BY <1>1, <1>4, <1>5, <1>6, <2>1, <2>2 DEF Clones, Held
  <1>12. ToolsTypeOK
    BY DEF ToolsIInv
  <1>13. Worth(item) \in Nat /\ Kills(item) \in Nat /\ granted.worth \in Nat /\ granted.kills \in Nat
    BY <1>1, <1>12, WorthIs DEF ToolsTypeOK
  <1>14. /\ granted' = [worth |-> granted.worth + Worth(item), kills |-> granted.kills + Kills(item)]
         /\ granted'.worth = granted.worth + Worth(item) /\ granted'.kills = granted.kills + Kills(item)
    BY <1>4 DEF Grant
  <1>15. ToolsTypeOK'
    <2>1. granted' \in [worth : Nat, kills : Nat]
      BY <1>13, <1>14
    <2>2. lastId' \in 0..MaxId /\ Held \cup {i} \subseteq 1..lastId'
      <3>1. 1..lastId \subseteq 1..i
        BY <1>3 DEF i
      <3> QED
        BY <1>1, <1>3, <1>5, <3>1
    <2>3. Held' = Held \cup {i} /\ items' \in [Held' -> Item]
      BY <1>4, <1>6, <1>7, ItemsAre DEF Held
    <2>4. hidden' \subseteq Held' /\ bare' \subseteq Held' /\ destroyUsedItems' \in BOOLEAN
      BY <1>4, <1>12, <2>3 DEF ToolsTypeOK
    <2> QED
      BY <2>1, <2>2, <2>3, <2>4 DEF ToolsTypeOK
  <1>16. NothingFromNothing'
    <2>1. \A k \in {1, 2} : /\ ValueOf(k, new) = ValueOf(k, items) + Value(k, item)
                            /\ ValueOf(k, items) \in Nat /\ Value(k, item) \in Nat
      <3>1. ASSUME NEW k \in {1, 2}
            PROVE  /\ ValueOf(k, new) = ValueOf(k, items) + Value(k, item)
                   /\ ValueOf(k, items) \in Nat /\ Value(k, item) \in Nat
        <4>1. /\ ValueOf(k, new) + Entry(k, items, i) = ValueOf(k, items) + Value(k, item)
              /\ Value(k, item) \in Nat
          BY <1>1, <1>3, <1>5, ValueWith DEF new
        <4>2. Entry(k, items, i) = 0
          BY <1>5 DEF Entry, Held
        <4>3. ValueOf(k, items) \in Nat /\ ValueOf(k, new) \in Nat
          BY <1>5, <1>7, EntryIs
        <4> QED
          BY <4>1, <4>2, <4>3
      <3> QED
        BY <3>1
    <2>2. /\ KillsOf(new) = KillsOf(items) + Kills(item) /\ WorthOf(new) = WorthOf(items) + Worth(item)
          /\ KillsOf(items) \in Nat /\ WorthOf(items) \in Nat
      BY <2>1, ValueNames DEF Value
    <2>3. NothingFromNothing
      BY DEF ToolsIInv
    <2>4. KillsOf(new) <= granted'.kills
      BY <1>13, <1>14, <2>2, <2>3 DEF NothingFromNothing
    <2>5. destroyUsedItems' => WorthOf(new) <= granted'.worth
      BY <1>4, <1>13, <1>14, <2>2, <2>3 DEF NothingFromNothing
    <2>6. KillsOf(items)' = KillsOf(new) /\ WorthOf(items)' = WorthOf(new)
      BY <1>4 DEF KillsOf, WorthOf
    <2> QED
      BY <2>4, <2>5, <2>6 DEF NothingFromNothing
  <1> QED
    BY <1>10, <1>11, <1>15, <1>16 DEF ToolsIInv

-------------------------------------------------------------------------------
(* The operations that use up items on another one, or make another one    *)
(* of them.                                                                *)

\* Item i, of the inventory or new, becomes x, and one of the used items pays for it.
UsedOn(messages, ids, tool, i, x) ==
    /\ Sent(messages)
    /\ ids \in Seq(Held \ hidden) /\ \A j \in ToSet(ids) : ~items[j].clone
    /\ tool \in ToSet(ids)
    /\ lastId' \in lastId..MaxId /\ hidden' = hidden
    /\ i \in 1..lastId' /\ i \notin hidden /\ i \notin ToSet(ids) /\ x \in Item
    /\ items' = Without(With(items, One(i, x)), Used(ids))
    /\ x.clone => x.def \in BaseItems
    /\ i \in bare' => x.clone
    /\ IsUncustomizedBaseItemClone(x) => i \in bare'
    /\ bare' \ {i} = bare \ {i}
    /\ Value(1, x) <= Entry(1, items, i) + Value(1, items[tool])
    /\ Value(2, x) <= Entry(2, items, i)
    /\ \/ messages = DestroyObjects(ids) \o <<ItemMessage(i, x), Notification({i})>>
       \/ messages = <<ItemMessage(i, x)>> \o DestroyObjects(ids) \o <<Notification({i})>>

LEMMA UsedOnIInv ==
    ASSUME ToolsIInv, NEW messages, NEW ids, NEW tool, NEW i, NEW x, UsedOn(messages, ids, tool, i, x)
    PROVE  ToolsIInv'
  <1>0. /\ Sent(messages)
        /\ ids \in Seq(Held \ hidden) /\ \A j \in ToSet(ids) : ~items[j].clone
        /\ tool \in ToSet(ids)
        /\ lastId' \in lastId..MaxId /\ hidden' = hidden
        /\ i \in 1..lastId' /\ i \notin hidden /\ i \notin ToSet(ids) /\ x \in Item
        /\ items' = Without(With(items, One(i, x)), Used(ids))
        /\ x.clone => x.def \in BaseItems
        /\ i \in bare' => x.clone
        /\ IsUncustomizedBaseItemClone(x) => i \in bare'
        /\ bare' \ {i} = bare \ {i}
        /\ Value(1, x) <= Entry(1, items, i) + Value(1, items[tool])
        /\ Value(2, x) <= Entry(2, items, i)
        /\ \/ messages = DestroyObjects(ids) \o <<ItemMessage(i, x), Notification({i})>>
           \/ messages = <<ItemMessage(i, x)>> \o DestroyObjects(ids) \o <<Notification({i})>>
    BY DEF UsedOn
  <1> DEFINE more == With(items, One(i, x))
             new == Without(more, Used(ids))
             v == World(items, hidden, lastId)
             w == World(new, hidden, lastId')
  <1>1. /\ items \in Items /\ items \in Inventories /\ lastId \in Nat /\ lastId' \in Nat /\ lastId <= lastId'
        /\ MaxId \in Nat /\ lastId' <= MaxId /\ i \in 1..MaxId
        /\ Held \subseteq 1..lastId /\ \A j \in Held : items[j] \in Item /\ j \in Nat
    BY <1>0, ToolsIs
  <1>2. /\ DOMAIN new = (Held \ Used(ids)) \cup {i} /\ new[i] = x
        /\ \A j \in DOMAIN new : j # i => new[j] = items[j]
    <2>1. i \notin Used(ids)
      BY <1>0, UsedIs
    <2> QED
      BY <2>1 DEF Without, With, One, Held
  <1>3. /\ DOMAIN more = Held \cup {i} /\ more[i] = x
        /\ \A j \in Held : j # i => more[j] = items[j]
    BY DEF With, One, Held
  <1>4. ToSet(ids) \subseteq Held \ hidden /\ ids \in Seq(Nat)
    <2>1. PICK S : S = Held \ hidden
      OBVIOUS
    <2>2. ids \in Seq(S) /\ S \subseteq Nat
      BY <1>0, <1>1, <2>1
    <2>3. Len(ids) \in Nat /\ ids = [n \in 1..Len(ids) |-> ids[n]] /\ \A n \in 1..Len(ids) : ids[n] \in S
      BY <2>2
    <2>4. ids \in Seq(Nat)
      BY <2>2, <2>3
    <2> QED
      BY <2>1, <2>3, <2>4 DEF ToSet
  <1>5. Used(ids) \subseteq ToSet(ids)
    BY <1>0 DEF Used
  <1>6. Brings(messages, v, w)
    <2>1. PICK last, next : last = lastId /\ next = lastId'
      OBVIOUS
    <2>2. LET w1 == World(new, hidden, next) IN
            /\ Brings(DestroyObjects(ids) \o <<ItemMessage(i, x), Notification({i})>>,
                      World(items, hidden, last), w1)
            /\ Brings(<<ItemMessage(i, x)>> \o DestroyObjects(ids) \o <<Notification({i})>>,
                      World(items, hidden, last), w1)
      BY <1>0, <1>1, <1>4, <2>1, BringsChange
    <2> HIDE DEF new
    <2> QED
      BY <1>0, <2>1, <2>2
  <1>7. more \in Inventories
    BY <1>0, <1>1, WithItems
  <1>8. new \in [DOMAIN new -> Item]
    BY <1>7, WithoutItems, InventoriesAre
  <1> HIDE DEF more
  <1>9. ASSUME NEW k \in {1, 2}
        PROVE  /\ ValueOf(k, new) \in Nat /\ ValueOf(k, items) \in Nat /\ ValueOf(k, more) \in Nat
               /\ ValueOf(k, new) <= ValueOf(k, more)
               /\ destroyUsedItems => ValueOf(k, new) + Value(k, items[tool]) <= ValueOf(k, more)
               /\ ValueOf(k, more) + Entry(k, items, i) = ValueOf(k, items) + Value(k, x)
               /\ Entry(k, items, i) \in Nat /\ Value(k, x) \in Nat /\ Value(k, items[tool]) \in Nat
    <2>1. /\ ValueOf(k, new) \in Nat /\ ValueOf(k, new) <= ValueOf(k, more)
          /\ destroyUsedItems => \A t \in ToSet(ids) \cap DOMAIN more :
                                   ValueOf(k, new) + Value(k, more[t]) <= ValueOf(k, more)
      BY <1>7, ValueUsed
    <2>2. tool \in ToSet(ids) \cap DOMAIN more /\ more[tool] = items[tool] /\ items[tool] \in Item
      BY <1>0, <1>1, <1>3, <1>4
    <2>3. ValueOf(k, items) \in Nat /\ ValueOf(k, more) \in Nat /\ Entry(k, items, i) \in Nat
      BY <1>1, <1>7, EntryIs
    <2>4. ValueOf(k, more) + Entry(k, items, i) = ValueOf(k, items) + Value(k, x) /\ Value(k, x) \in Nat
      BY <1>0, <1>1, ValueWith DEF more
    <2>5. Value(k, items[tool]) \in Nat
      BY <2>2, WorthIs DEF Value
    <2> HIDE DEF new
    <2> QED
      BY <2>1, <2>2, <2>3, <2>4, <2>5
  <1> HIDE DEF new
  <1>10. ValueOf(2, new) <= ValueOf(2, items)
    <2>1. /\ ValueOf(2, new) \in Nat /\ ValueOf(2, items) \in Nat /\ ValueOf(2, more) \in Nat
          /\ ValueOf(2, new) <= ValueOf(2, more)
          /\ ValueOf(2, more) + Entry(2, items, i) = ValueOf(2, items) + Value(2, x)
          /\ Entry(2, items, i) \in Nat /\ Value(2, x) \in Nat
      BY <1>9
    <2> QED
      BY <1>0, <2>1
  <1>11. destroyUsedItems => ValueOf(1, new) <= ValueOf(1, items)
    <2>1. /\ ValueOf(1, new) \in Nat /\ ValueOf(1, items) \in Nat /\ ValueOf(1, more) \in Nat
          /\ destroyUsedItems => ValueOf(1, new) + Value(1, items[tool]) <= ValueOf(1, more)
          /\ ValueOf(1, more) + Entry(1, items, i) = ValueOf(1, items) + Value(1, x)
          /\ Entry(1, items, i) \in Nat /\ Value(1, x) \in Nat /\ Value(1, items[tool]) \in Nat
      BY <1>9
    <2> QED
      BY <1>0, <2>1
  <1>12. Clones(new, bare')
    <2>1. Clones(items, bare)
      BY <1>0 DEF ToolsIInv
    <2>2. \A j \in bare' : j # i => j \in Held /\ j \notin Used(ids)
      BY <1>0, <1>4, <1>5, <2>1 DEF Clones, Held
    <2>3. bare' \subseteq DOMAIN new
      BY <1>2, <2>2
    <2>4. ASSUME NEW j \in DOMAIN new
          PROVE  /\ new[j].clone => new[j].def \in BaseItems
                 /\ IsUncustomizedBaseItemClone(new[j]) => j \in bare'
                 /\ j \in bare' => new[j].clone
      <3>1. CASE j = i
        BY <1>0, <1>2, <3>1
      <3>2. CASE j # i
        <4>1. j \in Held /\ new[j] = items[j]
          BY <1>2, <3>2
        <4>2. j \in bare <=> j \in bare'
          BY <1>0, <3>2
        <4> QED
          BY <2>1, <4>1, <4>2 DEF Clones, Held
      <3> QED
        BY <3>1, <3>2
    <2> QED
      BY <2>3, <2>4 DEF Clones
  <1>13. hidden \subseteq Held
    BY <1>0 DEF ToolsIInv, ToolsTypeOK
  <1>14. items' = new
    BY <1>0 DEF new, more
  <1>15. /\ Held' = DOMAIN new /\ DOMAIN new \subseteq 1..lastId' /\ hidden' \subseteq DOMAIN new
    <2>1. 1..lastId \subseteq 1..lastId'
      BY <1>1
    <2>2. Held' = DOMAIN new
      BY <1>14 DEF Held
    <2> QED
      BY <1>0, <1>1, <1>2, <1>4, <1>5, <1>13, <2>1, <2>2
  <1>16. Dealt(messages)
    BY <1>0, <1>6, <1>8, <1>10, <1>11, <1>12, <1>14, <1>15 DEF Dealt, Sent
  <1> QED
    BY <1>16, DealtIInv

\* The items the tools tell apart by their definitions are worth something, and no clones.
LEMMA ToolIs ==
    ASSUME ToolsIInv, NEW tool \in Held, items[tool].def \notin BaseItems
    PROVE  /\ ~items[tool].clone
           /\ items[tool].def \in Stickers \cup {"tag", "swaptool"} => Value(1, items[tool]) >= 1
           /\ Value(1, items[tool]) \in Nat /\ Value(1, items[tool]) >= Base(items[tool])
  <1>1. items[tool] \in Item
    BY ToolsIs
  <1>2. ~items[tool].clone
    BY DEF ToolsIInv, Clones, Held
  <1>3. /\ Worth(items[tool]) \in Nat /\ Worth(items[tool]) >= Base(items[tool]) /\ Base(items[tool]) \in Nat
        /\ items[tool].def \in Stickers \cup {"tag", "swaptool"} => Base(items[tool]) = 1
    BY <1>1, WorthIs, BaseIs
  <1> QED
    BY <1>2, <1>3 DEF Value

LEMMA OneTool ==
    ASSUME ToolsIInv, NEW tool \in Held, tool \notin hidden
    PROVE  <<tool>> \in Seq(Held \ hidden) /\ ToSet(<<tool>>) = {tool} /\ tool \in ToSet(<<tool>>)
  <1>1. ToSet(<<tool>>) = {tool}
    BY DEF ToSet
  <1> QED
    BY <1>1

LEMMA DefsDiffer ==
    /\ \A d \in Stickers \cup {"tag", "swaptool", "crate", "key", "souvenir", "mega", "swapbundle"} :
         d \notin BaseItems
    /\ "weapon" \in BaseItems /\ \A d, e : CanApplySticker(d, e) => e \in BaseItems
  BY DEF Stickers, BaseItems, CanApplySticker

LEMMA ApplyStickerIInv ==
    ASSUME ToolsIInv, NEW tool \in DOMAIN game, NEW slot \in Slots, NEW i \in DOMAIN game,
           ApplySticker(tool, slot, i)
    PROVE  ToolsIInv'
  <1> DEFINE x == ApplyToSlot(items[i], slot, items[tool].def)
             ids == <<tool>>
  <1>1. /\ tool \in Held /\ i \in Held /\ items[tool].def \in Stickers \ {"blank"}
        /\ CanApplySticker(items[tool].def, items[i].def)
        /\ items' = Without([items EXCEPT ![i] = x], Used(ids))
        /\ bare' = bare \ {i} /\ lastId' = lastId /\ hidden' = hidden
        /\ Sent(DestroyObjects(ids) \o <<ItemObject(i), Notification({i})>>)
    BY DEF ApplySticker, Send, Sent
  <1>2. /\ tool \notin hidden /\ i \notin hidden /\ items[i] \in Item /\ i \in 1..lastId
        /\ lastId \in lastId..MaxId /\ items = [j \in DOMAIN items |-> items[j]] /\ i \in DOMAIN items
    BY <1>1, ToolsIs DEF Held, ToolsIInv, ToolsTypeOK
  <1>3. items[i].def \in BaseItems /\ items[tool].def \notin BaseItems /\ tool # i
    BY <1>1, DefsDiffer
  <1>4. ids \in Seq(Held \ hidden) /\ ToSet(ids) = {tool}
    BY <1>1, <1>2, OneTool
  <1>5. /\ ~items[tool].clone /\ Value(1, items[tool]) >= 1 /\ Value(1, items[tool]) \in Nat
    BY <1>1, <1>3, ToolIs
  <1>6. /\ x \in Item /\ x.def = items[i].def /\ x.clone = items[i].clone
        /\ ~IsUncustomizedBaseItemClone(x)
        /\ Worth(x) = Worth(items[i]) + 1 /\ Kills(x) = Kills(items[i])
    BY <1>2, ApplyToSlotIs
  <1> HIDE DEF x, ids
  <1>7. items' = Without(With(items, One(i, x)), Used(ids))
    BY <1>1, <1>2, ExceptIs
  <1>8. ItemObject(i) = ItemMessage(i, x)
    <2>1. i \notin Used(ids)
      BY <1>3, <1>4, UsedIs
    <2>2. Without(With(items, One(i, x)), Used(ids))[i] = x
      BY <2>1 DEF Without, With, One
    <2> QED
      BY <1>7, <2>2 DEF ItemObject, ItemMessage
  <1>9. /\ Value(1, x) <= Entry(1, items, i) + Value(1, items[tool])
        /\ Value(2, x) <= Entry(2, items, i)
    <2>1. Worth(items[i]) \in Nat /\ Kills(items[i]) \in Nat
      BY <1>2, WorthIs
    <2>2. Entry(1, items, i) = Worth(items[i]) /\ Entry(2, items, i) = Kills(items[i])
      BY <1>2 DEF Entry, Value
    <2>3. Value(1, x) = Worth(x) /\ Value(2, x) = Kills(x)
      BY DEF Value
    <2> QED
      BY <1>5, <1>6, <2>1, <2>2, <2>3
  <1>10. PICK ms : ms = DestroyObjects(ids) \o <<ItemMessage(i, x), Notification({i})>>
    OBVIOUS
  <1>11. Sent(ms)
    BY <1>1, <1>8, <1>10
  <1>12. /\ \A j \in ToSet(ids) : ~items[j].clone
         /\ tool \in ToSet(ids) /\ i \notin ToSet(ids)
         /\ lastId' \in lastId..MaxId /\ i \in 1..lastId' /\ i \notin bare' /\ bare' \ {i} = bare \ {i}
         /\ x.clone => x.def \in BaseItems
    BY <1>1, <1>2, <1>3, <1>4, <1>5, <1>6
  <1>13. UsedOn(ms, ids, tool, i, x)
    BY <1>1, <1>2, <1>4, <1>6, <1>7, <1>9, <1>10, <1>11, <1>12 DEF UsedOn
  <1> QED
    BY <1>13, UsedOnIInv

LEMMA NameItemIInv ==
    ASSUME ToolsIInv, NEW tag \in DOMAIN game, NEW i \in DOMAIN game, NEW named \in BOOLEAN,
           NameItem(tag, i, named)
    PROVE  ToolsIInv'
  <1> DEFINE x == [items[i] EXCEPT !.named = named]
             ids == <<tag>>
  <1>1. /\ tag \in Held /\ i \in Held /\ items[tag].def = "tag" /\ items[i].def = "weapon"
        /\ items' = Without([items EXCEPT ![i] = x], Used(ids))
        /\ bare' = IF IsUncustomizedBaseItemClone(items'[i]) THEN bare \cup {i} ELSE bare \ {i}
        /\ lastId' = lastId /\ hidden' = hidden
        /\ Sent(<<ItemObject(i)>> \o DestroyObjects(ids) \o <<Notification({i})>>)
    BY DEF NameItem, Send, Sent, CanNameDefIndex
  <1>2. /\ tag \notin hidden /\ i \notin hidden /\ items[i] \in Item /\ i \in 1..lastId
        /\ lastId \in lastId..MaxId /\ items = [j \in DOMAIN items |-> items[j]] /\ i \in DOMAIN items
    BY <1>1, ToolsIs DEF Held, ToolsIInv, ToolsTypeOK
  <1>3. items[i].def \in BaseItems /\ items[tag].def \notin BaseItems /\ tag # i
    BY <1>1, DefsDiffer
  <1>4. ids \in Seq(Held \ hidden) /\ ToSet(ids) = {tag}
    BY <1>1, <1>2, OneTool
  <1>5. /\ ~items[tag].clone /\ Value(1, items[tag]) >= 1 /\ Value(1, items[tag]) \in Nat
    BY <1>1, <1>3, ToolIs
  <1>6. /\ x \in Item /\ x.def = items[i].def /\ x.clone = items[i].clone
        /\ Worth(x) <= Worth(items[i]) + 1 /\ Kills(x) = Kills(items[i])
    BY <1>2, NamedIs
  <1> HIDE DEF x, ids
  <1>7. items' = Without(With(items, One(i, x)), Used(ids))
    BY <1>1, <1>2, ExceptIs
  <1>8. items'[i] = x
    <2>1. i \notin Used(ids)
      BY <1>3, <1>4, UsedIs
    <2>2. Without(With(items, One(i, x)), Used(ids))[i] = x
      BY <2>1 DEF Without, With, One
    <2> QED
      BY <1>7, <2>2
  <1>9. /\ Value(1, x) <= Entry(1, items, i) + Value(1, items[tag])
        /\ Value(2, x) <= Entry(2, items, i)
    <2>1. Worth(items[i]) \in Nat /\ Kills(items[i]) \in Nat /\ Worth(x) \in Nat
      BY <1>2, <1>6, WorthIs
    <2>2. Entry(1, items, i) = Worth(items[i]) /\ Entry(2, items, i) = Kills(items[i])
      BY <1>2 DEF Entry, Value
    <2>3. Value(1, x) = Worth(x) /\ Value(2, x) = Kills(x)
      BY DEF Value
    <2> QED
      BY <1>5, <1>6, <2>1, <2>2, <2>3
  <1>10. PICK ms : ms = <<ItemMessage(i, x)>> \o DestroyObjects(ids) \o <<Notification({i})>>
    OBVIOUS
  <1>11. Sent(ms)
    <2>1. ItemObject(i) = ItemMessage(i, x)
      BY <1>8 DEF ItemObject, ItemMessage
    <2> QED
      BY <1>1, <1>10, <2>1
  <1>12. /\ \A j \in ToSet(ids) : ~items[j].clone
         /\ tag \in ToSet(ids) /\ i \notin ToSet(ids)
         /\ lastId' \in lastId..MaxId /\ i \in 1..lastId' /\ bare' \ {i} = bare \ {i}
         /\ x.clone => x.def \in BaseItems
    BY <1>1, <1>2, <1>3, <1>4, <1>5, <1>6
  <1>13. /\ i \in bare' => x.clone
         /\ IsUncustomizedBaseItemClone(x) => i \in bare'
    <2>1. IsUncustomizedBaseItemClone(x) => x.clone
      BY DEF IsUncustomizedBaseItemClone
    <2> QED
      BY <1>1, <1>8, <2>1
  <1>14. UsedOn(ms, ids, tag, i, x)
    BY <1>1, <1>2, <1>4, <1>6, <1>7, <1>9, <1>10, <1>11, <1>12, <1>13 DEF UsedOn
  <1> QED
    BY <1>14, UsedOnIInv

\* One item is created.
OneCreated == lastId + 1 <= MaxId /\ lastId' = lastId + 1

\* The id of the next item, and a new item there that is not a plain clone.
LEMMA NextIs ==
    ASSUME ToolsIInv, OneCreated
    PROVE  /\ lastId' = lastId + 1 /\ lastId' \in lastId..MaxId /\ lastId' \in 1..lastId'
           /\ lastId' \notin Held /\ lastId' \notin hidden /\ lastId' \notin bare
           /\ \A k : Entry(k, items, lastId') = 0
  <1>1. lastId + 1 <= MaxId /\ lastId' = lastId + 1
    BY DEF OneCreated
  <1>2. /\ lastId \in Nat /\ MaxId \in Nat /\ Held \subseteq 1..lastId
        /\ hidden \subseteq Held /\ bare \subseteq Held
    BY ToolsIs DEF ToolsIInv, ToolsTypeOK
  <1>3. /\ lastId' = lastId + 1 /\ lastId' \in lastId..MaxId /\ lastId' \in 1..lastId'
        /\ lastId' \notin 1..lastId
    BY <1>1, <1>2
  <1> QED
    BY <1>2, <1>3 DEF Entry, Held

LEMMA CreateOne == ASSUME NEW x, Create(<<x>>) PROVE OneCreated
  <1>1. Len(<<x>>) = 1
    OBVIOUS
  <1> QED
    BY <1>1 DEF Create, OneCreated

LEMMA ApplyStickerToBaseItemIInv ==
    ASSUME ToolsIInv, NEW tool \in DOMAIN game, NEW slot \in Slots, NEW def \in BaseItems,
           ApplyStickerToBaseItem(tool, slot, def)
    PROVE  ToolsIInv'
  <1>1. /\ tool \in Held /\ items[tool].def \in Stickers /\ Create(<<Clone(def)>>)
        /\ granted' = granted
    BY DEF ApplyStickerToBaseItem
  <1>2. PICK i : i = lastId'
    OBVIOUS
  <1>3. /\ lastId' = lastId + 1 /\ lastId' \in lastId..MaxId /\ lastId' \in 1..lastId'
        /\ i \notin Held /\ i \notin hidden /\ i \notin bare
        /\ Entry(1, items, i) = 0 /\ Entry(2, items, i) = 0
    BY <1>1, <1>2, CreateOne, NextIs
  <1>4. tool \notin hidden /\ tool # i /\ tool \in Nat
    BY <1>1, <1>3, ToolsIs
  <1>5. /\ ~items[tool].clone /\ Value(1, items[tool]) >= 1 /\ Value(1, items[tool]) \in Nat
    BY <1>1, ToolIs, DefsDiffer
  <1>6. /\ Clone(def) \in Item /\ Clone(def).def = def /\ Clone(def).clone
        /\ Worth(Clone(def)) = 0 /\ Kills(Clone(def)) = 0
    BY CloneIs
  <1>7. CASE /\ items' = Without(With(items, One(lastId', ApplyToSlot(Clone(def), slot, items[tool].def))),
                                 Used(<<tool>>))
             /\ Send(DestroyObjects(<<tool>>) \o <<ItemObject(lastId'), Notification({lastId'})>>)
             /\ UNCHANGED <<hidden, bare>>
    <2> DEFINE x == ApplyToSlot(Clone(def), slot, items[tool].def)
               ids == <<tool>>
    <2>1. /\ x \in Item /\ x.def = def /\ x.clone /\ ~IsUncustomizedBaseItemClone(x)
          /\ Worth(x) = 0 + 1 /\ Kills(x) = 0
      BY <1>6, ApplyToSlotIs
    <2>2. ids \in Seq(Held \ hidden) /\ ToSet(ids) = {tool}
      BY <1>1, <1>4, OneTool
    <2>3. items' = Without(With(items, One(i, x)), Used(ids))
      BY <1>2, <1>7
    <2>4. Sent(DestroyObjects(ids) \o <<ItemObject(i), Notification({i})>>)
      BY <1>1, <1>2, <1>7 DEF Send, Sent
    <2> HIDE DEF x, ids
    <2>5. items'[i] = x
      <3>1. i \notin Used(ids)
        BY <1>4, <2>2, UsedIs
      <3>2. Without(With(items, One(i, x)), Used(ids))[i] = x
        BY <3>1 DEF Without, With, One
      <3> QED
        BY <2>3, <3>2
    <2>6. PICK ms : ms = DestroyObjects(ids) \o <<ItemMessage(i, x), Notification({i})>>
      OBVIOUS
    <2>7. Sent(ms)
      <3>1. ItemObject(i) = ItemMessage(i, x)
        BY <2>5 DEF ItemObject, ItemMessage
      <3> QED
        BY <2>4, <2>6, <3>1
    <2>8. /\ Value(1, x) <= Entry(1, items, i) + Value(1, items[tool])
          /\ Value(2, x) <= Entry(2, items, i)
      BY <1>3, <1>5, <2>1 DEF Value
    <2>9. /\ \A j \in ToSet(ids) : ~items[j].clone
          /\ tool \in ToSet(ids) /\ i \notin ToSet(ids) /\ i \in 1..lastId'
          /\ bare' \ {i} = bare \ {i}
      BY <1>2, <1>3, <1>4, <1>5, <1>7, <2>1, <2>2
    <2>10. UsedOn(ms, ids, tool, i, x)
      BY <1>3, <1>7, <2>1, <2>2, <2>3, <2>6, <2>7, <2>8, <2>9 DEF UsedOn
    <2> QED
      BY <2>10, UsedOnIInv
  <1>8. CASE /\ items' = With(items, One(lastId', Clone(def)))
             /\ hidden' = hidden \cup {lastId'} /\ bare' = bare \cup {lastId'}
             /\ Send(<<>>)
    <2> DEFINE x == Clone(def)
               new == With(items, One(i, x))
    <2>1. PICK e : e = <<>>
      OBVIOUS
    <2>2. items \in Items /\ items \in Inventories /\ lastId \in Nat /\ i \in 1..MaxId /\ i \in Nat
      BY <1>2, <1>3, ToolsIs
    <2>3. items' = new /\ hidden' = hidden \cup {i} /\ bare' = bare \cup {i} /\ Sent(e)
      BY <1>1, <1>2, <1>8, <2>1 DEF Send, Sent
    <2>4. DOMAIN new = Held \cup {i} /\ new[i] = x /\ \A j \in Held : j # i => new[j] = items[j]
      BY DEF With, One, Held
    <2>5. Brings(e, World(items, hidden, lastId), World(new, hidden \cup {i}, i))
      BY <1>2, <1>3, <1>6, <2>1, <2>2, BringsHidden
    <2>6. new \in Items
      BY <1>6, <2>2, WithItems
    <2>7. \A k \in {1, 2} : ValueOf(k, new) <= ValueOf(k, items)
      <3>1. ASSUME NEW k \in {1, 2} PROVE ValueOf(k, new) <= ValueOf(k, items)
        <4>1. Entry(k, items, i) = 0 /\ Value(k, x) = 0
          BY <1>3, <1>6 DEF Value
        <4>2. /\ ValueOf(k, new) + Entry(k, items, i) = ValueOf(k, items) + Value(k, x)
              /\ new \in Inventories
          BY <1>6, <2>2, ValueWith
        <4>3. ValueOf(k, new) \in Nat /\ ValueOf(k, items) \in Nat
          BY <2>2, <4>2, EntryIs
        <4> QED
          BY <4>1, <4>2, <4>3
      <3> QED
        BY <3>1
    <2>8. new \in [DOMAIN new -> Item]
      BY <2>6, ItemsAre
    <2> HIDE DEF new, x
    <2>9. Clones(new, bare')
      <3>1. Clones(items, bare) /\ x.def = def /\ x.clone
        BY <1>6 DEF ToolsIInv, x
      <3> QED
        BY <1>3, <2>3, <2>4, <3>1 DEF Clones, Held
    <2>10. /\ Held' = DOMAIN new /\ DOMAIN new \subseteq 1..lastId' /\ hidden' \subseteq DOMAIN new
      <3>1. 1..lastId \subseteq 1..lastId' /\ Held \subseteq 1..lastId /\ hidden \subseteq Held
        BY <1>3, <2>2, ToolsIs DEF ToolsIInv, ToolsTypeOK
      <3> QED
        BY <1>2, <1>3, <2>3, <2>4, <3>1 DEF Held
    <2>11. Dealt(e)
      BY <1>2, <1>3, <2>3, <2>5, <2>7, <2>8, <2>9, <2>10 DEF Dealt, Sent
    <2> QED
      BY <2>11, DealtIInv
  <1> QED
    BY <1>7, <1>8 DEF ApplyStickerToBaseItem

LEMMA NameBaseItemIInv ==
    ASSUME ToolsIInv, NEW tag \in DOMAIN game, NEW def \in BaseItems, NEW named \in BOOLEAN,
           NameBaseItem(tag, def, named)
    PROVE  ToolsIInv'
  <1> DEFINE x == [Clone(def) EXCEPT !.named = named]
             ids == <<tag>>
  <1>1. PICK i : i = lastId'
    OBVIOUS
  <1>2. /\ tag \in Held /\ items[tag].def = "tag" /\ Create(<<Clone(def)>>)
        /\ items' = Without(With(items, One(i, x)), Used(ids))
        /\ bare' = (IF named THEN bare ELSE bare \cup {i})
        /\ hidden' = hidden
        /\ Sent(<<ItemObject(i)>> \o DestroyObjects(ids) \o <<Notification({i})>>)
    BY <1>1 DEF NameBaseItem, Send, Sent
  <1>3. /\ lastId' = lastId + 1 /\ lastId' \in lastId..MaxId /\ lastId' \in 1..lastId'
        /\ i \notin Held /\ i \notin hidden /\ i \notin bare
        /\ Entry(1, items, i) = 0 /\ Entry(2, items, i) = 0
    BY <1>1, <1>2, CreateOne, NextIs
  <1>4. tag \notin hidden /\ tag # i
    BY <1>2, <1>3, ToolsIs
  <1>5. /\ ~items[tag].clone /\ Value(1, items[tag]) >= 1 /\ Value(1, items[tag]) \in Nat
    BY <1>2, ToolIs, DefsDiffer
  <1>6. /\ Clone(def) \in Item /\ Clone(def).def = def /\ Clone(def).clone
        /\ Worth(Clone(def)) = 0 /\ Kills(Clone(def)) = 0
    BY CloneIs
  <1>7. /\ x \in Item /\ x.def = def /\ x.clone
        /\ Worth(x) <= 0 + 1 /\ Kills(x) = 0
        /\ named => ~IsUncustomizedBaseItemClone(x)
    BY <1>6, NamedIs
  <1>8. ids \in Seq(Held \ hidden) /\ ToSet(ids) = {tag}
    BY <1>2, <1>4, OneTool
  <1> HIDE DEF x, ids
  <1>9. items'[i] = x
    <2>1. i \notin Used(ids)
      BY <1>4, <1>8, UsedIs
    <2>2. Without(With(items, One(i, x)), Used(ids))[i] = x
      BY <2>1 DEF Without, With, One
    <2> QED
      BY <1>2, <2>2
  <1>10. PICK ms : ms = <<ItemMessage(i, x)>> \o DestroyObjects(ids) \o <<Notification({i})>>
    OBVIOUS
  <1>11. Sent(ms)
    <2>1. ItemObject(i) = ItemMessage(i, x)
      BY <1>9 DEF ItemObject, ItemMessage
    <2> QED
      BY <1>2, <1>10, <2>1
  <1>12. /\ Value(1, x) <= Entry(1, items, i) + Value(1, items[tag])
         /\ Value(2, x) <= Entry(2, items, i)
    <2>1. Worth(x) \in Nat
      BY <1>7, WorthIs
    <2> QED
      BY <1>3, <1>5, <1>7, <2>1 DEF Value
  <1>13. /\ \A j \in ToSet(ids) : ~items[j].clone
         /\ tag \in ToSet(ids) /\ i \notin ToSet(ids) /\ i \in 1..lastId'
         /\ bare' \ {i} = bare \ {i}
         /\ IsUncustomizedBaseItemClone(x) => i \in bare'
    BY <1>1, <1>2, <1>3, <1>4, <1>5, <1>7, <1>8
  <1>14. UsedOn(ms, ids, tag, i, x)
    BY <1>2, <1>3, <1>7, <1>8, <1>10, <1>11, <1>12, <1>13 DEF UsedOn
  <1> QED
    BY <1>14, UsedOnIInv

-------------------------------------------------------------------------------
(* Opening things.                                                         *)

LEMMA JoinsTwo ==
    ASSUME NEW S, NEW d \in Seq(S), NEW a \in S, NEW b \in S
    PROVE  d \o <<a>> \o <<b>> = d \o <<a, b>>
  <1>1. PICK s \in Seq(S), t \in Seq(S) : s = <<a>> /\ t = <<b>>
    <2>1. <<a>> \in Seq(S) /\ <<b>> \in Seq(S)
      OBVIOUS
    <2> QED
      BY <2>1
  <1>3. (d \o s) \o t = d \o (s \o t)
    OBVIOUS
  <1>4. s \o t = <<a, b>>
    BY <1>1, PairIs
  <1> QED
    BY <1>1, <1>3, <1>4

LEMMA JoinsThree ==
    ASSUME NEW S, NEW d \in Seq(S), NEW a \in S, NEW b \in S, NEW c \in S
    PROVE  d \o <<a, b>> \o <<c>> = d \o <<a, b, c>>
  <1>1. PICK s \in Seq(S), t \in Seq(S) : s = <<a, b>> /\ t = <<c>>
    <2>1. <<a, b>> \in Seq(S) /\ <<c>> \in Seq(S)
      OBVIOUS
    <2> QED
      BY <2>1
  <1>3. (d \o s) \o t = d \o (s \o t)
    OBVIOUS
  <1>4. s \o t = <<a, b, c>>
    BY <1>1, TripleIs
  <1> QED
    BY <1>1, <1>3, <1>4

LEMMA DestroyObjectsAre ==
    ASSUME NEW ids, NEW S \in SUBSET Nat, ids \in Seq(S)
    PROVE  DestroyObjects(ids) \in Seq(Message)
  <1>1. \A i \in Nat : DestroyObject(i) \in Message
    BY DEF DestroyObject, Message
  <1>2. Len(ids) \in Nat /\ \A n \in 1..Len(ids) : ids[n] \in Nat
    <2>1. Len(ids) \in Nat /\ \A n \in 1..Len(ids) : ids[n] \in S
      OBVIOUS
    <2> QED
      BY <2>1
  <1>3. Destroys(ids) \in Seq(Message)
    BY <1>1, <1>2 DEF Destroys
  <1>4. PICK e : e = <<>>
    OBVIOUS
  <1>5. e \in Seq(Message)
    BY <1>4
  <1> QED
    BY <1>3, <1>4, <1>5 DEF DestroyObjects

\* One item comes out, and is worth no more than what is opened.
LEMMA OpenedIInv ==
    ASSUME ToolsIInv, NEW ids, NEW opened, NEW x,
           ids \in Seq(Held \ hidden), \A j \in ToSet(ids) : ~items[j].clone, opened \in ToSet(ids),
           Open(ids, <<x>>), x \in Item, ~x.clone,
           Value(1, x) <= Value(1, items[opened]), Kills(x) = 0
    PROVE  ToolsIInv'
  <1>1. PICK i : i = lastId'
    OBVIOUS
  <1>2. PICK one : one = <<x>>
    OBVIOUS
  <1>3. Len(one) = 1 /\ one[1] = x
    BY <1>2
  <1>4. /\ Create(<<x>>) /\ items' = Without(With(items, Created(one)), Used(ids))
        /\ Sent(DestroyObjects(ids) \o CreatedObjects(one) \o <<Notification(lastId + 1 .. lastId')>>)
        /\ hidden' = hidden /\ bare' = bare
    BY <1>2 DEF Open, Send, Sent
  <1>5. /\ lastId' = lastId + 1 /\ lastId' \in lastId..MaxId /\ lastId' \in 1..lastId'
        /\ i \notin Held /\ i \notin hidden /\ i \notin bare
        /\ Entry(1, items, i) = 0 /\ Entry(2, items, i) = 0
    BY <1>1, <1>4, CreateOne, NextIs
  <1>6. /\ lastId \in Nat /\ i = lastId + 1 /\ i - lastId = 1 /\ i \in Nat
        /\ \A j \in Held : items[j] \in Item /\ j \in Nat
    BY <1>1, <1>5, ToolsIs
  <1>7. Created(one) = One(i, x)
    <2>1. lastId + 1 .. lastId + Len(one) = {i}
      BY <1>3, <1>6
    <2>2. \A j \in {i} : one[j - lastId] = x
      BY <1>3, <1>6
    <2> QED
      BY <2>1, <2>2 DEF Created, One
  <1>8. PICK S : S = Held \ hidden
    OBVIOUS
  <1>9. ids \in Seq(S) /\ S \in SUBSET Nat /\ i \notin S
    BY <1>5, <1>6, <1>8
  <1>10. ToSet(ids) \subseteq S
    BY <1>9 DEF ToSet
  <1>11. items' = Without(With(items, One(i, x)), Used(ids))
    BY <1>4, <1>7
  <1>12. items'[i] = x
    <2>1. i \notin Used(ids)
      BY <1>9, <1>10, UsedIs
    <2>2. Without(With(items, One(i, x)), Used(ids))[i] = x
      BY <2>1 DEF Without, With, One
    <2> QED
      BY <1>11, <2>2
  <1>13. CreatedObjects(one) = <<ItemMessage(i, x)>>
    <2>1. ItemObject(i) = ItemMessage(i, x)
      BY <1>12 DEF ItemObject, ItemMessage
    <2>2. CreatedObjects(one) = [n \in 1..1 |-> ItemObject(lastId + n)]
      BY <1>3 DEF CreatedObjects
    <2>3. \A n \in 1..1 : ItemObject(lastId + n) = ItemMessage(i, x)
      BY <1>6, <2>1
    <2>4. CreatedObjects(one) = [n \in 1..1 |-> ItemMessage(i, x)]
      BY <2>2, <2>3
    <2>5. PICK m : m = ItemMessage(i, x)
      OBVIOUS
    <2>6. [n \in 1..1 |-> m] = <<m>>
      OBVIOUS
    <2> QED
      BY <2>4, <2>5, <2>6
  <1>14. lastId + 1 .. lastId' = {i}
    BY <1>5, <1>6
  <1>15. PICK ms : ms = DestroyObjects(ids) \o <<ItemMessage(i, x), Notification({i})>>
    OBVIOUS
  <1>16. Sent(ms)
    <2>1. DestroyObjects(ids) \in Seq(Message)
      BY <1>9, DestroyObjectsAre
    <2>2. ItemMessage(i, x) \in Message /\ Notification({i}) \in Message
      BY <1>6 DEF ItemMessage, Notification, Message
    <2>3. DestroyObjects(ids) \o <<ItemMessage(i, x)>> \o <<Notification({i})>> = ms
      <3>1. PICK d, a, b : d = DestroyObjects(ids) /\ a = ItemMessage(i, x) /\ b = Notification({i})
        OBVIOUS
      <3>2. d \in Seq(Message) /\ a \in Message /\ b \in Message
        BY <2>1, <2>2, <3>1
      <3>3. d \o <<a>> \o <<b>> = d \o <<a, b>>
        BY <3>2, JoinsTwo
      <3> QED
        BY <1>15, <3>1, <3>3
    <2> QED
      BY <1>4, <1>13, <1>14, <2>3
  <1>17. /\ Value(1, x) <= Entry(1, items, i) + Value(1, items[opened])
         /\ Value(2, x) <= Entry(2, items, i)
    <2>1. Worth(x) \in Nat /\ Value(1, items[opened]) \in Nat
      <3>1. opened \in Held
        BY <1>8, <1>10
      <3> QED
        BY <1>6, <3>1, WorthIs DEF Value
    <2> QED
      BY <1>5, <2>1 DEF Value
  <1>18. /\ i \notin ToSet(ids) /\ i \in 1..lastId' /\ bare' \ {i} = bare \ {i} /\ i \notin bare'
         /\ ~IsUncustomizedBaseItemClone(x)
    BY <1>1, <1>4, <1>5, <1>9, <1>10 DEF IsUncustomizedBaseItemClone
  <1>19. UsedOn(ms, ids, opened, i, x)
    BY <1>4, <1>5, <1>11, <1>15, <1>16, <1>17, <1>18 DEF UsedOn
  <1> QED
    BY <1>19, UsedOnIInv

\* An item that is opened is worth what may be in it.
LEMMA OpenedIs ==
    ASSUME ToolsIInv, NEW i \in Held, items[i].def \in {"crate", "souvenir"},
           NEW x \in Loot(items[i].def)
    PROVE  x \in Item /\ ~x.clone /\ Value(1, x) <= Value(1, items[i]) /\ Kills(x) = 0
  <1>1. items[i] \in Item
    BY ToolsIs
  <1>2. /\ x \in Item /\ ~x.clone /\ Kills(x) = 0
        /\ Worth(x) <= Power(MaxRarity) + (IF items[i].def = "souvenir" THEN MaxStickers ELSE 0)
    BY LootIs
  <1>3. Power(MaxRarity) \in Nat /\ MaxStickers \in Nat
    BY RarityIs, ItemToolsAssumption
  <1>4. /\ Worth(items[i]) \in Nat /\ Worth(items[i]) >= Base(items[i]) /\ Base(items[i]) \in Nat
        /\ items[i].def = "crate" => Base(items[i]) = Power(MaxRarity)
        /\ items[i].def = "souvenir" => Base(items[i]) = Power(MaxRarity) + MaxStickers
        /\ Worth(x) \in Nat
    BY <1>1, <1>2, WorthIs, BaseIs
  <1>5. Worth(x) <= Worth(items[i])
    <2>1. CASE items[i].def = "crate"
      BY <1>2, <1>3, <1>4, <2>1
    <2>2. CASE items[i].def = "souvenir"
      BY <1>2, <1>3, <1>4, <2>2
    <2> QED
      BY <2>1, <2>2
  <1> QED
    BY <1>2, <1>5 DEF Value

LEMMA OpenSouvenirPackageIInv ==
    ASSUME ToolsIInv, NEW package \in DOMAIN game, OpenSouvenirPackage(package) PROVE ToolsIInv'
  <1>1. package \in Held /\ items[package].def = "souvenir"
    BY DEF OpenSouvenirPackage
  <1>2. PICK x \in Loot("souvenir") : Open(<<package>>, <<x>>)
    BY DEF OpenSouvenirPackage
  <1>3. package \notin hidden /\ ~items[package].clone
    BY <1>1, ToolsIs, ToolIs, DefsDiffer
  <1>4. PICK ids : ids = <<package>>
    OBVIOUS
  <1>5. ids \in Seq(Held \ hidden) /\ ToSet(ids) = {package}
    BY <1>1, <1>3, <1>4, OneTool
  <1>6. x \in Item /\ ~x.clone /\ Value(1, x) <= Value(1, items[package]) /\ Kills(x) = 0
    BY <1>1, OpenedIs
  <1>7. Open(ids, <<x>>) /\ package \in ToSet(ids) /\ \A j \in ToSet(ids) : ~items[j].clone
    BY <1>2, <1>3, <1>4, <1>5
  <1> QED
    BY <1>5, <1>6, <1>7, OpenedIInv

LEMMA UnlockCrateIInv ==
    ASSUME ToolsIInv, NEW crate \in DOMAIN game, NEW key \in DOMAIN game \cup {none},
           UnlockCrate(crate, key)
    PROVE  ToolsIInv'
  <1> DEFINE ids == IF key = none THEN <<crate>> ELSE <<crate, key>>
  <1>1. crate \in Held /\ items[crate].def = "crate" /\ (key # none => key \in Held /\ items[key].def = "key")
    BY DEF UnlockCrate
  <1>2. PICK x \in Loot("crate") : Open(ids, <<x>>)
    BY DEF UnlockCrate
  <1>3. crate \notin hidden /\ ~items[crate].clone
    BY <1>1, ToolsIs, ToolIs, DefsDiffer
  <1>4. key # none => key \notin hidden /\ ~items[key].clone
    BY <1>1, ToolsIs, ToolIs, DefsDiffer
  <1>5. /\ ids \in Seq(Held \ hidden) /\ crate \in ToSet(ids)
        /\ \A j \in ToSet(ids) : j = crate \/ (key # none /\ j = key)
    <2>1. CASE key = none
      <3>1. ids = <<crate>>
        BY <2>1
      <3> QED
        BY <1>1, <1>3, <3>1, OneTool
    <2>2. CASE key # none
      <3>1. ids = <<crate, key>>
        BY <2>2
      <3>2. ToSet(<<crate, key>>) = {crate, key}
        BY DEF ToSet
      <3>3. crate \in Held \ hidden /\ key \in Held \ hidden
        BY <1>1, <1>3, <1>4, <2>2
      <3> QED
        BY <2>2, <3>1, <3>2, <3>3
    <2> QED
      BY <2>1, <2>2
  <1> HIDE DEF ids
  <1>6. x \in Item /\ ~x.clone /\ Value(1, x) <= Value(1, items[crate]) /\ Kills(x) = 0
    BY <1>1, OpenedIs
  <1>7. \A j \in ToSet(ids) : ~items[j].clone
    BY <1>3, <1>4, <1>5
  <1> QED
    BY <1>2, <1>5, <1>6, <1>7, OpenedIInv

-------------------------------------------------------------------------------
(* Two items at once.                                                      *)

\* Items i and j, of the inventory or new, become x and y, and one of the used items pays.
TwoOn(messages, ids, tool, i, x, j, y) ==
    /\ Sent(messages)
    /\ ids \in Seq(Held \ hidden) /\ \A used \in ToSet(ids) : ~items[used].clone
    /\ tool \in ToSet(ids)
    /\ lastId' \in lastId..MaxId /\ hidden' = hidden /\ bare' = bare
    /\ {i, j} \subseteq 1..lastId' /\ {i, j} \cap hidden = {} /\ {i, j} \cap ToSet(ids) = {}
    /\ {x, y} \subseteq Item
    /\ items' = Without(With(With(items, One(i, x)), One(j, y)), Used(ids))
    /\ ~IsUncustomizedBaseItemClone(x) /\ ~IsUncustomizedBaseItemClone(y)
    /\ i \in Held => x.def = items[i].def /\ x.clone = items[i].clone
    /\ j \in Held => y.def = items[j].def /\ y.clone = items[j].clone
    /\ i \notin Held => ~x.clone
    /\ j \notin Held => ~y.clone
    /\ LET more == With(With(items, One(i, x)), One(j, y)) IN
         /\ ValueOf(1, more) <= ValueOf(1, items) + Value(1, items[tool])
         /\ ValueOf(2, more) <= ValueOf(2, items)
    /\ messages = DestroyObjects(ids) \o <<ItemMessage(i, x), ItemMessage(j, y), Notification({i, j})>>

LEMMA TwoOnIInv ==
    ASSUME ToolsIInv, NEW messages, NEW ids, NEW tool, NEW i, NEW x, NEW j, NEW y,
           TwoOn(messages, ids, tool, i, x, j, y)
    PROVE  ToolsIInv'
  <1> DEFINE some == With(items, One(i, x))
             more == With(some, One(j, y))
             new == Without(more, Used(ids))
             v == World(items, hidden, lastId)
             w == World(new, hidden, lastId')
  <1>0. /\ Sent(messages)
        /\ ids \in Seq(Held \ hidden) /\ \A used \in ToSet(ids) : ~items[used].clone
        /\ tool \in ToSet(ids)
        /\ lastId' \in lastId..MaxId /\ hidden' = hidden /\ bare' = bare
        /\ {i, j} \subseteq 1..lastId' /\ {i, j} \cap hidden = {} /\ {i, j} \cap ToSet(ids) = {}
        /\ {x, y} \subseteq Item
        /\ items' = new
        /\ ~IsUncustomizedBaseItemClone(x) /\ ~IsUncustomizedBaseItemClone(y)
        /\ i \in Held => x.def = items[i].def /\ x.clone = items[i].clone
        /\ j \in Held => y.def = items[j].def /\ y.clone = items[j].clone
        /\ i \notin Held => ~x.clone
        /\ j \notin Held => ~y.clone
        /\ ValueOf(1, more) <= ValueOf(1, items) + Value(1, items[tool])
        /\ ValueOf(2, more) <= ValueOf(2, items)
        /\ messages = DestroyObjects(ids) \o <<ItemMessage(i, x), ItemMessage(j, y), Notification({i, j})>>
    BY DEF TwoOn
  <1>1. /\ items \in Items /\ items \in Inventories /\ lastId \in Nat /\ lastId' \in Nat /\ lastId <= lastId'
        /\ i \in 1..MaxId /\ j \in 1..MaxId /\ i \in 1..lastId' /\ j \in 1..lastId'
        /\ i \notin hidden /\ j \notin hidden /\ i \notin ToSet(ids) /\ j \notin ToSet(ids)
        /\ x \in Item /\ y \in Item
        /\ Held \subseteq 1..lastId /\ \A k \in Held : items[k] \in Item /\ k \in Nat
    <2>1. /\ items \in Items /\ items \in Inventories /\ lastId \in Nat /\ MaxId \in Nat
          /\ Held \subseteq 1..lastId /\ \A k \in Held : items[k] \in Item /\ k \in Nat
      BY ToolsIs
    <2>2. lastId' \in Nat /\ lastId <= lastId' /\ 1..lastId' \subseteq 1..MaxId
      BY <1>0, <2>1
    <2>3. i \in 1..lastId' /\ j \in 1..lastId'
      BY <1>0
    <2> QED
      BY <1>0, <2>1, <2>2, <2>3
  <1>2. i \notin Used(ids) /\ j \notin Used(ids)
    BY <1>1, UsedIs
  <1>3. /\ DOMAIN more = Held \cup {i, j} /\ more[j] = y /\ (i # j => more[i] = x)
        /\ \A k \in Held : k \notin {i, j} => more[k] = items[k]
    BY DEF With, One, Held
  <1>4. PICK S : S = Held \ hidden
    OBVIOUS
  <1>5. ids \in Seq(S) /\ S \subseteq Nat
    BY <1>0, <1>1, <1>4
  <1>6. ToSet(ids) \subseteq S /\ Used(ids) \subseteq S
    <2>1. ToSet(ids) \subseteq S
      BY <1>5 DEF ToSet
    <2> QED
      BY <2>1 DEF Used
  <1>7. ids \in Seq(Nat)
    <2>1. Len(ids) \in Nat /\ ids = [n \in 1..Len(ids) |-> ids[n]] /\ \A n \in 1..Len(ids) : ids[n] \in S
      BY <1>5
    <2> QED
      BY <1>5, <2>1
  <1>8. DOMAIN new = DOMAIN more \ Used(ids) /\ \A k \in DOMAIN more \ Used(ids) : new[k] = more[k]
    BY WithoutIs
  <1>9. Brings(messages, v, w)
    <2>1. PICK last, next : last = lastId /\ next = lastId'
      OBVIOUS
    <2>2. Brings(DestroyObjects(ids) \o <<ItemMessage(i, x), ItemMessage(j, y), Notification({i, j})>>,
                 World(items, hidden, last),
                 World(Without(With(With(items, One(i, x)), One(j, y)), Used(ids)), hidden, next))
      BY <1>1, <1>7, <2>1, BringsChanges
    <2> QED
      BY <1>0, <2>1, <2>2
  <1>10. more \in Inventories
    <2>1. some \in Inventories
      BY <1>1, WithItems
    <2> HIDE DEF some
    <2> QED
      BY <1>1, <2>1, WithItems
  <1>11. new \in [DOMAIN new -> Item]
    <2> HIDE DEF more
    <2> QED
      BY <1>10, WithoutItems, InventoriesAre
  <1>12. tool \in ToSet(ids) \cap DOMAIN more /\ more[tool] = items[tool] /\ items[tool] \in Item
    BY <1>0, <1>1, <1>3, <1>4, <1>6
  <1> HIDE DEF more
  <1>13. /\ ValueOf(1, new) \in Nat /\ ValueOf(1, items) \in Nat /\ ValueOf(1, more) \in Nat
         /\ destroyUsedItems => ValueOf(1, new) + Value(1, items[tool]) <= ValueOf(1, more)
         /\ Value(1, items[tool]) \in Nat
    <2>1. /\ ValueOf(1, new) \in Nat
          /\ destroyUsedItems => \A t \in ToSet(ids) \cap DOMAIN more :
                                   ValueOf(1, new) + Value(1, more[t]) <= ValueOf(1, more)
      BY <1>10, ValueUsed
    <2>2. ValueOf(1, items) \in Nat /\ ValueOf(1, more) \in Nat
      BY <1>1, <1>10, EntryIs
    <2>3. Value(1, items[tool]) \in Nat
      BY <1>12, WorthIs DEF Value
    <2> HIDE DEF new
    <2> QED
      BY <1>12, <2>1, <2>2, <2>3
  <1>14. ValueOf(2, new) \in Nat /\ ValueOf(2, items) \in Nat /\ ValueOf(2, more) \in Nat /\ ValueOf(2, new) <= ValueOf(2, more)
    BY <1>1, <1>10, EntryIs, ValueUsed
  <1> HIDE DEF new
  <1>15. ValueOf(2, new) <= ValueOf(2, items)
    BY <1>0, <1>14
  <1>16. destroyUsedItems => ValueOf(1, new) <= ValueOf(1, items)
    BY <1>0, <1>13
  <1>17. Clones(new, bare')
    <2>1. Clones(items, bare)
      BY DEF ToolsIInv
    <2>2. \A k \in bare : k \in Held /\ k \notin Used(ids)
      <3>1. Used(ids) \subseteq ToSet(ids)
        BY DEF Used
      <3> QED
        BY <1>0, <2>1, <3>1 DEF Clones, Held
    <2>3. bare \subseteq DOMAIN new
      BY <1>3, <1>8, <2>2
    <2>4. ASSUME NEW k \in DOMAIN new
          PROVE  /\ new[k].clone => new[k].def \in BaseItems
                 /\ IsUncustomizedBaseItemClone(new[k]) => k \in bare
                 /\ k \in bare => new[k].clone
      <3>1. k \in Held => /\ items[k].clone => items[k].def \in BaseItems
                          /\ IsUncustomizedBaseItemClone(items[k]) => k \in bare
                          /\ k \in bare => items[k].clone
        BY <2>1 DEF Clones, Held
      <3>2. new[k] = more[k] /\ k \in Held \cup {i, j}
        BY <1>3, <1>8
      <3>3. CASE k = j
        BY <1>0, <1>3, <2>2, <3>1, <3>2, <3>3
      <3>4. CASE k = i /\ k # j
        BY <1>0, <1>3, <2>2, <3>1, <3>2, <3>4
      <3>5. CASE k \notin {i, j}
        BY <1>3, <3>1, <3>2, <3>5
      <3> QED
        BY <3>3, <3>4, <3>5
    <2> QED
      BY <1>0, <2>3, <2>4 DEF Clones
  <1>18. hidden \subseteq Held
    BY DEF ToolsIInv, ToolsTypeOK
  <1>19. /\ Held' = DOMAIN new /\ DOMAIN new \subseteq 1..lastId' /\ hidden' \subseteq DOMAIN new
    <2>1. 1..lastId \subseteq 1..lastId'
      BY <1>1
    <2>2. Held' = DOMAIN new
      BY <1>0 DEF Held
    <2>3. hidden \cap Used(ids) = {}
      BY <1>4, <1>6
    <2> QED
      BY <1>0, <1>1, <1>3, <1>8, <1>18, <2>1, <2>2, <2>3
  <1>20. Dealt(messages)
    BY <1>0, <1>9, <1>11, <1>15, <1>16, <1>17, <1>19 DEF Dealt, Sent
  <1> QED
    BY <1>20, DealtIInv

LEMMA OpenBundleIInv ==
    ASSUME ToolsIInv, NEW bundle \in DOMAIN game, OpenBundle(bundle) PROVE ToolsIInv'
  <1>1. bundle \in Held /\ items[bundle].def \in {"mega", "swapbundle"}
    BY DEF OpenBundle
  <1>2. PICK ids : ids = <<bundle>>
    OBVIOUS
  <1>3. PICK p \in {"tag", "swaptool"}, q \in {"sticker", "swaptool"} :
          Contents(items[bundle].def) = <<Plain(p), Plain(q)>>
    BY <1>1, ContentsAre
  <1>4. PICK x, y : x = Plain(p) /\ y = Plain(q)
    OBVIOUS
  <1>5. /\ x \in Item /\ ~x.clone /\ Worth(x) = 1 /\ Kills(x) = 0
        /\ y \in Item /\ ~y.clone /\ Worth(y) = 1 /\ Kills(y) = 0
    <2>1. /\ p \in Defs /\ q \in Defs
          /\ p \in Stickers \cup {"tag", "swaptool", "other"} /\ q \in Stickers \cup {"tag", "swaptool", "other"}
      BY DEF Defs, Stickers
    <2>2. /\ x \in Item /\ x.def = p /\ ~x.clone /\ Worth(x) = Base(x) /\ Kills(x) = 0
          /\ y \in Item /\ y.def = q /\ ~y.clone /\ Worth(y) = Base(y) /\ Kills(y) = 0
      BY <1>4, <2>1, PlainIs
    <2>3. Base(x) = 1 /\ Base(y) = 1
      BY <2>1, <2>2, BaseIs
    <2> QED
      BY <2>2, <2>3
  <1>6. PICK two : two = <<x, y>>
    OBVIOUS
  <1>7. Len(two) = 2 /\ two[1] = x /\ two[2] = y
    BY <1>6
  <1>8. Open(ids, two)
    BY <1>2, <1>3, <1>4, <1>6 DEF OpenBundle
  <1>9. PICK i, j : i = lastId + 1 /\ j = lastId + 2
    OBVIOUS
  <1>10. /\ lastId \in Nat /\ MaxId \in Nat /\ Held \subseteq 1..lastId
         /\ items \in Inventories /\ \A k \in Held : items[k] \in Item /\ k \in Nat
         /\ i \notin hidden /\ j \notin hidden /\ bundle \notin hidden
    BY <1>1, <1>9, ToolsIs
  <1>11. /\ lastId' = lastId + 2 /\ lastId' \in lastId..MaxId
         /\ items' = Without(With(items, Created(two)), Used(ids))
         /\ Sent(DestroyObjects(ids) \o CreatedObjects(two) \o <<Notification(lastId + 1 .. lastId')>>)
         /\ hidden' = hidden /\ bare' = bare
    <2>1. /\ lastId + Len(two) <= MaxId /\ lastId' = lastId + Len(two)
          /\ items' = Without(With(items, Created(two)), Used(ids))
          /\ hidden' = hidden /\ bare' = bare
          /\ Sent(DestroyObjects(ids) \o CreatedObjects(two) \o <<Notification(lastId + 1 .. lastId')>>)
      BY <1>8 DEF Open, Create, Send, Sent
    <2> QED
      BY <1>7, <1>10, <2>1
  <1>12. /\ i \in 1..MaxId /\ j \in 1..MaxId /\ i # j /\ i \in Nat /\ j \in Nat
         /\ i \in 1..lastId' /\ j \in 1..lastId' /\ i \notin Held /\ j \notin Held
         /\ i - lastId = 1 /\ j - lastId = 2 /\ lastId + 1 .. lastId + 2 = {i, j}
    BY <1>9, <1>10, <1>11
  <1> DEFINE more == With(With(items, One(i, x)), One(j, y))
  <1>13. With(items, Created(two)) = more
    <2>1. /\ DOMAIN Created(two) = {i, j} /\ Created(two)[i] = x /\ Created(two)[j] = y
      BY <1>7, <1>12 DEF Created
    <2>2. With(items, Created(two)) =
            [k \in Held \cup {i, j} |-> IF k \in {i, j} THEN Created(two)[k] ELSE items[k]]
      BY <2>1 DEF With, Held
    <2>3. more = [k \in DOMAIN more |-> more[k]]
      BY DEF With
    <2>4. /\ DOMAIN more = Held \cup {i, j} /\ more[j] = y /\ more[i] = x
          /\ \A k \in Held : k \notin {i, j} => more[k] = items[k]
      BY <1>12 DEF With, One, Held
    <2> HIDE DEF more
    <2>5. \A k \in Held \cup {i, j} : more[k] = IF k \in {i, j} THEN Created(two)[k] ELSE items[k]
      BY <2>1, <2>4
    <2> QED
      BY <2>2, <2>3, <2>4, <2>5
  <1>14. ids \in Seq(Held \ hidden) /\ ToSet(ids) = {bundle} /\ ~items[bundle].clone
    BY <1>1, <1>2, <1>10, OneTool, ToolIs, DefsDiffer
  <1>15. items' = Without(more, Used(ids))
    BY <1>11, <1>13
  <1>16. items'[i] = x /\ items'[j] = y
    <2>1. i \notin Used(ids) /\ j \notin Used(ids)
      BY <1>1, <1>12, <1>14, UsedIs
    <2>2. Without(more, Used(ids))[i] = x /\ Without(more, Used(ids))[j] = y
      BY <1>12, <2>1 DEF Without, With, One
    <2> HIDE DEF more
    <2> QED
      BY <1>15, <2>2
  <1>17. CreatedObjects(two) = <<ItemMessage(i, x), ItemMessage(j, y)>>
    <2>1. PICK a, b : a = ItemMessage(i, x) /\ b = ItemMessage(j, y)
      OBVIOUS
    <2>2. ItemObject(i) = a /\ ItemObject(j) = b
      BY <1>16, <2>1 DEF ItemObject, ItemMessage
    <2>3. CreatedObjects(two) = [n \in 1..2 |-> ItemObject(lastId + n)]
      BY <1>7 DEF CreatedObjects
    <2>4. PICK s : s = <<a, b>>
      OBVIOUS
    <2>5. s = [n \in 1..2 |-> s[n]] /\ s[1] = a /\ s[2] = b
      BY <2>4
    <2>6. \A n \in 1..2 : ItemObject(lastId + n) = s[n]
      <3>1. \A n \in 1..2 : n = 1 \/ n = 2
        OBVIOUS
      <3> QED
        BY <1>9, <2>2, <2>5, <3>1, Zenon
    <2> QED
      BY <2>1, <2>3, <2>4, <2>5, <2>6
  <1>18. PICK ms : ms = DestroyObjects(ids) \o <<ItemMessage(i, x), ItemMessage(j, y), Notification({i, j})>>
    OBVIOUS
  <1>19. Sent(ms)
    <2>1. PICK d, a, b, c : /\ d = DestroyObjects(ids) /\ a = ItemMessage(i, x)
                            /\ b = ItemMessage(j, y) /\ c = Notification({i, j})
      OBVIOUS
    <2>2. d \in Seq(Message)
      <3>1. PICK S : S = Held \ hidden
        OBVIOUS
      <3>2. ids \in Seq(S) /\ S \in SUBSET Nat
        BY <1>10, <1>14, <3>1
      <3> QED
        BY <2>1, <3>2, DestroyObjectsAre
    <2>3. a \in Message /\ b \in Message /\ c \in Message
      BY <1>5, <1>12, <2>1 DEF ItemMessage, Notification, Message
    <2>4. d \o <<a, b>> \o <<c>> = d \o <<a, b, c>>
      <3>1. PICK M : M = Message
        OBVIOUS
      <3>2. d \in Seq(M) /\ a \in M /\ b \in M /\ c \in M
        BY <2>2, <2>3, <3>1
      <3>3. \A s, e, f, g : s \in Seq(M) /\ e \in M /\ f \in M /\ g \in M
              => s \o <<e, f>> \o <<g>> = s \o <<e, f, g>>
        BY JoinsThree, Zenon
      <3> QED
        BY <3>2, <3>3, Zenon
    <2>5. lastId + 1 .. lastId' = {i, j}
      BY <1>11, <1>12
    <2> QED
      BY <1>11, <1>17, <1>18, <2>1, <2>4, <2>5
  <1>20. \A k \in {1, 2} : /\ ValueOf(k, more) = ValueOf(k, items) + Value(k, x) + Value(k, y)
                           /\ ValueOf(k, items) \in Nat
    <2>1. ASSUME NEW k \in {1, 2}
          PROVE  /\ ValueOf(k, more) = ValueOf(k, items) + Value(k, x) + Value(k, y)
                 /\ ValueOf(k, items) \in Nat
      <3> DEFINE some == With(items, One(i, x))
      <3>1. /\ some \in Inventories
            /\ ValueOf(k, some) + Entry(k, items, i) = ValueOf(k, items) + Value(k, x)
            /\ Value(k, x) \in Nat
        BY <1>5, <1>10, <1>12, ValueWith
      <3>2. Entry(k, items, i) = 0 /\ Entry(k, some, j) = 0
        BY <1>12 DEF Entry, With, One, Held
      <3> HIDE DEF some
      <3>3. /\ ValueOf(k, With(some, One(j, y))) + Entry(k, some, j) = ValueOf(k, some) + Value(k, y)
            /\ Value(k, y) \in Nat /\ With(some, One(j, y)) \in Inventories
        BY <1>5, <1>12, <3>1, ValueWith
      <3>4. /\ ValueOf(k, items) \in Nat /\ ValueOf(k, some) \in Nat
            /\ ValueOf(k, With(some, One(j, y))) \in Nat
        BY <1>10, <3>1, <3>3, EntryIs
      <3>5. With(some, One(j, y)) = more
        BY DEF some
      <3> HIDE DEF more
      <3> QED
        BY <3>1, <3>2, <3>3, <3>4, <3>5
    <2> QED
      BY <2>1
  <1> HIDE DEF more
  <1>21. Value(1, items[bundle]) \in Nat /\ Value(1, items[bundle]) >= 2
    <2>1. items[bundle] \in Item
      BY <1>1, <1>10
    <2>2. Base(items[bundle]) = 2 /\ Worth(items[bundle]) >= Base(items[bundle]) /\ Worth(items[bundle]) \in Nat
      BY <1>1, <2>1, BaseIs, WorthIs
    <2> QED
      BY <2>2 DEF Value
  <1>22. ValueOf(1, more) <= ValueOf(1, items) + Value(1, items[bundle])
    <2>1. ValueOf(1, more) = ValueOf(1, items) + 1 + 1 /\ ValueOf(1, items) \in Nat
      BY <1>5, <1>20 DEF Value
    <2> QED
      BY <1>21, <2>1
  <1>23. ValueOf(2, more) <= ValueOf(2, items)
    <2>1. ValueOf(2, more) = ValueOf(2, items) + 0 + 0 /\ ValueOf(2, items) \in Nat
      BY <1>5, <1>20 DEF Value
    <2> QED
      BY <2>1
  <1>24. ~IsUncustomizedBaseItemClone(x) /\ ~IsUncustomizedBaseItemClone(y)
    BY <1>5 DEF IsUncustomizedBaseItemClone
  <1>25. /\ {i, j} \subseteq 1..lastId' /\ {i, j} \cap hidden = {} /\ {i, j} \cap ToSet(ids) = {}
         /\ {x, y} \subseteq Item /\ bundle \in ToSet(ids)
         /\ \A used \in ToSet(ids) : ~items[used].clone
    BY <1>1, <1>5, <1>10, <1>12, <1>14
  <1>26. TwoOn(ms, ids, bundle, i, x, j, y)
    BY <1>5, <1>11, <1>12, <1>14, <1>15, <1>18, <1>19, <1>22, <1>23, <1>24, <1>25 DEF TwoOn, more
  <1> QED
    BY <1>26, TwoOnIInv

LEMMA KillsIs ==
    ASSUME NEW item \in Item, NEW k \in Nat
    PROVE  LET other == [item EXCEPT !.kills = k] IN
             /\ other \in Item /\ other.def = item.def /\ other.clone = item.clone
             /\ Worth(other) = Worth(item) /\ Kills(other) = k
             /\ ~IsUncustomizedBaseItemClone(other)
  <1> DEFINE other == [item EXCEPT !.kills = k]
  <1>1. /\ other \in Item /\ other.def = item.def /\ other.clone = item.clone /\ other.kills = k
        /\ other.rarity = item.rarity /\ other.named = item.named /\ other.stickers = item.stickers
    BY DEF Item
  <1> HIDE DEF other
  <1>2. k # none
    BY ItemToolsAssumption
  <1>3. Base(other) = Base(item) /\ Applied(other) = Applied(item)
    BY <1>1 DEF Base, Applied
  <1>4. Worth(other) = Worth(item)
    BY <1>1, <1>3 DEF Worth
  <1>5. Kills(other) = k /\ ~IsUncustomizedBaseItemClone(other)
    BY <1>1, <1>2 DEF Kills, IsUncustomizedBaseItemClone
  <1> QED
    BY <1>1, <1>4, <1>5 DEF other

LEMMA PerformCounterSwapIInv ==
    ASSUME ToolsIInv, NEW tool \in DOMAIN game, NEW a \in DOMAIN game, NEW b \in DOMAIN game,
           PerformCounterSwap(tool, a, b)
    PROVE  ToolsIInv'
  <1> DEFINE x == [items[a] EXCEPT !.kills = items[b].kills]
             y == [items[b] EXCEPT !.kills = items[a].kills]
             some == With(items, One(a, x))
             more == With(some, One(b, y))
  <1>1. PICK ids : ids = <<tool>>
    OBVIOUS
  <1>2. /\ tool \in Held /\ a \in Held /\ b \in Held /\ items[tool].def = "swaptool"
        /\ items[a].def = "weapon" /\ items[b].def = "weapon"
        /\ items[a].kills # none /\ items[b].kills # none
        /\ items' = Without([items EXCEPT ![a].kills = items[b].kills, ![b].kills = items[a].kills], Used(ids))
        /\ lastId' = lastId /\ hidden' = hidden /\ bare' = bare
        /\ Sent(DestroyObjects(ids) \o <<ItemObject(a), ItemObject(b), Notification({a, b})>>)
    BY <1>1 DEF PerformCounterSwap, Send, Sent, CanStatTrakSwapDefIndex
  <1>3. /\ tool \notin hidden /\ a \notin hidden /\ b \notin hidden
        /\ items[a] \in Item /\ items[b] \in Item /\ items \in Inventories
        /\ a \in 1..lastId /\ b \in 1..lastId /\ a \in 1..MaxId /\ b \in 1..MaxId
        /\ items = [j \in Held |-> items[j]] /\ lastId \in lastId..MaxId
    BY <1>2, ToolsIs DEF ToolsIInv, ToolsTypeOK
  <1>4. items[a].kills \in Nat /\ items[b].kills \in Nat
    BY <1>2, <1>3, ItemIs
  <1>5. /\ x \in Item /\ x.def = items[a].def /\ x.clone = items[a].clone
        /\ Worth(x) = Worth(items[a]) /\ Kills(x) = items[b].kills /\ ~IsUncustomizedBaseItemClone(x)
    BY <1>3, <1>4, KillsIs
  <1>6. /\ y \in Item /\ y.def = items[b].def /\ y.clone = items[b].clone
        /\ Worth(y) = Worth(items[b]) /\ Kills(y) = items[a].kills /\ ~IsUncustomizedBaseItemClone(y)
    BY <1>3, <1>4, KillsIs
  <1>7. a = b => x = y
    OBVIOUS
  <1>8. /\ DOMAIN more = Held \cup {a, b} /\ more[b] = y /\ (a # b => more[a] = x)
        /\ \A k \in Held : k \notin {a, b} => more[k] = items[k]
    BY DEF With, One, Held
  <1>9. [items EXCEPT ![a].kills = items[b].kills, ![b].kills = items[a].kills] = more
    <2> DEFINE f == [items EXCEPT ![a].kills = items[b].kills, ![b].kills = items[a].kills]
    <2>1. f = [k \in Held |-> f[k]] /\ DOMAIN f = Held
      BY <1>3 DEF Held
    <2>2. more = [k \in DOMAIN more |-> more[k]]
      BY DEF With
    <2>3. f[b] = y
      <3>1. CASE a # b
        BY <1>2, <3>1 DEF Held
      <3>2. CASE a = b
        <4>1. f[b] = [[items[b] EXCEPT !.kills = items[b].kills] EXCEPT !.kills = items[b].kills]
          BY <1>2, <3>2 DEF Held
        <4>2. [[items[b] EXCEPT !.kills = items[b].kills] EXCEPT !.kills = items[b].kills]
                = [items[b] EXCEPT !.kills = items[b].kills]
          BY <1>3 DEF Item
        <4> QED
          BY <3>2, <4>1, <4>2
      <3> QED
        BY <3>1, <3>2
    <2>4. a # b => f[a] = x
      BY <1>2 DEF Held
    <2>5. \A k \in Held : k \notin {a, b} => f[k] = items[k]
      BY DEF Held
    <2>6. Held \cup {a, b} = Held
      BY <1>2
    <2> HIDE DEF f, more, x, y
    <2>7. \A k \in Held : f[k] = more[k]
      BY <1>8, <2>3, <2>4, <2>5
    <2>8. f = more
      BY <1>8, <2>1, <2>2, <2>6, <2>7
    <2> QED
      BY <2>8 DEF f
  <1>10. ids \in Seq(Held \ hidden) /\ ToSet(ids) = {tool}
    BY <1>1, <1>2, <1>3, OneTool
  <1>11. ~items[tool].clone /\ Value(1, items[tool]) \in Nat
    BY <1>2, ToolIs, DefsDiffer
  <1>12. {a, b} \cap ToSet(ids) = {} /\ a \notin Used(ids) /\ b \notin Used(ids)
    <2>1. tool # a /\ tool # b
      BY <1>2
    <2> QED
      BY <1>10, <2>1, UsedIs
  <1>13. items' = Without(more, Used(ids))
    BY <1>2, <1>9
  <1>14. Kills(items[a]) = items[a].kills /\ Kills(items[b]) = items[b].kills
    BY <1>2 DEF Kills
  <1> HIDE DEF x, y
  <1>15. items'[a] = more[a] /\ items'[b] = more[b]
    <2> HIDE DEF more
    <2> QED
      BY <1>2, <1>8, <1>12, <1>13 DEF Without
  <1>16. ItemObject(a) = ItemMessage(a, x) /\ ItemObject(b) = ItemMessage(b, y)
    <2> HIDE DEF more
    <2>1. items'[a] = x /\ items'[b] = y
      BY <1>7, <1>8, <1>15
    <2> QED
      BY <2>1 DEF ItemObject, ItemMessage
  <1>17. PICK ms : ms = DestroyObjects(ids) \o <<ItemMessage(a, x), ItemMessage(b, y), Notification({a, b})>>
    OBVIOUS
  <1>18. Sent(ms)
    BY <1>2, <1>16, <1>17
  <1>19. /\ \A k \in {1, 2} :
             /\ ValueOf(k, more) + Entry(k, items, a) + Entry(k, some, b)
                  = ValueOf(k, items) + Value(k, x) + Value(k, y)
             /\ ValueOf(k, items) \in Nat /\ ValueOf(k, more) \in Nat
         /\ Entry(1, items, a) = Worth(items[a]) /\ Entry(2, items, a) = items[a].kills
         /\ Entry(1, some, b) = Worth(items[b])
         /\ Entry(2, some, b) = items[b].kills
    <2>1. ASSUME NEW k \in {1, 2}
          PROVE  /\ ValueOf(k, more) + Entry(k, items, a) + Entry(k, some, b)
                      = ValueOf(k, items) + Value(k, x) + Value(k, y)
                 /\ ValueOf(k, items) \in Nat /\ ValueOf(k, more) \in Nat
      <3>1. /\ some \in Inventories
            /\ ValueOf(k, some) + Entry(k, items, a) = ValueOf(k, items) + Value(k, x)
            /\ Value(k, x) \in Nat
        BY <1>3, <1>5, ValueWith
      <3> HIDE DEF some
      <3>2. /\ ValueOf(k, With(some, One(b, y))) + Entry(k, some, b) = ValueOf(k, some) + Value(k, y)
            /\ Value(k, y) \in Nat /\ With(some, One(b, y)) \in Inventories
        BY <1>3, <1>6, <3>1, ValueWith
      <3>3. /\ ValueOf(k, items) \in Nat /\ ValueOf(k, some) \in Nat
            /\ ValueOf(k, With(some, One(b, y))) \in Nat
            /\ Entry(k, items, a) \in Nat /\ Entry(k, some, b) \in Nat
        BY <1>3, <3>1, <3>2, EntryIs
      <3>4. With(some, One(b, y)) = more
        OBVIOUS
      <3> HIDE DEF more
      <3> QED
        BY <3>1, <3>2, <3>3, <3>4
    <2>2. Entry(1, items, a) = Worth(items[a]) /\ Entry(2, items, a) = items[a].kills
      BY <1>2, <1>14 DEF Entry, Value, Held
    <2>3. b \in DOMAIN some /\ (a # b => some[b] = items[b]) /\ (a = b => some[b] = x)
      BY <1>2 DEF With, One, Held
    <2> HIDE DEF some, more
    <2>4. Entry(1, some, b) = Worth(items[b]) /\ Entry(2, some, b) = items[b].kills
      <3>1. CASE a # b
        BY <1>14, <2>3, <3>1 DEF Entry, Value
      <3>2. CASE a = b
        BY <1>5, <2>3, <3>2 DEF Entry, Value
      <3> QED
        BY <3>1, <3>2
    <2> QED
      BY <2>1, <2>2, <2>4
  <1>20. Value(1, x) = Worth(items[a]) /\ Value(1, y) = Worth(items[b]) /\ Value(2, x) = items[b].kills /\ Value(2, y) = items[a].kills
    BY <1>5, <1>6 DEF Value
  <1> HIDE DEF more, some
  <1>21. ValueOf(1, more) <= ValueOf(1, items) + Value(1, items[tool])
    <2>1. Worth(items[a]) \in Nat /\ Worth(items[b]) \in Nat
      BY <1>3, WorthIs
    <2>2. /\ ValueOf(1, more) + Worth(items[a]) + Worth(items[b]) = ValueOf(1, items) + Worth(items[a]) + Worth(items[b])
          /\ ValueOf(1, items) \in Nat /\ ValueOf(1, more) \in Nat
      BY <1>19, <1>20
    <2> QED
      BY <1>11, <2>1, <2>2
  <1>22. ValueOf(2, more) <= ValueOf(2, items)
    <2>1. /\ ValueOf(2, more) + items[a].kills + items[b].kills = ValueOf(2, items) + items[b].kills + items[a].kills
          /\ ValueOf(2, items) \in Nat /\ ValueOf(2, more) \in Nat
      BY <1>19, <1>20
    <2> QED
      BY <1>4, <2>1
  <1>23. /\ {a, b} \subseteq 1..lastId' /\ {a, b} \cap hidden = {}
         /\ {x, y} \subseteq Item /\ tool \in ToSet(ids)
         /\ \A used \in ToSet(ids) : ~items[used].clone
         /\ lastId' \in lastId..MaxId
    BY <1>2, <1>3, <1>5, <1>6, <1>10, <1>11
  <1>24. TwoOn(ms, ids, tool, a, x, b, y)
    BY <1>2, <1>5, <1>6, <1>10, <1>12, <1>13, <1>17, <1>18, <1>21, <1>22, <1>23 DEF TwoOn, more, some
  <1> QED
    BY <1>24, TwoOnIInv

-------------------------------------------------------------------------------
(* The trade-up contract.                                                  *)

\* The items of a contract go, and one of the next rarity comes.
Traded(messages, ids, i, x, r) ==
    /\ Sent(messages)
    /\ ids \in Seq(Held) /\ Len(ids) = Contract /\ IsInjective(ids)
    /\ ToSet(ids) \cap hidden = {}
    /\ r \in Nat /\ r + 1 <= MaxRarity
    /\ \A j \in ToSet(ids) : items[j].def = "weapon" /\ ~items[j].clone /\ items[j].rarity = r
    /\ i = lastId + 1 /\ lastId' = i /\ i <= MaxId
    /\ x \in Item /\ ~x.clone /\ Worth(x) = Power(r + 1) /\ Kills(x) = 0
    /\ items' = Without(With(items, One(i, x)), ToSet(ids))
    /\ hidden' = hidden /\ bare' = bare
    /\ messages = Destroys(ids) \o <<ItemMessage(i, x), Notification({i})>>

LEMMA BringsTraded ==
    ASSUME NEW its \in Items, NEW hid, NEW last \in Nat, NEW ids \in Seq(Nat), NEW x \in Item,
           last + 1 \notin ToSet(ids), last + 1 \notin hid
    PROVE  Brings(Destroys(ids) \o <<ItemMessage(last + 1, x), Notification({last + 1})>>,
                  World(its, hid, last),
                  World(With(Without(its, ToSet(ids)), One(last + 1, x)), hid, last + 1))
  <1> DEFINE a == Without(its, ToSet(ids))
             b == With(a, One(last + 1, x))
  <1>1. PICK d, m, n : d = Destroys(ids) /\ m = <<ItemMessage(last + 1, x)>> /\ n = <<Notification({last + 1})>>
    OBVIOUS
  <1>2. PICK i : i = last + 1
    OBVIOUS
  <1>3. a \in Items /\ i \in Nat /\ last <= i /\ i \in 1..i /\ i \notin hid
    BY <1>2, WithoutItems
  <1>4. b \in Items /\ {i} \subseteq DOMAIN b \ hid
    <2>1. DOMAIN b = DOMAIN a \cup {i}
      BY <1>2 DEF With, One
    <2> HIDE DEF a
    <2> QED
      BY <1>2, <1>3, <2>1, WithItems
  <1>5. Brings(d, World(its, hid, last), World(a, hid, last))
    BY <1>1, BringsDestroys
  <1> HIDE DEF a
  <1>6. Brings(m, World(a, hid, last), World(b, hid, i))
    BY <1>1, <1>2, <1>3, BringsItem
  <1> HIDE DEF b
  <1>7. Brings(n, World(b, hid, i), World(b, hid, i))
    BY <1>1, <1>2, <1>3, <1>4, BringsNotification
  <1>8. Brings(m \o n, World(a, hid, last), World(b, hid, i))
    BY <1>6, <1>7, BringsThen
  <1>9. Brings(d \o (m \o n), World(its, hid, last), World(b, hid, i))
    BY <1>5, <1>8, BringsThen
  <1>10. m \o n = <<ItemMessage(last + 1, x), Notification({last + 1})>>
    BY <1>1, PairIs
  <1> QED
    BY <1>1, <1>2, <1>9, <1>10 DEF a, b

LEMMA TradedIInv ==
    ASSUME ToolsIInv, NEW messages, NEW ids, NEW i, NEW x, NEW r, Traded(messages, ids, i, x, r)
    PROVE  ToolsIInv'
  <1> DEFINE S == ToSet(ids)
             a == Without(items, S)
             new == With(a, One(i, x))
  <1>0. /\ Sent(messages)
        /\ ids \in Seq(Held) /\ Len(ids) = Contract /\ IsInjective(ids)
        /\ ToSet(ids) \cap hidden = {}
        /\ r \in Nat /\ r + 1 <= MaxRarity
        /\ \A j \in ToSet(ids) : items[j].def = "weapon" /\ ~items[j].clone /\ items[j].rarity = r
        /\ i = lastId + 1 /\ lastId' = i /\ i <= MaxId
        /\ x \in Item /\ ~x.clone /\ Worth(x) = Power(r + 1) /\ Kills(x) = 0
        /\ items' = Without(With(items, One(i, x)), ToSet(ids))
        /\ hidden' = hidden /\ bare' = bare
        /\ messages = Destroys(ids) \o <<ItemMessage(i, x), Notification({i})>>
    BY DEF Traded
  <1>1. /\ items \in Items /\ items \in Inventories /\ lastId \in Nat /\ MaxId \in Nat
        /\ Held \subseteq 1..lastId /\ \A j \in Held : items[j] \in Item /\ j \in Nat
        /\ i \notin 1..lastId /\ i \in 1..MaxId /\ 1..lastId \subseteq 1..i /\ i \in 1..i
        /\ lastId' \in lastId..MaxId
    BY <1>0, ToolsIs
  <1>2. hidden \subseteq Held /\ bare \subseteq Held /\ Clones(items, bare)
    BY DEF ToolsIInv, ToolsTypeOK
  <1>3. S \subseteq Held
    <2>1. PICK H : H = Held
      OBVIOUS
    <2>2. ids \in Seq(H)
      BY <1>0, <2>1
    <2> QED
      BY <2>1, <2>2 DEF ToSet
  <1>4. i \notin S /\ i \notin hidden /\ i \notin Held /\ i \notin bare
    BY <1>1, <1>2, <1>3
  <1>5. items' = new
    BY <1>0, <1>4, WithWithout
  <1>6. ids \in Seq(Nat)
    <2>1. PICK H : H = Held
      OBVIOUS
    <2>2. Len(ids) \in Nat /\ ids = [n \in 1..Len(ids) |-> ids[n]] /\ \A n \in 1..Len(ids) : ids[n] \in H
      BY <1>0, <2>1
    <2> QED
      BY <1>1, <2>1, <2>2
  <1>7. Brings(messages, World(items, hidden, lastId), World(new, hidden, i))
    <2>1. PICK last : last = lastId
      OBVIOUS
    <2>2. Brings(Destroys(ids) \o <<ItemMessage(last + 1, x), Notification({last + 1})>>,
                 World(items, hidden, last),
                 World(With(Without(items, ToSet(ids)), One(last + 1, x)), hidden, last + 1))
      BY <1>0, <1>1, <1>4, <1>6, <2>1, BringsTraded
    <2> QED
      BY <1>0, <2>1, <2>2
  <1>8. a \in Inventories
    BY <1>1, WithoutItems
  <1>9. DOMAIN a = Held \ S /\ \A j \in Held \ S : a[j] = items[j]
    BY WithoutIs DEF Held
  <1>10. ids \in Seq(DOMAIN items)
    BY <1>0 DEF Held
  <1>11. ASSUME NEW k \in {1, 2}, NEW p \in Nat, \A j \in S : Value(k, items[j]) >= p,
                Value(k, x) = Contract * p
         PROVE  ValueOf(k, new) <= ValueOf(k, items)
    <2>1. ValueOf(k, a) + Len(ids) * p <= ValueOf(k, items)
      BY <1>0, <1>1, <1>10, <1>11, ValueWithoutAll
    <2> HIDE DEF a
    <2>2. ValueOf(k, a) \in Nat /\ ValueOf(k, items) \in Nat /\ Entry(k, a, i) \in Nat
      BY <1>1, <1>8, EntryIs
    <2>3. new \in Inventories /\ ValueOf(k, new) + Entry(k, a, i) = ValueOf(k, a) + Value(k, x)
      BY <1>0, <1>1, <1>8, ValueWith
    <2>4. ValueOf(k, new) \in Nat
      BY <2>3, EntryIs
    <2> HIDE DEF new
    <2>5. PICK c : c = Contract * p
      OBVIOUS
    <2>6. c \in Nat
      BY <2>5, ItemToolsAssumption
    <2>7. ValueOf(k, a) + c <= ValueOf(k, items) /\ ValueOf(k, new) + Entry(k, a, i) = ValueOf(k, a) + c
      BY <1>0, <1>11, <2>1, <2>3, <2>5
    <2> QED
      BY <2>2, <2>4, <2>6, <2>7
  <1>12. ValueOf(1, new) <= ValueOf(1, items)
    <2>1. MaxRarity \in Nat /\ Contract \in Nat /\ r \in 0..MaxRarity
      BY <1>0, ItemToolsAssumption
    <2>2. Power(r) \in Nat /\ Power(r + 1) = Power(r) * Contract
      BY <1>0, <2>1, RarityIs, PowerMore
    <2>3. Power(r) * Contract = Contract * Power(r)
      BY <2>1, <2>2
    <2>4. Value(1, x) = Contract * Power(r)
      BY <1>0, <2>2, <2>3 DEF Value
    <2>5. ASSUME NEW j \in S PROVE Value(1, items[j]) >= Power(r)
      <3>1. items[j] \in Item /\ items[j].def = "weapon" /\ ~items[j].clone /\ items[j].rarity = r
        BY <1>0, <1>1, <1>3
      <3>2. Worth(items[j]) >= Base(items[j]) /\ Base(items[j]) = Power(r)
        BY <3>1, WorthIs, BaseIs
      <3> QED
        BY <3>2 DEF Value
    <2> HIDE DEF new, S
    <2> QED
      BY <1>11, <2>2, <2>4, <2>5
  <1>13. ValueOf(2, new) <= ValueOf(2, items)
    <2>1. Value(2, x) = 0 /\ Contract * 0 = 0
      BY <1>0, ItemToolsAssumption DEF Value
    <2>2. ASSUME NEW j \in S PROVE Value(2, items[j]) >= 0
      <3>1. items[j] \in Item
        BY <1>1, <1>3
      <3>2. Kills(items[j]) \in Nat
        BY <3>1, WorthIs
      <3> QED
        BY <3>2 DEF Value
    <2> HIDE DEF new, S
    <2> QED
      BY <1>11, <2>1, <2>2
  <1>14. DOMAIN new = (Held \ S) \cup {i} /\ new[i] = x /\ \A j \in Held \ S : new[j] = items[j]
    <2> HIDE DEF a
    <2> QED
      BY <1>4, <1>9 DEF With, One
  <1>15. new \in [DOMAIN new -> Item]
    <2>1. new \in Inventories
      <3> HIDE DEF a
      <3> QED
        BY <1>0, <1>1, <1>8, WithItems
    <2> QED
      BY <2>1, InventoriesAre
  <1> HIDE DEF new
  <1>16. Clones(new, bare)
    <2>1. bare \cap S = {}
      BY <1>0, <1>2, <1>3 DEF Clones, Held
    <2>2. ~IsUncustomizedBaseItemClone(x)
      BY <1>0 DEF IsUncustomizedBaseItemClone
    <2>3. ASSUME NEW j \in DOMAIN new
          PROVE  /\ new[j].clone => new[j].def \in BaseItems
                 /\ IsUncustomizedBaseItemClone(new[j]) => j \in bare
                 /\ j \in bare => new[j].clone
      <3>1. CASE j = i
        BY <1>0, <1>4, <1>14, <2>2, <3>1
      <3>2. CASE j # i
        <4>1. j \in Held /\ new[j] = items[j]
          BY <1>14, <3>2
        <4> QED
          BY <1>2, <4>1 DEF Clones, Held
      <3> QED
        BY <3>1, <3>2
    <2>4. bare \subseteq DOMAIN new
      BY <1>2, <1>14, <2>1
    <2> QED
      BY <2>3, <2>4 DEF Clones
  <1>17. Held' = DOMAIN new /\ DOMAIN new \subseteq 1..lastId' /\ hidden \subseteq DOMAIN new
    <2>1. Held' = DOMAIN new
      BY <1>5 DEF Held
    <2> QED
      BY <1>0, <1>1, <1>2, <1>14, <2>1
  <1>18. Dealt(messages)
    <2>1. Brings(messages, World(items, hidden, lastId), World(items', hidden', lastId'))
      BY <1>0, <1>5, <1>7
    <2> QED
      BY <1>0, <1>1, <1>5, <1>12, <1>13, <1>15, <1>16, <1>17, <2>1 DEF Dealt, Sent
  <1> QED
    BY <1>18, DealtIInv

LEMMA TradeUpIInv ==
    ASSUME ToolsIInv, NEW inputs \in [1..Contract -> DOMAIN game], TradeUp(inputs)
    PROVE  ToolsIInv'
  <1> DEFINE S == ToSet(inputs)
  <1>1. PICK rarity \in 0..(MaxRarity - 1), counted \in BOOLEAN :
          /\ \A i \in S : items[i].rarity = rarity /\ (items[i].kills # none) = counted
          /\ LET new == Weapon(rarity + 1, IF counted THEN 0 ELSE none) IN
               /\ Create(<<new>>)
               /\ items' = Without(With(items, One(lastId', new)), S)
    BY DEF TradeUp
  <1> DEFINE k == IF counted THEN 0 ELSE none
             x == Weapon(rarity + 1, k)
  <1>2. /\ S \subseteq Held /\ IsInjective(inputs)
        /\ \A i \in S : items[i].def = "weapon" /\ ~items[i].clone
        /\ Send(Destroys(inputs) \o <<ItemObject(lastId'), Notification({lastId'})>>)
        /\ UNCHANGED <<granted, hidden, bare>>
    BY DEF TradeUp
  <1>3. rarity \in Nat /\ rarity + 1 \in 0..MaxRarity /\ Contract \in Nat
    BY ItemToolsAssumption
  <1>4. x \in Item /\ ~x.clone /\ Worth(x) = Power(rarity + 1) /\ Kills(x) = 0
    BY <1>3, WeaponIs
  <1> HIDE DEF k
  <1>5. Create(<<x>>) /\ items' = Without(With(items, One(lastId', x)), S)
    BY <1>1 DEF k
  <1> HIDE DEF x
  <1>6. /\ lastId' = lastId + 1 /\ lastId' \in lastId..MaxId /\ lastId' \notin Held
    BY <1>5, CreateOne, NextIs
  <1>7. lastId' <= MaxId
    BY <1>6, ToolsIs
  <1>8. PICK i : i = lastId'
    OBVIOUS
  <1>9. inputs \in Seq(Held) /\ Len(inputs) = Contract
    <2>1. \A n \in 1..Contract : inputs[n] \in S
      <3>1. DOMAIN inputs = 1..Contract
        OBVIOUS
      <3> QED
        BY <3>1 DEF ToSet
    <2>2. inputs = [n \in 1..Contract |-> inputs[n]]
      OBVIOUS
    <2>3. PICK H : H = Held
      OBVIOUS
    <2>4. \A n \in 1..Contract : inputs[n] \in H
      BY <1>2, <2>1, <2>3
    <2> HIDE DEF S
    <2>5. inputs \in Seq(H) /\ Len(inputs) = Contract
      BY <1>3, <2>2, <2>4
    <2> QED
      BY <2>3, <2>5
  <1>10. S \cap hidden = {}
    <2>1. S \subseteq DOMAIN game
      BY DEF ToSet
    <2>2. DOMAIN game \cap hidden = {}
      BY ToolsIs
    <2> HIDE DEF S
    <2> QED
      BY <2>1, <2>2
  <1>11. items'[i] = x
    <2>1. i \notin S
      BY <1>2, <1>6, <1>8
    <2>2. Without(With(items, One(i, x)), S)[i] = x
      <3> HIDE DEF S
      <3> QED
        BY <2>1 DEF Without, With, One
    <2> QED
      BY <1>5, <1>8, <2>2
  <1>12. PICK ms : ms = Destroys(inputs) \o <<ItemMessage(i, x), Notification({i})>>
    OBVIOUS
  <1>13. Sent(ms)
    <2>1. ItemObject(i) = ItemMessage(i, x)
      BY <1>11 DEF ItemObject, ItemMessage
    <2> QED
      BY <1>2, <1>8, <1>12, <2>1 DEF Send, Sent
  <1>14. rarity + 1 <= MaxRarity
    BY <1>3, ItemToolsAssumption
  <1>15. Traded(ms, inputs, i, x, rarity)
    BY <1>1, <1>2, <1>3, <1>4, <1>5, <1>6, <1>7, <1>8, <1>9, <1>10, <1>12, <1>13, <1>14 DEF Traded
  <1> QED
    BY <1>15, TradedIInv

-------------------------------------------------------------------------------
(* The specification keeps the invariant.                                  *)

LEMMA ToolsInitIInv == ToolsInit => ToolsIInv
<1> SUFFICES ASSUME ToolsInit PROVE ToolsIInv
  OBVIOUS
<1>1. /\ items \in Seq(Item) /\ Len(items) <= MaxId /\ lastId = Len(items)
      /\ \A i \in DOMAIN items : items[i].clone => items[i].def \in BaseItems
  BY ItemToolsAssumption DEF ToolsInit
<1>2. /\ destroyUsedItems \in BOOLEAN /\ game = items
      /\ granted = [worth |-> WorthOf(items), kills |-> KillsOf(items)]
      /\ hidden = {} /\ bare = {i \in Held : IsUncustomizedBaseItemClone(items[i])}
  BY DEF ToolsInit
<1>3. MaxId \in Nat /\ lastId \in Nat /\ lastId \in 0..MaxId
  BY <1>1, ItemToolsAssumption
<1>4. Held = 1..lastId /\ items \in [Held -> Item]
  BY <1>1 DEF Held
<1>5. items \in Items /\ items \in Inventories
  <2>1. 1..lastId \subseteq Nat /\ 1..lastId \subseteq 1..MaxId
    BY <1>3
  <2> QED
    BY <1>4, <2>1, ItemsAre, InventoriesAre DEF Held
<1>6. WorthOf(items) \in Nat /\ KillsOf(items) \in Nat
  BY <1>5, EntryIs, ValueNames
<1>7. ToolsTypeOK
  BY <1>2, <1>3, <1>4, <1>6 DEF ToolsTypeOK
<1>8. NothingFromNothing
  BY <1>2, <1>6 DEF NothingFromNothing
<1>9. Heard(game, toGame, World(items, hidden, lastId))
  <2>1. PICK w : w = World(items, hidden, lastId)
    OBVIOUS
  <2>2. w.items = items /\ w.hidden = {} /\ w.last = lastId
    BY <1>2, <2>1 DEF World
  <2>3. Without(items, {}) = items
    BY <1>5, WithoutNone, ItemsAre
  <2>4. /\ From(items) \in Copies /\ From(items).cache = items /\ From(items).seen = DOMAIN items
        /\ From(items).ok
    BY <1>5, FromIs
  <2>5. Agrees(From(items), w)
    BY <1>3, <1>4, <1>5, <2>2, <2>3, <2>4 DEF Agrees, Held
  <2>6. PICK e : e = <<>>
    OBVIOUS
  <2>7. e \in Seq(Message) /\ Reduced(2, From(items), e) = From(items)
    BY <2>6, ReducedNone
  <2>8. Heard(items, e, w)
    BY <1>5, <2>5, <2>7 DEF Heard
  <2>9. toGame = e
    BY <2>6 DEF ToolsInit
  <2> QED
    BY <1>2, <2>1, <2>8, <2>9
<1>10. Clones(items, bare)
  BY <1>1, <1>2 DEF Clones, Held, IsUncustomizedBaseItemClone
<1> QED
  BY <1>7, <1>8, <1>9, <1>10 DEF ToolsIInv

LEMMA RequestIInv == ASSUME ToolsIInv, Request PROVE ToolsIInv'
<1>1. ASSUME NEW tool \in DOMAIN game, NEW slot \in Slots, NEW i \in DOMAIN game,
             ApplySticker(tool, slot, i)
      PROVE  ToolsIInv'
  BY <1>1, ApplyStickerIInv
<1>2. ASSUME NEW tool \in DOMAIN game, NEW slot \in Slots, NEW def \in BaseItems,
             ApplyStickerToBaseItem(tool, slot, def)
      PROVE  ToolsIInv'
  BY <1>2, ApplyStickerToBaseItemIInv
<1>3. ASSUME NEW i \in DOMAIN game, NEW slot \in Slots, ScrapeSticker(i, slot) PROVE ToolsIInv'
  BY <1>3, ScrapeStickerIInv
<1>4. ASSUME NEW tag \in DOMAIN game, NEW named \in BOOLEAN, NEW i \in DOMAIN game,
             NameItem(tag, i, named)
      PROVE  ToolsIInv'
  BY <1>4, NameItemIInv
<1>5. ASSUME NEW tag \in DOMAIN game, NEW named \in BOOLEAN, NEW def \in BaseItems,
             NameBaseItem(tag, def, named)
      PROVE  ToolsIInv'
  BY <1>5, NameBaseItemIInv
<1>6. ASSUME NEW i \in DOMAIN game, RemoveItemName(i) PROVE ToolsIInv'
  BY <1>6, RemoveItemNameIInv
<1>7. ASSUME NEW i \in DOMAIN game, OpenSouvenirPackage(i) PROVE ToolsIInv'
  BY <1>7, OpenSouvenirPackageIInv
<1>8. ASSUME NEW i \in DOMAIN game, OpenBundle(i) PROVE ToolsIInv'
  BY <1>8, OpenBundleIInv
<1>9. ASSUME NEW crate \in DOMAIN game, NEW key \in DOMAIN game \cup {none}, UnlockCrate(crate, key)
      PROVE  ToolsIInv'
  BY <1>9, UnlockCrateIInv
<1>10. ASSUME NEW tool \in DOMAIN game, NEW a \in DOMAIN game, NEW b \in DOMAIN game,
              PerformCounterSwap(tool, a, b)
       PROVE  ToolsIInv'
  BY <1>10, PerformCounterSwapIInv
<1>11. ASSUME NEW inputs \in [1..Contract -> DOMAIN game], TradeUp(inputs) PROVE ToolsIInv'
  BY <1>11, TradeUpIInv
<1> QED
  BY <1>1, <1>2, <1>3, <1>4, <1>5, <1>6, <1>7, <1>8, <1>9, <1>10, <1>11 DEF Request

LEMMA ToolsNextIInv == ToolsIInv /\ [ToolsNext]_toolsVars => ToolsIInv'
<1> SUFFICES ASSUME ToolsIInv, [ToolsNext]_toolsVars PROVE ToolsIInv'
  OBVIOUS
<1>1. CASE Request
  BY <1>1, RequestIInv
<1>2. ASSUME NEW i \in Held, RemoveItem(i) PROVE ToolsIInv'
  BY <1>2, RemoveItemIInv
<1>3. ASSUME NEW item \in Gifts, CreateRconItem(item) PROVE ToolsIInv'
  BY <1>3, CreateRconItemIInv
<1>4. CASE RefreshInventory
  BY <1>4, RefreshInventoryIInv
<1>5. CASE GameReceives
  BY <1>5, GameReceivesIInv
<1>6. CASE UNCHANGED toolsVars
  <2>1. UNCHANGED <<items, lastId, destroyUsedItems, toGame, game, granted, hidden, bare>>
    BY <1>6 DEF toolsVars, inventory
  <2>2. ToolsTypeOK' /\ NothingFromNothing'
    BY <2>1 DEF ToolsIInv, ToolsTypeOK, NothingFromNothing, Held, KillsOf, WorthOf
  <2> QED
    BY <2>1, <2>2 DEF ToolsIInv
<1> QED
  BY <1>1, <1>2, <1>3, <1>4, <1>5, <1>6 DEF ToolsNext

\* The inductive invariant of the item tools: the types, the accounts, what the game has been
\* sent, and which clones carry nothing.
THEOREM ToolsInvariant == ToolsSpec => []ToolsIInv
  BY ToolsInitIInv, ToolsNextIInv, PTL DEF ToolsSpec

\* No sequence of requests and commands, on ids the game still sees or sees twice, makes the
\* items worth more than what was given, nor counts a kill twice (inventory.cpp:3427-3431,
\* 3001-3008).
THEOREM NothingIsFree == ToolsSpec => []NothingFromNothing
<1>1. ToolsIInv => NothingFromNothing
  BY DEF ToolsIInv
<1> QED
  BY <1>1, ToolsInvariant, PTL

\* The messages a game has not fetched yet bring it to the inventory, but for the clones of
\* failed requests (inventory.cpp:1958-1985), and name no item before it has it.
THEOREM GameHearsAll == ToolsSpec => []GameSeesEverything
<1>1. ToolsIInv => GameSeesEverything
  <2> SUFFICES ASSUME ToolsIInv PROVE GameSeesEverything
    OBVIOUS
  <2>1. PICK w : w = World(items, hidden, lastId)
    OBVIOUS
  <2>2. Heard(game, toGame, w) /\ w.items = items /\ w.hidden = hidden
    BY <2>1 DEF ToolsIInv, World
  <2>3. Fetched = Without(items, hidden)
    BY <2>2, HeardIs DEF Fetched
  <2>4. NotifiedItemsAreThere
    BY <2>2, HeardNext DEF NotifiedItemsAreThere
  <2> QED
    BY <2>3, <2>4 DEF GameSeesEverything
<1> QED
  BY <1>1, ToolsInvariant, PTL

\* A clone of a base item is in the inventory with something on it, or a request failed or
\* gave it an empty name (inventory.cpp:2097, 2455).
THEOREM ClonesAreCustomized == ToolsSpec => []CloneIsCustomized
<1>1. ToolsIInv => CloneIsCustomized
  BY DEF ToolsIInv, Clones, CloneIsCustomized, Held
<1> QED
  BY <1>1, ToolsInvariant, PTL

-------------------------------------------------------------------------------
(* The saved item shuffles.  Sums over a queue from a place on.            *)

\* What t has is what s has from a place on.
LEMMA TotalShifted ==
    ASSUME NEW s, NEW t, NEW a \in Nat, NEW m \in Nat,
           \A i \in 1 .. (a + m) : s[i] \in Nat, \A i \in 1..m : t[i] = s[a + i]
    PROVE  Total(s, a + m) = Total(s, a) + Total(t, m)
  <1> DEFINE T == {n \in Nat : n <= m => Total(s, a + n) = Total(s, a) + Total(t, n)}
  <1>0. Total(s, a) \in Nat
    BY TotalIsNat
  <1>1. 0 \in T
    BY <1>0, TotalNone
  <1>2. ASSUME NEW n \in Nat, n \in T, n + 1 <= m PROVE n + 1 \in T
    <2>1. Total(t, n + 1) = Total(t, n) + t[n + 1]
      BY TotalMore
    <2>2. Total(s, a + (n + 1)) = Total(s, a + n) + s[a + (n + 1)]
      <3>1. a + n \in Nat /\ a + (n + 1) = (a + n) + 1
        OBVIOUS
      <3>2. Total(s, (a + n) + 1) = Total(s, a + n) + s[(a + n) + 1]
        BY <3>1, TotalMore
      <3> QED
        BY <3>1, <3>2
    <2>3. t[n + 1] = s[a + (n + 1)] /\ s[a + (n + 1)] \in Nat
      BY <1>2
    <2>4. Total(t, n) \in Nat
      BY <1>2, TotalIsNat
    <2>5. Total(s, a + n) = Total(s, a) + Total(t, n)
      BY <1>2
    <2>6. Total(s, a + (n + 1)) = Total(s, a) + Total(t, n + 1)
      BY <1>0, <2>1, <2>2, <2>3, <2>4, <2>5
    <2> QED
      BY <2>6
  <1>3. Nat \subseteq T
    <2>1. \A n \in Nat : n \in T => n + 1 \in T
      BY <1>2
    <2> HIDE DEF T
    <2> QED
      BY <1>1, <2>1, Induction
  <1> QED
    BY <1>3

Continues(s, t, a, m) ==
    /\ a \in Nat /\ m \in Nat
    /\ \A i \in 1 .. (a + m) : s[i] \in Nat
    /\ \A i \in 1..m : t[i] = s[a + i]

LEMMA TotalContinued ==
    ASSUME NEW s, NEW t, NEW a, NEW m, Continues(s, t, a, m)
    PROVE  Total(s, a + m) = Total(s, a) + Total(t, m)
  BY TotalShifted DEF Continues

LEMMA TotalGrows ==
    ASSUME NEW s, NEW a \in Nat, NEW b \in Nat, a <= b, \A i \in 1..b : s[i] \in Nat
    PROVE  Total(s, a) \in Nat /\ Total(s, b) \in Nat /\ Total(s, a) <= Total(s, b)
  <1> DEFINE t == [i \in 1 .. (b - a) |-> s[a + i]]
             m == b - a
  <1>1. m \in Nat /\ a + m = b /\ \A i \in 1..m : t[i] = s[a + i] /\ t[i] \in Nat
    OBVIOUS
  <1> HIDE DEF t, m
  <1>2. Total(s, a + m) = Total(s, a) + Total(t, m)
    BY <1>1, TotalShifted
  <1>3. Total(t, m) \in Nat
    BY <1>1, TotalIsNat
  <1>4. Total(s, a) \in Nat /\ Total(s, b) \in Nat
    BY TotalIsNat
  <1> QED
    BY <1>1, <1>2, <1>3, <1>4

\* What the elements from the n-th of l on add up to.
Rest(s, n, l) == Total(s, l) - Total(s, n - 1)

\* The first k of l elements go and one comes at the end.
Shifts(s, t, l, k) ==
    /\ l \in Nat /\ k \in 0..l /\ \A i \in 1..l : s[i] \in Nat
    /\ \A i \in 1 .. (l - k) : t[i] = s[k + i]
    /\ t[l - k + 1] \in Nat

LEMMA RestShifted ==
    ASSUME NEW s, NEW t, NEW l, NEW k, Shifts(s, t, l, k)
    PROVE  /\ Total(t, l - k + 1) = Total(s, l) - Total(s, k) + t[l - k + 1]
           /\ \A p \in 1 .. (l - k) : Rest(t, p, l - k + 1) = Rest(s, k + p, l) + t[l - k + 1]
           /\ Rest(t, l - k + 1, l - k + 1) = t[l - k + 1]
  <1> USE DEF Shifts
  <1> DEFINE m == l - k
  <1>0. m \in Nat /\ k \in Nat /\ k + m = l
    OBVIOUS
  <1>1. Total(t, m + 1) = Total(t, m) + t[m + 1]
    BY <1>0, TotalMore
  <1>2. Total(s, l) = Total(s, k) + Total(t, m)
    <2>2. (\A i \in 1 .. (k + m) : s[i] \in Nat) /\ \A i \in 1..m : t[i] = s[k + i]
      BY <1>0
    <2> HIDE DEF m
    <2>1. Total(s, k + m) = Total(s, k) + Total(t, m)
      BY <1>0, <2>2, TotalShifted
    <2> QED
      BY <1>0, <2>1
  <1>3. Total(s, l) \in Nat /\ Total(s, k) \in Nat /\ Total(t, m) \in Nat
    BY <1>0, TotalIsNat
  <1>4. ASSUME NEW p \in 1..m
        PROVE  Rest(t, p, m + 1) = Rest(s, k + p, l) + t[m + 1]
    <2> DEFINE q == p - 1
    <2>1. q \in Nat /\ k + q = k + p - 1 /\ q <= m
      OBVIOUS
    <2>2. Total(s, k + q) = Total(s, k) + Total(t, q)
      BY <1>0, <2>1, TotalShifted
    <2>3. Total(t, q) \in Nat
      BY <1>0, <2>1, TotalIsNat
    <2>4. Rest(s, k + p, l) = Total(s, l) - Total(s, k + q) /\ Rest(t, p, m + 1) = Total(t, m + 1) - Total(t, q)
      BY <2>1 DEF Rest
    <2>5. t[m + 1] \in Nat
      OBVIOUS
    <2> HIDE DEF q, m
    <2> QED
      BY <1>1, <1>2, <1>3, <2>2, <2>3, <2>4, <2>5
  <1>5. Rest(t, m + 1, m + 1) = t[m + 1]
    <2>1. (m + 1) - 1 = m /\ t[m + 1] \in Nat
      BY <1>0
    <2> HIDE DEF m
    <2> QED
      BY <1>1, <1>3, <2>1 DEF Rest
  <1>6. Total(t, m + 1) = Total(s, l) - Total(s, k) + t[m + 1]
    <2>1. t[m + 1] \in Nat
      OBVIOUS
    <2> HIDE DEF m
    <2> QED
      BY <1>1, <1>2, <1>3, <2>1
  <1> QED
    BY <1>4, <1>5, <1>6

\* One of l elements goes.
LEMMA RestWithout ==
    ASSUME NEW s, NEW t, NEW l \in Nat, NEW q \in 1..l, \A i \in 1..l : s[i] \in Nat,
           \A i \in 1 .. (l - 1) : t[i] = IF i < q THEN s[i] ELSE s[i + 1]
    PROVE  /\ Total(t, l - 1) = Total(s, l) - s[q]
           /\ \A p \in 1 .. (l - 1) :
                IF p < q THEN Rest(t, p, l - 1) = Rest(s, p, l) - s[q]
                         ELSE Rest(t, p, l - 1) = Rest(s, p + 1, l)
  <1> DEFINE a == q - 1
  <1>0. a \in Nat /\ a + 1 = q /\ q \in Nat /\ l - 1 \in Nat
    OBVIOUS
  <1>1. ASSUME NEW n \in 0..a PROVE Total(t, n) = Total(s, n)
    BY TotalSame
  <1>2. Total(s, q) = Total(s, a) + s[q]
    BY <1>0, TotalMore
  <1>3. ASSUME NEW n \in a .. (l - 1)
        PROVE  /\ Total(t, n) = Total(s, n + 1) - s[q]
               /\ Total(t, n) \in Nat /\ Total(s, n + 1) \in Nat
    <2> DEFINE m == n - a
               w == [i \in 1..m |-> s[q + i]]
    <2>1. m \in Nat /\ a + m = n /\ q + m = n + 1
      BY <1>0
    <2>2. PICK u : \A i \in 1..m : u[i] = s[q + i] /\ u[i] = t[a + i]
      <3>1. ASSUME NEW i \in 1..m PROVE w[i] = s[q + i] /\ w[i] = t[a + i]
        <4>1. a + i \in 1 .. (l - 1) /\ ~(a + i < q) /\ (a + i) + 1 = q + i
          BY <1>0
        <4>2. t[a + i] = s[(a + i) + 1]
          BY <4>1
        <4> QED
          BY <4>1, <4>2
      <3> QED
        BY <3>1
    <2>3. \A i \in 1 .. (l - 1) : t[i] \in Nat
      OBVIOUS
    <2>4. (\A i \in 1 .. (a + m) : t[i] \in Nat) /\ (\A i \in 1 .. (q + m) : s[i] \in Nat)
      BY <1>0, <2>1, <2>3
    <2> HIDE DEF m, a
    <2>5. Total(t, a + m) = Total(t, a) + Total(u, m)
      <3>1. \A i \in 1..m : u[i] = t[a + i]
        BY <2>2
      <3>2. a \in Nat /\ m \in Nat /\ \A i \in 1 .. (a + m) : t[i] \in Nat
        BY <1>0, <2>1, <2>4
      <3> QED
        BY <3>1, <3>2, TotalShifted
    <2>6. Total(s, q + m) = Total(s, q) + Total(u, m)
      <3>1. \A i \in 1..m : u[i] = s[q + i]
        BY <2>2
      <3> QED
        BY <1>0, <2>1, <2>4, <3>1, TotalShifted
    <2>7. Total(t, a) = Total(s, a)
      BY <1>0, <1>1
    <2>8. Total(s, a) \in Nat /\ Total(t, a + m) \in Nat /\ Total(s, q + m) \in Nat /\ s[q] \in Nat
      <3>1. a <= q + m
        BY <1>0, <2>1
      <3> QED
        BY <1>0, <2>1, <2>4, <3>1, TotalGrows, TotalIsNat
    <2>9. \A i \in 1..m : u[i] \in Nat
      <3>1. ASSUME NEW i \in 1..m PROVE u[i] \in Nat
        <4>1. q + i \in 1 .. (q + m) /\ u[i] = s[q + i]
          BY <1>0, <2>1, <2>2
        <4> QED
          BY <2>4, <4>1
      <3> QED
        BY <3>1
    <2>10. Total(u, m) \in Nat
      BY <2>1, <2>9, TotalIsNat
    <2> QED
      BY <1>2, <2>1, <2>5, <2>6, <2>7, <2>8, <2>10
  <1>4. Total(t, l - 1) = Total(s, l) - s[q]
    <2>1. l - 1 \in a .. (l - 1) /\ (l - 1) + 1 = l
      OBVIOUS
    <2>2. Total(t, l - 1) = Total(s, (l - 1) + 1) - s[q]
      BY <1>3, <2>1
    <2> QED
      BY <2>1, <2>2
  <1>5. Total(s, l) \in Nat /\ s[q] \in Nat
    BY TotalIsNat
  <1>6. ASSUME NEW p \in 1 .. (l - 1), p < q PROVE Rest(t, p, l - 1) = Rest(s, p, l) - s[q]
    <2>1. p - 1 \in 0..a /\ p - 1 \in Nat
      BY <1>6
    <2>2. Total(t, p - 1) = Total(s, p - 1)
      BY <1>1, <2>1
    <2>3. \A i \in 1 .. (p - 1) : s[i] \in Nat
      OBVIOUS
    <2>4. Total(s, p - 1) \in Nat
      BY <2>1, <2>3, TotalIsNat
    <2> QED
      BY <1>4, <1>5, <2>2, <2>4 DEF Rest
  <1>7. ASSUME NEW p \in 1 .. (l - 1), ~(p < q) PROVE Rest(t, p, l - 1) = Rest(s, p + 1, l)
    <2>1. p - 1 \in a .. (l - 1) /\ (p - 1) + 1 = p /\ (p + 1) - 1 = p
      BY <1>7
    <2>2. Total(t, p - 1) = Total(s, (p - 1) + 1) - s[q] /\ Total(s, (p - 1) + 1) \in Nat
      BY <1>3, <2>1
    <2>3. Total(t, p - 1) = Total(s, p) - s[q] /\ Total(s, p) \in Nat
      BY <2>1, <2>2
    <2>4. Rest(s, p + 1, l) = Total(s, l) - Total(s, p)
      BY <2>1 DEF Rest
    <2> QED
      BY <1>4, <1>5, <2>3, <2>4 DEF Rest
  <1> QED
    BY <1>4, <1>6, <1>7

\* What is left of a sequence without its first k elements.
LEMMA PartIs ==
    ASSUME NEW s \in Seq(Nat), NEW k \in 0..Len(s)
    PROVE  /\ SubSeq(s, k + 1, Len(s)) \in Seq(Nat) /\ Len(SubSeq(s, k + 1, Len(s))) = Len(s) - k
           /\ \A p \in 1 .. (Len(s) - k) : SubSeq(s, k + 1, Len(s))[p] = s[k + p]
  <1> DEFINE m == k + 1
             n == Len(s)
  <1>1. m \in Int /\ n \in Int /\ \A i \in m .. n : s[i] \in Nat
    OBVIOUS
  <1>2. /\ SubSeq(s, m, n) \in Seq(Nat)
        /\ Len(SubSeq(s, m, n)) = IF m <= n THEN n - m + 1 ELSE 0
        /\ \A i \in 1 .. n - m + 1 : SubSeq(s, m, n)[i] = s[m + i - 1]
    BY <1>1, SubSeqProperties
  <1>3. n - m + 1 = n - k /\ (~(m <= n) => n - k = 0) /\ \A i \in Int : m + i - 1 = k + i
    BY <1>1
  <1>4. ASSUME NEW p \in 1 .. (n - k) PROVE SubSeq(s, m, n)[p] = s[k + p]
    <2>1. p \in 1 .. n - m + 1 /\ m + p - 1 = k + p
      <3>1. n \in Nat /\ k \in 0..n /\ p \in 1 .. (n - k)
        OBVIOUS
      <3> HIDE DEF n
      <3> QED
        BY <3>1
    <2> QED
      BY <1>2, <2>1
  <1> QED
    BY <1>2, <1>3, <1>4

LEMMA LeastOf == ASSUME NEW S \in SUBSET Nat, S # {} PROVE Min(S) \in S /\ \A x \in S : Min(S) <= x
  <1>1. PICK m \in S : \A x \in S : <<x, m>> \notin OpToRel(<, Nat)
    BY NatLessThanWellFounded, WFMin
  <1>2. ASSUME NEW x \in S, x < m PROVE FALSE
    <2>1. <<x, m>> \in OpToRel(<, Nat)
      BY <1>2 DEF OpToRel
    <2> QED
      BY <1>1, <2>1
  <1>3. \A x \in S : m <= x
    BY <1>2
  <1> QED
    BY <1>3 DEF Min

\* A set whose elements a sequence lists once each is as large as the sequence is long.
LEMMA CountedOnce ==
    ASSUME NEW s, NEW l \in Nat, NEW D, \A i \in 1..l : s[i] \in D,
           \A d \in D : \E i \in 1..l : s[i] = d, \A i, j \in 1..l : s[i] = s[j] => i = j
    PROVE  Cardinality(D) = l
  <1> DEFINE f == [i \in 1..l |-> s[i]]
  <1>1. f \in Bijection(1..l, D)
    BY DEF Bijection, Injection, Surjection, IsInjective
  <1>2. ExistsBijection(1..l, D)
    BY <1>1 DEF ExistsBijection
  <1> QED
    BY <1>2, FS_CountingElements

-------------------------------------------------------------------------------
(* The inductive invariant.                                                *)

WriteType == [size : Nat, done : Nat, synced : BOOLEAN, failed : BOOLEAN]

\* What a thread may be at: nothing; a file that never had the name; a read of a file that had.
Jobs ==
    {Idle}
      \cup [step : {"writing", "written"}, write : DOMAIN writes \ earlier]
      \cup [step : {"reading"}, id : 1 .. (readCounter - 1), range : Ranges, write : earlier]

CallType ==
    [result : {"ok", "fail", "file_not_found", "invalid_param"}, range : Ranges,
     write : earlier \cup {none}, count : 0..MaxCloudFileChunkSize]

StoredType == [id : 1 .. (readCounter - 1), count : 0..MaxCloudFileChunkSize]

ShufflesTypeOK ==
    /\ writes \in Seq(WriteType)
    /\ earlier \subseteq DOMAIN writes \cup {none} /\ file \in earlier
    /\ thread \in [Threads -> Jobs]
    /\ readCounter \in Nat \ {0}
    /\ readCalls \in [DOMAIN readCalls -> CallType]
    /\ readCallOrder \in Seq(Nat)
    /\ pendingReadBytes \in Nat
    /\ stored \in Seq(StoredType)

Writes(t) == thread[t].step \in {"writing", "written"}

Careful(t) ==
    Writes(t) => /\ ~writes[thread[t].write].failed
                 /\ thread[t].step = "written" => Whole(thread[t].write) /\ writes[thread[t].write].synced

Apart(t, u) == Writes(t) /\ Writes(u) /\ thread[t].write = thread[u].write => t = u

\* What had the name is whole and on the disk.  Each thread writes a file of its own.
Replaced ==
    /\ \A w \in earlier \ {none} : Whole(w) /\ writes[w].synced
    /\ \A t \in Threads : Careful(t)
    /\ \A t, u \in Threads : Apart(t, u)

Answered ==
    \A id \in DOMAIN readCalls : LET call == readCalls[id] IN
        call.result = "ok" =>
          /\ call.write \in earlier \ {none}
          /\ call.count = Cut(writes[call.write].size, call.range)

Bytes == [n \in DOMAIN readCallOrder |-> readCalls[readCallOrder[n]].count]
Counts == [n \in DOMAIN stored |-> stored[n].count]

\* A call has one place in the order, and its bytes are counted.
Queue ==
    /\ \A p \in 1..Len(readCallOrder) : readCallOrder[p] \in DOMAIN readCalls
    /\ \A id \in DOMAIN readCalls : \E p \in 1..Len(readCallOrder) : readCallOrder[p] = id
    /\ \A p, q \in 1..Len(readCallOrder) : readCallOrder[p] = readCallOrder[q] => p = q
    /\ pendingReadBytes = Total(Bytes, Len(readCallOrder))
    /\ Len(readCallOrder) <= MaxPendingReadCalls /\ pendingReadBytes <= MaxCloudFileChunkSize

\* An identifier is given once.
Identified ==
    /\ \A m, n \in 1..Len(stored) : stored[m].id = stored[n].id => m = n
    /\ \A t \in Threads : thread[t].step = "reading" =>
         \A n \in 1..Len(stored) : stored[n].id # thread[t].id
    /\ \A t, u \in Threads :
         thread[t].step = "reading" /\ thread[u].step = "reading" /\ thread[t].id = thread[u].id
         => t = u
    /\ \A p \in 1..Len(readCallOrder) : \E n \in 1..Len(stored) : stored[n].id = readCallOrder[p]

\* No more calls and bytes come after a call in the order than after it was stored.
Behind ==
    \A p \in 1..Len(readCallOrder), n \in 1..Len(stored) : readCallOrder[p] = stored[n].id =>
        /\ Len(readCallOrder) - p <= Len(stored) - n
        /\ Rest(Bytes, p, Len(readCallOrder)) <= Rest(Counts, n, Len(stored))

\* A call that is gone was fetched, or there were too many or too large ones after it.
Gone ==
    \A n \in 1..Len(stored) :
        \/ stored[n].id \in fetched \/ stored[n].id \in DOMAIN readCalls
        \/ Len(stored) - n >= MaxPendingReadCalls
        \/ Rest(Counts, n, Len(stored)) > MaxCloudFileChunkSize

ShufflesIInv == ShufflesTypeOK /\ Replaced /\ Answered /\ Queue /\ Identified /\ Behind /\ Gone

LEMMA ShufflesFacts ==
    /\ MaxCloudFileChunkSize \in Nat /\ MaxPendingReadCalls \in Nat /\ MaxPendingReadCalls >= 1
    /\ \A n \in Nat : n # none
    /\ \A r \in Ranges : r.offset \in Nat /\ r.size \in Nat
  <1>1. \A n \in Nat : n # none
    BY ShufflesAssumption
  <1>2. MaxCloudFileChunkSize \in Nat /\ MaxPendingReadCalls \in Nat /\ MaxPendingReadCalls >= 1
    BY ShufflesAssumption
  <1>3. \A r \in Ranges : r \in [offset : Nat, size : Nat]
    BY ShufflesAssumption
  <1> QED
    BY <1>1, <1>2, <1>3

LEMMA JobIs ==
    ASSUME ShufflesTypeOK, NEW t \in Threads
    PROVE  /\ thread[t].step \in {"idle", "writing", "written", "reading"}
           /\ thread[t].step \in {"writing", "written"} => thread[t].write \in DOMAIN writes \ earlier
           /\ thread[t].step = "reading" =>
                /\ thread[t].id \in 1 .. (readCounter - 1)
                /\ thread[t].range \in Ranges /\ thread[t].write \in earlier
  <1>1. thread[t] \in Jobs
    BY DEF ShufflesTypeOK
  <1>2. CASE thread[t] = Idle
    BY <1>2 DEF Idle
  <1>3. CASE thread[t] \in [step : {"writing", "written"}, write : DOMAIN writes \ earlier]
    BY <1>3
  <1>4. CASE thread[t] \in [step : {"reading"}, id : 1 .. (readCounter - 1), range : Ranges, write : earlier]
    BY <1>4
  <1> QED
    BY <1>1, <1>2, <1>3, <1>4 DEF Jobs

\* The type of the threads is the type of each.
LEMMA JobsStay ==
    ASSUME ShufflesTypeOK, NEW t \in Threads, NEW job, job \in Jobs',
           thread' = [thread EXCEPT ![t] = job],
           \A u \in Threads \ {t} : thread[u] \in Jobs'
    PROVE  (thread \in [Threads -> Jobs])'
  BY DEF ShufflesTypeOK

LEMMA ShufflesInitIInv == ShufflesInit => ShufflesIInv
  <1> SUFFICES ASSUME ShufflesInit PROVE ShufflesIInv
    OBVIOUS
  <1> USE DEF ShufflesInit
  <1>1. PICK e : e = <<>>
    OBVIOUS
  <1>2. Len(e) = 0 /\ DOMAIN e = {} /\ \A S : e \in Seq(S)
    BY <1>1
  <1>3. writes = e /\ readCalls = e /\ readCallOrder = e /\ stored = e
    BY <1>1
  <1>4. ShufflesTypeOK
    <2>1. thread \in [Threads -> Jobs]
      BY DEF Jobs
    <2>2. readCalls \in [DOMAIN readCalls -> CallType]
      BY <1>1, <1>2, <1>3
    <2>3. 1 \in Nat \ {0} /\ 0 \in Nat
      OBVIOUS
    <2> HIDE DEF ShufflesInit
    <2> QED
      BY <1>2, <1>3, <2>1, <2>2, <2>3 DEF ShufflesTypeOK, ShufflesInit
  <1>5. Replaced
    BY DEF Replaced, Idle, Careful, Apart, Writes
  <1>6. Answered
    BY <1>2, <1>3 DEF Answered
  <1>7. Queue
    <2>1. Total(Bytes, 0) = 0
      BY TotalNone
    <2> QED
      BY <1>2, <1>3, <2>1, ShufflesFacts DEF Queue
  <1>8. Identified
    BY <1>2, <1>3 DEF Identified, Idle
  <1>9. Behind /\ Gone
    BY <1>2, <1>3 DEF Behind, Gone
  <1> QED
    BY <1>4, <1>5, <1>6, <1>7, <1>8, <1>9 DEF ShufflesIInv

\* A step on the disk: files keep their sizes, what had the name had it.
LEMMA CallsStay ==
    ASSUME ShufflesIInv, UNCHANGED <<calls, readCounter, stored, fetched>>,
           DOMAIN writes \subseteq DOMAIN writes', earlier \subseteq earlier',
           \A w \in DOMAIN writes : writes'[w].size = writes[w].size,
           \A t \in Threads : thread'[t] = thread[t] \/ thread'[t].step # "reading"
    PROVE  /\ (readCalls \in [DOMAIN readCalls -> CallType])'
           /\ Answered' /\ Queue' /\ Identified' /\ Behind' /\ Gone'
  <1> USE DEF ShufflesIInv
  <1>1. UNCHANGED <<readCalls, readCallOrder, pendingReadBytes, stored, fetched>>
    BY DEF calls
  <1>2. (readCalls \in [DOMAIN readCalls -> CallType])'
    <2>1. CallType \subseteq CallType'
      BY DEF CallType
    <2> QED
      BY <1>1, <2>1 DEF ShufflesTypeOK
  <1>3. Bytes' = Bytes /\ Counts' = Counts
    BY <1>1 DEF Bytes, Counts
  <1>4. Queue' /\ Behind' /\ Gone'
    BY <1>1, <1>3 DEF Queue, Behind, Gone
  <1>5. Identified'
    BY <1>1 DEF Identified
  <1>6. Answered'
    <2> SUFFICES ASSUME NEW id \in DOMAIN readCalls, readCalls[id].result = "ok"
                 PROVE  /\ readCalls[id].write \in earlier' \ {none}
                        /\ readCalls[id].count = Cut(writes'[readCalls[id].write].size, readCalls[id].range)
      BY <1>1 DEF Answered
    <2>1. /\ readCalls[id].write \in earlier \ {none}
          /\ readCalls[id].count = Cut(writes[readCalls[id].write].size, readCalls[id].range)
      BY DEF Answered
    <2>2. readCalls[id].write \in DOMAIN writes
      BY <2>1 DEF ShufflesTypeOK
    <2> QED
      BY <2>1, <2>2
  <1> QED
    BY <1>2, <1>4, <1>5, <1>6

LEMMA OpenTemporaryStep ==
    ASSUME ShufflesIInv, NEW t \in Threads, NEW size \in Sizes, OpenTemporary(t, size)
    PROVE  ShufflesIInv'
  <1> USE DEF ShufflesIInv
  <1> DEFINE new == [size |-> size, done |-> 0, synced |-> FALSE, failed |-> FALSE]
             n == Len(writes) + 1
  <1>1. /\ writes' = Append(writes, new) /\ thread[t] = Idle
        /\ thread' = [thread EXCEPT ![t] = [step |-> "writing", write |-> Len(writes')]]
        /\ UNCHANGED <<file, earlier, calls, readCounter, stored, fetched, losses>>
    BY DEF OpenTemporary, NewFile, Becomes
  <1>2. new \in WriteType
    BY ShufflesAssumption DEF WriteType
  <1>3. writes \in Seq(WriteType)
    BY DEF ShufflesTypeOK
  <1>4. /\ writes' \in Seq(WriteType) /\ Len(writes') = n /\ DOMAIN writes' = DOMAIN writes \cup {n}
        /\ n \in Nat /\ n \notin DOMAIN writes /\ writes'[n] = new
        /\ \A w \in DOMAIN writes : writes'[w] = writes[w]
    BY <1>1, <1>2, <1>3
  <1> DEFINE job == [step |-> "writing", write |-> n]
  <1>5. thread' = [thread EXCEPT ![t] = job]
    BY <1>1, <1>4
  <1>6. /\ \A u \in Threads \ {t} : thread'[u] = thread[u]
        /\ thread'[t] = job /\ job.step = "writing" /\ job.write = n
    BY <1>5 DEF ShufflesTypeOK
  <1>7. earlier' = earlier /\ file' = file /\ n \notin earlier
    BY <1>1, <1>4, ShufflesFacts DEF ShufflesTypeOK
  <1> HIDE DEF new, n
  <1>8. (thread \in [Threads -> Jobs])'
    <2>1. job \in Jobs'
      BY <1>4, <1>7 DEF Jobs
    <2>2. Jobs \subseteq Jobs'
      BY <1>1, <1>4, <1>7 DEF Jobs
    <2> QED
      BY <1>5, <2>1, <2>2, JobsStay DEF ShufflesTypeOK
  <1>9. /\ (readCalls \in [DOMAIN readCalls -> CallType])'
        /\ Answered' /\ Queue' /\ Identified' /\ Behind' /\ Gone'
    <2>1. \A u \in Threads : thread'[u] = thread[u] \/ thread'[u].step # "reading"
      BY <1>6
    <2> QED
      BY <1>1, <1>4, <1>7, <2>1, CallsStay
  <1>10. ShufflesTypeOK'
    BY <1>1, <1>4, <1>7, <1>8, <1>9 DEF ShufflesTypeOK, calls, StoredType
  <1>11. Replaced'
    <2>1. ASSUME NEW w \in earlier \ {none} PROVE Whole(w)' /\ writes'[w].synced
      <3>1. w \in DOMAIN writes /\ Whole(w) /\ writes[w].synced
        BY DEF Replaced, ShufflesTypeOK
      <3> QED
        BY <1>4, <3>1 DEF Whole
    <2>2. ASSUME NEW u \in Threads PROVE Careful(u)'
      <3>1. CASE u = t
        BY <1>4, <1>6, <3>1 DEF new, Careful, Writes
      <3>2. CASE u # t
        <4>1. Careful(u) /\ thread'[u] = thread[u]
          BY <1>6, <3>2 DEF Replaced
        <4>2. thread[u].step \in {"writing", "written"} => thread[u].write \in DOMAIN writes
          BY JobIs
        <4> QED
          BY <1>4, <4>1, <4>2 DEF Careful, Writes, Whole
      <3> QED
        BY <3>1, <3>2
    <2>3. \A u \in Threads \ {t} : thread[u].step \in {"writing", "written"} => thread[u].write # n
      BY <1>4, JobIs
    <2>4. ASSUME NEW u \in Threads, NEW v \in Threads PROVE Apart(u, v)'
      <3>1. Apart(u, v)
        BY DEF Replaced
      <3> QED
        BY <1>6, <2>3, <3>1 DEF Apart, Writes
    <2> QED
      BY <1>7, <2>1, <2>2, <2>4 DEF Replaced
  <1> QED
    BY <1>9, <1>10, <1>11

\* A file that a thread writes, and no other, changes: its size does not.
LEMMA OwnFile ==
    ASSUME ShufflesIInv, NEW t \in Threads, Writes(t), NEW f, f \in WriteType,
           f.size = writes[thread[t].write].size,
           writes' = [writes EXCEPT ![thread[t].write] = f]
    PROVE  /\ writes' \in Seq(WriteType) /\ DOMAIN writes' = DOMAIN writes
           /\ thread[t].write \in DOMAIN writes \ earlier
           /\ writes'[thread[t].write] = f
           /\ \A w \in DOMAIN writes : w # thread[t].write => writes'[w] = writes[w]
           /\ \A w \in DOMAIN writes : writes'[w].size = writes[w].size
           /\ \A u \in Threads : u # t /\ Writes(u) => thread[u].write # thread[t].write
  <1> USE DEF ShufflesIInv
  <1>1. thread[t].write \in DOMAIN writes \ earlier
    BY JobIs DEF Writes
  <1>2. writes \in Seq(WriteType)
    BY DEF ShufflesTypeOK
  <1>3. \A u \in Threads : u # t /\ Writes(u) => thread[u].write # thread[t].write
    BY DEF Replaced, Apart
  <1> QED
    BY <1>1, <1>2, <1>3

LEMMA FileOf == ASSUME ShufflesTypeOK, NEW w \in DOMAIN writes
                PROVE  /\ writes[w].size \in Nat /\ writes[w].done \in Nat
                       /\ writes[w].synced \in BOOLEAN /\ writes[w].failed \in BOOLEAN
                       /\ writes[w] \in WriteType
  <1>1. writes[w] \in WriteType
    BY DEF ShufflesTypeOK
  <1> QED
    BY <1>1 DEF WriteType

LEMMA WritePartStep ==
    ASSUME ShufflesIInv, NEW t \in Threads, WritePart(t)
    PROVE  ShufflesIInv'
  <1> USE DEF ShufflesIInv
  <1> DEFINE w == thread[t].write
             f == [writes[w] EXCEPT !.done = @ + 1]
  <1>1. /\ thread[t].step = "writing" /\ writes[w].done < writes[w].size
        /\ writes' = [writes EXCEPT ![w] = f]
        /\ UNCHANGED <<file, earlier, thread, calls, readCounter, stored, fetched, losses>>
    BY DEF WritePart
  <1>2. Writes(t) /\ w \in DOMAIN writes
    BY <1>1, JobIs DEF Writes
  <1>3. f \in WriteType /\ f.size = writes[w].size /\ f.failed = writes[w].failed
    BY <1>2, FileOf DEF WriteType
  <1>4. /\ writes' \in Seq(WriteType) /\ DOMAIN writes' = DOMAIN writes
        /\ w \in DOMAIN writes \ earlier /\ writes'[w] = f
        /\ \A v \in DOMAIN writes : v # w => writes'[v] = writes[v]
        /\ \A v \in DOMAIN writes : writes'[v].size = writes[v].size
        /\ \A u \in Threads : u # t /\ Writes(u) => thread[u].write # w
    <2> HIDE DEF f
    <2> QED
      BY <1>1, <1>2, <1>3, OwnFile
  <1> HIDE DEF f
  <1>5. /\ (readCalls \in [DOMAIN readCalls -> CallType])'
        /\ Answered' /\ Queue' /\ Identified' /\ Behind' /\ Gone'
    BY <1>1, <1>4, CallsStay
  <1>6. ShufflesTypeOK'
    <2>1. Jobs' = Jobs
      BY <1>1, <1>4 DEF Jobs
    <2> QED
      BY <1>1, <1>4, <1>5, <2>1 DEF ShufflesTypeOK, calls, StoredType
  <1>7. Replaced'
    <2>1. ASSUME NEW v \in earlier \ {none} PROVE Whole(v)' /\ writes'[v].synced
      <3>1. v \in DOMAIN writes /\ Whole(v) /\ writes[v].synced /\ v # w
        BY <1>4 DEF Replaced, ShufflesTypeOK
      <3> QED
        BY <1>4, <3>1 DEF Whole
    <2>2. ASSUME NEW u \in Threads PROVE Careful(u)'
      <3>0. Careful(u) /\ thread'[u] = thread[u]
        BY <1>1 DEF Replaced
      <3>1. CASE u = t
        BY <1>1, <1>3, <1>4, <3>0, <3>1 DEF Careful, Writes
      <3>2. CASE u # t
        <4>1. Writes(u) => thread[u].write \in DOMAIN writes /\ thread[u].write # w
          BY <1>4, <3>2, JobIs DEF Writes
        <4> QED
          BY <1>4, <3>0, <4>1 DEF Careful, Writes, Whole
      <3> QED
        BY <3>1, <3>2
    <2>3. ASSUME NEW u \in Threads, NEW v \in Threads PROVE Apart(u, v)'
      BY <1>1 DEF Replaced, Apart, Writes
    <2> QED
      BY <1>1, <2>1, <2>2, <2>3 DEF Replaced
  <1> QED
    BY <1>5, <1>6, <1>7

\* A thread goes on with its file, or ends.
LEMMA JobEnds ==
    ASSUME ShufflesIInv, NEW t \in Threads, Writes(t), NEW job,
           job \in {Idle, [step |-> "written", write |-> thread[t].write]},
           thread' = [thread EXCEPT ![t] = job]
    PROVE  /\ \A u \in Threads \ {t} : thread'[u] = thread[u]
           /\ thread'[t] = job
           /\ \A u \in Threads : thread'[u] = thread[u] \/ thread'[u].step # "reading"
           /\ \A u \in Threads : Writes(u)' => Writes(u) /\ thread'[u].write = thread[u].write
           /\ \A u, v \in Threads : Apart(u, v)'
           /\ \A u \in Threads : thread'[u].step = "written" => thread[u].step = "written" \/ u = t
  <1> USE DEF ShufflesIInv
  <1>1. (\A u \in Threads \ {t} : thread'[u] = thread[u]) /\ thread'[t] = job
    BY DEF ShufflesTypeOK
  <1>2. thread'[t].step # "reading"
    BY <1>1 DEF Idle
  <1>3. \A u \in Threads : Writes(u)' => Writes(u) /\ thread'[u].write = thread[u].write
    <2>1. CASE job = Idle
      BY <1>1, <2>1 DEF Writes, Idle
    <2>2. CASE job = [step |-> "written", write |-> thread[t].write]
      BY <1>1, <2>2 DEF Writes
    <2> QED
      BY <2>1, <2>2
  <1>4. \A u, v \in Threads : Apart(u, v)'
    BY <1>3 DEF Replaced, Apart
  <1> QED
    BY <1>1, <1>2, <1>3, <1>4

LEMMA SyncStep ==
    ASSUME ShufflesIInv, NEW t \in Threads, Sync(t)
    PROVE  ShufflesIInv'
  <1> USE DEF ShufflesIInv
  <1> DEFINE w == thread[t].write
             f == [writes[w] EXCEPT !.synced = TRUE]
             job == [step |-> "written", write |-> w]
  <1>1. /\ thread[t].step = "writing" /\ writes[w].done = writes[w].size
        /\ writes' = [writes EXCEPT ![w] = f]
        /\ thread' = [thread EXCEPT ![t] = job]
        /\ UNCHANGED <<file, earlier, calls, readCounter, stored, fetched, losses>>
    BY DEF Sync, Becomes
  <1>2. Writes(t) /\ w \in DOMAIN writes
    BY <1>1, JobIs DEF Writes
  <1>3. f \in WriteType /\ f.size = writes[w].size /\ f.failed = writes[w].failed /\ f.synced /\ f.done = f.size
    BY <1>1, <1>2, FileOf DEF WriteType
  <1>4. /\ writes' \in Seq(WriteType) /\ DOMAIN writes' = DOMAIN writes
        /\ w \in DOMAIN writes \ earlier /\ writes'[w] = f
        /\ \A v \in DOMAIN writes : v # w => writes'[v] = writes[v]
        /\ \A v \in DOMAIN writes : writes'[v].size = writes[v].size
        /\ \A u \in Threads : u # t /\ Writes(u) => thread[u].write # w
    <2> HIDE DEF f
    <2> QED
      BY <1>1, <1>2, <1>3, OwnFile
  <1> HIDE DEF f
  <1>5. /\ \A u \in Threads \ {t} : thread'[u] = thread[u]
        /\ thread'[t] = job
        /\ \A u \in Threads : thread'[u] = thread[u] \/ thread'[u].step # "reading"
        /\ \A u, v \in Threads : Apart(u, v)'
    BY <1>1, <1>2, JobEnds
  <1>6. /\ (readCalls \in [DOMAIN readCalls -> CallType])'
        /\ Answered' /\ Queue' /\ Identified' /\ Behind' /\ Gone'
    BY <1>1, <1>4, <1>5, CallsStay
  <1>7. ShufflesTypeOK'
    <2>1. Jobs' = Jobs
      BY <1>1, <1>4 DEF Jobs
    <2>2. job \in Jobs'
      BY <1>4, <2>1 DEF Jobs
    <2>3. (thread \in [Threads -> Jobs])'
      BY <1>1, <2>1, <2>2, JobsStay DEF ShufflesTypeOK
    <2> QED
      BY <1>1, <1>4, <1>6, <2>3 DEF ShufflesTypeOK, calls, StoredType
  <1>8. Replaced'
    <2>1. ASSUME NEW v \in earlier \ {none} PROVE Whole(v)' /\ writes'[v].synced
      <3>1. v \in DOMAIN writes /\ Whole(v) /\ writes[v].synced /\ v # w
        BY <1>4 DEF Replaced, ShufflesTypeOK
      <3> QED
        BY <1>4, <3>1 DEF Whole
    <2>2. ASSUME NEW u \in Threads PROVE Careful(u)'
      <3>0. Careful(u)
        BY DEF Replaced
      <3>1. CASE u = t
        <4>1. ~writes[w].failed
          BY <1>2, <3>0, <3>1 DEF Careful
        <4> QED
          BY <1>3, <1>4, <1>5, <3>1, <4>1 DEF Careful, Whole
      <3>2. CASE u # t
        <4>1. Writes(u) => thread[u].write \in DOMAIN writes /\ thread[u].write # w
          BY <1>4, <3>2, JobIs DEF Writes
        <4>2. thread'[u] = thread[u]
          BY <1>5, <3>2
        <4> QED
          BY <1>4, <3>0, <4>1, <4>2 DEF Careful, Writes, Whole
      <3> QED
        BY <3>1, <3>2
    <2> QED
      BY <1>1, <1>5, <2>1, <2>2 DEF Replaced
  <1> QED
    BY <1>6, <1>7, <1>8

LEMMA WriteFailsStep ==
    ASSUME ShufflesIInv, NEW t \in Threads, WriteFails(t)
    PROVE  ShufflesIInv'
  <1> USE DEF ShufflesIInv
  <1> DEFINE w == thread[t].write
             f == [writes[w] EXCEPT !.failed = TRUE]
  <1>1. /\ Writes(t)
        /\ writes' = [writes EXCEPT ![w] = f]
        /\ thread' = [thread EXCEPT ![t] = Idle]
        /\ UNCHANGED <<file, earlier, calls, readCounter, stored, fetched, losses>>
    BY DEF WriteFails, Becomes, Writes
  <1>2. w \in DOMAIN writes
    BY <1>1, JobIs DEF Writes
  <1>3. f \in WriteType /\ f.size = writes[w].size
    BY <1>1, <1>2, FileOf DEF WriteType
  <1>4. /\ writes' \in Seq(WriteType) /\ DOMAIN writes' = DOMAIN writes
        /\ w \in DOMAIN writes \ earlier /\ writes'[w] = f
        /\ \A v \in DOMAIN writes : v # w => writes'[v] = writes[v]
        /\ \A v \in DOMAIN writes : writes'[v].size = writes[v].size
        /\ \A u \in Threads : u # t /\ Writes(u) => thread[u].write # w
    <2> HIDE DEF f
    <2> QED
      BY <1>1, <1>2, <1>3, OwnFile
  <1> HIDE DEF f
  <1>5. /\ \A u \in Threads \ {t} : thread'[u] = thread[u]
        /\ thread'[t] = Idle
        /\ \A u \in Threads : thread'[u] = thread[u] \/ thread'[u].step # "reading"
        /\ \A u, v \in Threads : Apart(u, v)'
    BY <1>1, <1>2, JobEnds
  <1>6. /\ (readCalls \in [DOMAIN readCalls -> CallType])'
        /\ Answered' /\ Queue' /\ Identified' /\ Behind' /\ Gone'
    BY <1>1, <1>4, <1>5, CallsStay
  <1>7. ShufflesTypeOK'
    <2>1. Jobs' = Jobs
      BY <1>1, <1>4 DEF Jobs
    <2>2. Idle \in Jobs'
      BY <2>1 DEF Jobs
    <2>3. (thread \in [Threads -> Jobs])'
      BY <1>1, <2>1, <2>2, JobsStay DEF ShufflesTypeOK
    <2> QED
      BY <1>1, <1>4, <1>6, <2>3 DEF ShufflesTypeOK, calls, StoredType
  <1>8. Replaced'
    <2>1. ASSUME NEW v \in earlier \ {none} PROVE Whole(v)' /\ writes'[v].synced
      <3>1. v \in DOMAIN writes /\ Whole(v) /\ writes[v].synced /\ v # w
        BY <1>4 DEF Replaced, ShufflesTypeOK
      <3> QED
        BY <1>4, <3>1 DEF Whole
    <2>2. ASSUME NEW u \in Threads PROVE Careful(u)'
      <3>0. Careful(u)
        BY DEF Replaced
      <3>1. CASE u = t
        BY <1>5, <3>1 DEF Careful, Writes, Idle
      <3>2. CASE u # t
        <4>1. Writes(u) => thread[u].write \in DOMAIN writes /\ thread[u].write # w
          BY <1>4, <3>2, JobIs DEF Writes
        <4>2. thread'[u] = thread[u]
          BY <1>5, <3>2
        <4> QED
          BY <1>4, <3>0, <4>1, <4>2 DEF Careful, Writes, Whole
      <3> QED
        BY <3>1, <3>2
    <2> QED
      BY <1>1, <1>5, <2>1, <2>2 DEF Replaced
  <1> QED
    BY <1>6, <1>7, <1>8

LEMMA ReplaceFileStep ==
    ASSUME ShufflesIInv, NEW t \in Threads, ReplaceFile(t)
    PROVE  ShufflesIInv'
  <1> USE DEF ShufflesIInv
  <1> DEFINE w == thread[t].write
  <1>1. /\ Writes(t) /\ thread[t].step = "written" /\ file' = w /\ earlier' = earlier \cup {w}
        /\ thread' = [thread EXCEPT ![t] = Idle]
        /\ UNCHANGED <<writes, calls, readCounter, stored, fetched, losses>>
    BY DEF ReplaceFile, Becomes, Writes
  <1>2. w \in DOMAIN writes
    BY <1>1, JobIs DEF Writes
  <1>3. /\ \A u \in Threads \ {t} : thread'[u] = thread[u]
        /\ thread'[t] = Idle
        /\ \A u \in Threads : thread'[u] = thread[u] \/ thread'[u].step # "reading"
        /\ \A u, v \in Threads : Apart(u, v)'
    BY <1>1, <1>2, JobEnds
  <1>4. /\ (readCalls \in [DOMAIN readCalls -> CallType])'
        /\ Answered' /\ Queue' /\ Identified' /\ Behind' /\ Gone'
    BY <1>1, <1>3, CallsStay
  <1>5. ShufflesTypeOK'
    <2>1. Idle \in Jobs'
      BY DEF Jobs
    <2>2. ASSUME NEW u \in Threads \ {t} PROVE thread[u] \in Jobs'
      <3>1. thread[u] \in Jobs /\ Apart(u, t)
        BY DEF ShufflesTypeOK, Replaced
      <3>2. CASE thread[u] = Idle
        BY <3>2 DEF Jobs
      <3>3. CASE thread[u] \in [step : {"writing", "written"}, write : DOMAIN writes \ earlier]
        <4>1. thread[u].write # w
          BY <1>1, <3>1, <3>3 DEF Apart, Writes
        <4>2. thread[u] \in [step : {"writing", "written"}, write : DOMAIN writes' \ earlier']
          BY <1>1, <3>3, <4>1
        <4> QED
          BY <4>2 DEF Jobs
      <3>4. CASE thread[u] \in [step : {"reading"}, id : 1 .. (readCounter - 1), range : Ranges, write : earlier]
        <4>1. thread[u] \in [step : {"reading"}, id : 1 .. (readCounter' - 1), range : Ranges, write : earlier']
          BY <1>1, <3>4
        <4> QED
          BY <4>1 DEF Jobs
      <3> QED
        BY <3>1, <3>2, <3>3, <3>4 DEF Jobs
    <2>3. (thread \in [Threads -> Jobs])'
      BY <1>1, <2>1, <2>2, JobsStay DEF ShufflesTypeOK
    <2> QED
      BY <1>1, <1>2, <1>4, <2>3 DEF ShufflesTypeOK, calls, StoredType
  <1>6. Replaced'
    <2>1. ASSUME NEW v \in earlier' \ {none} PROVE Whole(v)' /\ writes'[v].synced
      BY <1>1 DEF Replaced, Whole, Careful
    <2>2. ASSUME NEW u \in Threads PROVE Careful(u)'
      BY <1>1, <1>3 DEF Replaced, Careful, Writes, Whole, Idle
    <2> QED
      BY <1>3, <2>1, <2>2 DEF Replaced
  <1> QED
    BY <1>4, <1>5, <1>6

LEMMA FileDeleteStep ==
    ASSUME ShufflesIInv, FileDelete
    PROVE  ShufflesIInv'
  <1> USE DEF ShufflesIInv
  <1>1. /\ file' = none /\ earlier' = earlier \cup {none}
        /\ UNCHANGED <<writes, thread, calls, readCounter, stored, fetched, losses>>
    BY DEF FileDelete
  <1>2. /\ (readCalls \in [DOMAIN readCalls -> CallType])'
        /\ Answered' /\ Queue' /\ Identified' /\ Behind' /\ Gone'
    BY <1>1, CallsStay
  <1>3. none \notin DOMAIN writes
    BY ShufflesFacts DEF ShufflesTypeOK
  <1>4. Jobs \subseteq Jobs'
    <2>1. DOMAIN writes \ earlier = DOMAIN writes' \ earlier'
      BY <1>1, <1>3
    <2> QED
      BY <1>1, <2>1 DEF Jobs
  <1>5. ShufflesTypeOK'
    BY <1>1, <1>2, <1>4 DEF ShufflesTypeOK, calls, StoredType
  <1>6. Replaced'
    BY <1>1 DEF Replaced, Whole, Careful, Apart, Writes
  <1> QED
    BY <1>2, <1>5, <1>6

LEMMA OpenReadStep ==
    ASSUME ShufflesIInv, NEW t \in Threads, NEW r \in Ranges, OpenRead(t, r)
    PROVE  ShufflesIInv'
  <1> USE DEF ShufflesIInv
  <1> DEFINE job == [step |-> "reading", id |-> readCounter, range |-> r, write |-> file]
  <1>1. /\ thread[t] = Idle /\ readCounter' = readCounter + 1
        /\ thread' = [thread EXCEPT ![t] = job]
        /\ UNCHANGED <<disk, calls, stored, fetched, losses>>
    BY DEF OpenRead, Becomes
  <1>2. /\ UNCHANGED <<writes, file, earlier>>
        /\ UNCHANGED <<readCalls, readCallOrder, pendingReadBytes, stored, fetched>>
        /\ readCounter \in Nat \ {0}
    BY <1>1 DEF disk, calls, ShufflesTypeOK
  <1>3. 1 .. (readCounter - 1) \subseteq 1 .. (readCounter' - 1) /\ readCounter \in 1 .. (readCounter' - 1)
    BY <1>1, <1>2
  <1>4. (\A u \in Threads \ {t} : thread'[u] = thread[u]) /\ thread'[t] = job
    BY <1>1 DEF ShufflesTypeOK
  <1>5. ShufflesTypeOK'
    <2>1. job \in Jobs'
      BY <1>2, <1>3 DEF Jobs, ShufflesTypeOK
    <2>2. Jobs \subseteq Jobs'
      BY <1>2, <1>3 DEF Jobs
    <2>3. (thread \in [Threads -> Jobs])'
      BY <1>1, <2>1, <2>2, JobsStay DEF ShufflesTypeOK
    <2>4. (stored \in Seq(StoredType))'
      <3>1. StoredType \subseteq StoredType'
        BY <1>3 DEF StoredType
      <3>2. stored \in Seq(StoredType)
        BY DEF ShufflesTypeOK
      <3>3. stored \in Seq(StoredType')
        BY <3>1, <3>2
      <3> QED
        BY <1>2, <3>3
    <2>5. CallType' = CallType
      BY <1>2 DEF CallType
    <2> QED
      BY <1>1, <1>2, <2>3, <2>4, <2>5 DEF ShufflesTypeOK
  <1>6. Replaced'
    <2>1. \A u \in Threads : Writes(u)' => Writes(u) /\ thread'[u] = thread[u]
      BY <1>4 DEF Writes
    <2> QED
      BY <1>2, <2>1 DEF Replaced, Whole, Careful, Apart
  <1>7. Answered' /\ Queue' /\ Behind' /\ Gone'
    <2>1. Bytes' = Bytes /\ Counts' = Counts
      BY <1>2 DEF Bytes, Counts
    <2> QED
      BY <1>2, <2>1 DEF Answered, Queue, Behind, Gone
  <1>8. Identified'
    <2>1. \A n \in 1..Len(stored) : stored[n].id # readCounter
      <3>1. \A n \in 1..Len(stored) : stored[n] \in StoredType
        BY DEF ShufflesTypeOK
      <3> QED
        BY <1>2, <3>1 DEF StoredType
    <2>2. \A u \in Threads : thread[u].step = "reading" => thread[u].id # readCounter
      BY <1>2, JobIs
    <2>3. (\A u \in Threads : thread[u].step = "reading" => \A n \in 1..Len(stored) : stored[n].id # thread[u].id)'
      BY <1>2, <1>4, <2>1 DEF Identified
    <2>4. (\A u, v \in Threads :
             thread[u].step = "reading" /\ thread[v].step = "reading" /\ thread[u].id = thread[v].id
             => u = v)'
      BY <1>2, <1>4, <2>2 DEF Identified
    <2> QED
      BY <1>2, <2>3, <2>4 DEF Identified
  <1> QED
    BY <1>5, <1>6, <1>7, <1>8

LEMMA CutIs ==
    ASSUME NEW done \in Nat, NEW r \in Ranges
    PROVE  Cut(done, r) \in Nat /\ Cut(done, r) <= r.size
  <1>1. r.offset \in Nat /\ r.size \in Nat
    BY ShufflesFacts
  <1>2. CASE r.offset < done
    <2> DEFINE S == {r.size, done - r.offset}
    <2>1. S \in SUBSET Nat /\ S # {} /\ r.size \in S
      BY <1>1, <1>2
    <2> HIDE DEF S
    <2>2. Min(S) \in S /\ Min(S) <= r.size
      BY <2>1, LeastOf
    <2>3. Cut(done, r) = Min(S)
      BY <1>2 DEF Cut, S
    <2> QED
      BY <2>1, <2>2, <2>3
  <1>3. CASE ~(r.offset < done)
    BY <1>1, <1>3 DEF Cut
  <1> QED
    BY <1>2, <1>3

\* Whatever a read ends with fits, and what it read is what the whole file has there.
LEMMA ResultsAre ==
    ASSUME ShufflesIInv, NEW t \in Threads, thread[t].step = "reading", NEW call \in Results(thread[t])
    PROVE  /\ call \in CallType
           /\ call.result = "ok" => /\ call.write \in earlier \ {none}
                                    /\ call.count = Cut(writes[call.write].size, call.range)
  <1> USE DEF ShufflesIInv
  <1> DEFINE r == thread[t].range
             w == thread[t].write
  <1>1. r \in Ranges /\ w \in earlier /\ r.size \in Nat
    BY JobIs, ShufflesFacts
  <1>2. CASE r.size > MaxCloudFileChunkSize
    <2>1. call = ReadCall("invalid_param", r, none, 0)
      BY <1>2 DEF Results
    <2> QED
      BY <1>1, <2>1, ShufflesFacts DEF ReadCall, CallType
  <1>3. CASE ~(r.size > MaxCloudFileChunkSize)
    <2> DEFINE read == IF w = none THEN ReadCall("file_not_found", r, none, 0)
                       ELSE ReadCall("ok", r, w, Cut(writes[w].done, r))
    <2>1. call \in {ReadCall("fail", r, none, 0), read}
      BY <1>3 DEF Results
    <2>2. CASE call = ReadCall("fail", r, none, 0)
      BY <1>1, <2>2, ShufflesFacts DEF ReadCall, CallType
    <2>3. CASE w = none /\ call = read
      BY <1>1, <2>3, ShufflesFacts DEF ReadCall, CallType
    <2>4. CASE w # none /\ call = read
      <3>1. w \in DOMAIN writes /\ Whole(w)
        BY <1>1, <2>4 DEF Replaced, ShufflesTypeOK
      <3>2. writes[w].done = writes[w].size /\ writes[w].done \in Nat
        BY <3>1, FileOf DEF Whole
      <3> DEFINE count == Cut(writes[w].done, r)
      <3>3. count \in Nat /\ count <= r.size
        BY <1>1, <3>2, CutIs
      <3>4. count \in 0..MaxCloudFileChunkSize
        <4> HIDE DEF count
        <4> QED
          BY <1>1, <1>3, <3>3, ShufflesFacts
      <3>5. call = ReadCall("ok", r, w, count)
        BY <2>4
      <3>6. count = Cut(writes[w].size, r)
        BY <3>2
      <3> HIDE DEF count
      <3> QED
        BY <1>1, <2>4, <3>4, <3>5, <3>6 DEF ReadCall, CallType
    <2> QED
      BY <2>1, <2>2, <2>3, <2>4
  <1> QED
    BY <1>2, <1>3

LEMMA BytesAre ==
    ASSUME ShufflesTypeOK, Queue
    PROVE  /\ Len(readCallOrder) \in Nat /\ DOMAIN Bytes = 1..Len(readCallOrder)
           /\ \A p \in 1..Len(readCallOrder) :
                /\ readCallOrder[p] \in Nat /\ readCallOrder[p] \in DOMAIN readCalls
                /\ Bytes[p] = readCalls[readCallOrder[p]].count
                /\ Bytes[p] \in 0..MaxCloudFileChunkSize /\ Bytes[p] \in Nat
           /\ Bytes \in Seq(Nat)
  <1>1. readCallOrder \in Seq(Nat)
    BY DEF ShufflesTypeOK
  <1>2. ASSUME NEW p \in 1..Len(readCallOrder)
        PROVE  /\ readCallOrder[p] \in Nat /\ readCallOrder[p] \in DOMAIN readCalls
               /\ Bytes[p] = readCalls[readCallOrder[p]].count
               /\ Bytes[p] \in 0..MaxCloudFileChunkSize /\ Bytes[p] \in Nat
    <2>1. readCalls[readCallOrder[p]] \in CallType /\ readCallOrder[p] \in DOMAIN readCalls
      BY DEF ShufflesTypeOK, Queue
    <2>2. readCalls[readCallOrder[p]].count \in 0..MaxCloudFileChunkSize
      BY <2>1 DEF CallType
    <2> QED
      BY <1>1, <2>1, <2>2, ShufflesFacts DEF Bytes
  <1>3. DOMAIN Bytes = 1..Len(readCallOrder) /\ Len(readCallOrder) \in Nat
    BY <1>1 DEF Bytes
  <1>4. Bytes \in Seq(Nat)
    BY <1>2, <1>3 DEF Bytes
  <1> QED
    BY <1>2, <1>3, <1>4

LEMMA CountsAre ==
    ASSUME ShufflesTypeOK
    PROVE  /\ Len(stored) \in Nat /\ DOMAIN Counts = 1..Len(stored)
           /\ \A n \in 1..Len(stored) :
                /\ stored[n].id \in 1 .. (readCounter - 1) /\ stored[n].id \in Nat
                /\ Counts[n] = stored[n].count /\ Counts[n] \in Nat
  <1>1. stored \in Seq(StoredType)
    BY DEF ShufflesTypeOK
  <1>2. ASSUME NEW n \in 1..Len(stored)
        PROVE  /\ stored[n].id \in 1 .. (readCounter - 1) /\ stored[n].id \in Nat
               /\ Counts[n] = stored[n].count /\ Counts[n] \in Nat
    <2>1. stored[n] \in StoredType
      BY <1>1
    <2> QED
      BY <1>1, <2>1, ShufflesFacts DEF Counts, ShufflesTypeOK, StoredType
  <1>3. Len(stored) \in Nat /\ DOMAIN stored = 1..Len(stored)
    BY <1>1
  <1> QED
    BY <1>2, <1>3 DEF Counts

LEMMA OldestAre ==
    ASSUME ShufflesTypeOK, Queue, NEW k \in 0..Len(readCallOrder)
    PROVE  /\ ToSet(Oldest(k)) = {readCallOrder[n] : n \in 1..k}
           /\ SumOfBytes(Oldest(k)) = Total(Bytes, k)
  <1> DEFINE s == Oldest(k)
  <1>1. readCallOrder \in Seq(Nat) /\ k \in Nat
    BY DEF ShufflesTypeOK
  <1>2. s \in Seq(Nat) /\ Len(s) = k /\ DOMAIN s = 1..k /\ \A i \in 1..k : s[i] = readCallOrder[i]
    BY <1>1 DEF Oldest
  <1> HIDE DEF s
  <1>3. ToSet(s) = {readCallOrder[n] : n \in 1..k}
    BY <1>2 DEF ToSet
  <1> DEFINE b == [n \in DOMAIN s |-> readCalls[s[n]].count]
  <1>4. \A i \in 1..k : b[i] = Bytes[i] /\ b[i] \in Nat
    <2>1. \A i \in 1..k : b[i] = readCalls[readCallOrder[i]].count /\ i \in 1..Len(readCallOrder)
      BY <1>1, <1>2
    <2> HIDE DEF b
    <2> QED
      BY <2>1, BytesAre
  <1>5. b \in Seq(Nat) /\ Len(b) = k
    <2>1. b = [n \in 1..k |-> b[n]]
      BY <1>2
    <2> HIDE DEF b
    <2> QED
      BY <1>1, <1>4, <2>1
  <1>6. SumOfBytes(s) = Sum(b)
    BY DEF SumOfBytes
  <1> HIDE DEF b
  <1>7. Sum(b) = Total(b, k)
    BY <1>5, SumOf
  <1>8. Total(b, k) = Total(Bytes, k)
    BY <1>1, <1>4, TotalSame
  <1> QED
    BY <1>3, <1>6, <1>7, <1>8 DEF s

LEMMA CallsCounted ==
    ASSUME ShufflesTypeOK, Queue PROVE Cardinality(DOMAIN readCalls) = Len(readCallOrder)
  <1>1. Len(readCallOrder) \in Nat
    BY BytesAre
  <1>2. /\ \A p \in 1..Len(readCallOrder) : readCallOrder[p] \in DOMAIN readCalls
        /\ \A id \in DOMAIN readCalls : \E p \in 1..Len(readCallOrder) : readCallOrder[p] = id
        /\ \A p, q \in 1..Len(readCallOrder) : readCallOrder[p] = readCallOrder[q] => p = q
    BY DEF Queue
  <1> QED
    BY <1>1, <1>2, CountedOnce

\* As few of the oldest calls go as make room: without the last of them there would be none.
LEMMA AsFewAsNeeded ==
    ASSUME ShufflesTypeOK, Queue, NEW c \in Nat, c <= MaxCloudFileChunkSize, NEW k,
           k = Min({n \in 0..Len(readCallOrder) : MakesRoom(n, c)})
    PROVE  /\ k \in 0..Len(readCallOrder)
           /\ Len(readCallOrder) - k + 1 <= MaxPendingReadCalls
           /\ pendingReadBytes - Total(Bytes, k) + c <= MaxCloudFileChunkSize
           /\ \A p \in 1..k :
                \/ Len(readCallOrder) - p + 1 >= MaxPendingReadCalls
                \/ Rest(Bytes, p, Len(readCallOrder)) + c > MaxCloudFileChunkSize
  <1> DEFINE l == Len(readCallOrder)
             S == {n \in 0..l : MakesRoom(n, c)}
  <1>1. l \in Nat /\ \A i \in 1..l : Bytes[i] \in Nat
    BY BytesAre
  <1>2. pendingReadBytes = Total(Bytes, l)
    BY DEF Queue
  <1>3. ASSUME NEW n \in 0..l
        PROVE  /\ Total(Bytes, n) \in Nat /\ Total(Bytes, n) <= Total(Bytes, l) /\ Total(Bytes, l) \in Nat
               /\ MakesRoom(n, c) <=>
                    \/ n = l
                    \/ /\ l - n < MaxPendingReadCalls
                       /\ Total(Bytes, l) - Total(Bytes, n) + c <= MaxCloudFileChunkSize
    <2>1. SumOfBytes(Oldest(n)) = Total(Bytes, n)
      BY OldestAre
    <2>2. Cardinality(DOMAIN readCalls) = l
      BY CallsCounted
    <2>3. Total(Bytes, n) \in Nat /\ Total(Bytes, n) <= Total(Bytes, l) /\ Total(Bytes, l) \in Nat
      <3>1. n \in Nat /\ n <= l
        BY <1>1
      <3> HIDE DEF l
      <3> QED
        BY <1>1, <3>1, TotalGrows
    <2> QED
      BY <1>2, <2>1, <2>2, <2>3 DEF MakesRoom
  <1>4. S \in SUBSET Nat /\ l \in S
    <2>1. l \in 0..l
      BY <1>1
    <2>2. MakesRoom(l, c)
      BY <1>3, <2>1
    <2> QED
      BY <2>1, <2>2
  <1>5. k \in S /\ \A n \in S : k <= n
    <2> HIDE DEF S
    <2>1. S # {}
      BY <1>4
    <2>2. Min(S) \in S /\ \A n \in S : Min(S) <= n
      BY <1>4, <2>1, LeastOf
    <2> QED
      BY <2>2 DEF S
  <1>6. k \in 0..l /\ MakesRoom(k, c)
    BY <1>5
  <1>7. l - k + 1 <= MaxPendingReadCalls /\ Total(Bytes, l) - Total(Bytes, k) + c <= MaxCloudFileChunkSize
    <2>1. Total(Bytes, k) \in Nat /\ Total(Bytes, l) \in Nat
      BY <1>3, <1>6
    <2>2. CASE k = l
      BY <1>1, <2>1, <2>2, ShufflesFacts
    <2>3. CASE /\ l - k < MaxPendingReadCalls
               /\ Total(Bytes, l) - Total(Bytes, k) + c <= MaxCloudFileChunkSize
      BY <1>1, <1>6, <2>3, ShufflesFacts
    <2> QED
      BY <1>3, <1>6, <2>2, <2>3
  <1>8. ASSUME NEW p \in 1..k
        PROVE  l - p + 1 >= MaxPendingReadCalls \/ Rest(Bytes, p, l) + c > MaxCloudFileChunkSize
    <2> DEFINE n == p - 1
    <2>1. n \in 0..l /\ n < k /\ n # l /\ k \in Nat /\ p \in Nat
      BY <1>1, <1>6
    <2>2. ~MakesRoom(n, c)
      BY <1>5, <2>1
    <2>3. ~(/\ l - n < MaxPendingReadCalls
            /\ Total(Bytes, l) - Total(Bytes, n) + c <= MaxCloudFileChunkSize)
      BY <1>3, <2>1, <2>2
    <2>4. Total(Bytes, n) \in Nat /\ Total(Bytes, l) \in Nat
      BY <1>3, <2>1
    <2> QED
      BY <1>1, <2>1, <2>3, <2>4, ShufflesFacts DEF Rest
  <1> QED
    BY <1>2, <1>6, <1>7, <1>8

LEMMA RestsAre ==
    ASSUME ShufflesTypeOK, Queue
    PROVE  /\ \A p \in 1..Len(readCallOrder) : Rest(Bytes, p, Len(readCallOrder)) \in Int
           /\ \A n \in 1..Len(stored) : Rest(Counts, n, Len(stored)) \in Int
  <1>1. ASSUME NEW s, NEW l \in Nat, \A i \in 1..l : s[i] \in Nat, NEW p \in 1..l PROVE Rest(s, p, l) \in Int
    <2>1. p - 1 \in Nat /\ \A i \in 1 .. (p - 1) : s[i] \in Nat
      BY <1>1
    <2>2. Total(s, l) \in Nat /\ Total(s, p - 1) \in Nat
      BY <1>1, <2>1, TotalIsNat
    <2> QED
      BY <2>2 DEF Rest
  <1>2. Len(readCallOrder) \in Nat /\ \A i \in 1..Len(readCallOrder) : Bytes[i] \in Nat
    BY BytesAre
  <1>3. Len(stored) \in Nat /\ \A i \in 1..Len(stored) : Counts[i] \in Nat
    BY CountsAre
  <1>4. \A p \in 1..Len(readCallOrder) : Rest(Bytes, p, Len(readCallOrder)) \in Int
    BY <1>1, <1>2
  <1>5. \A n \in 1..Len(stored) : Rest(Counts, n, Len(stored)) \in Int
    BY <1>1, <1>3
  <1> QED
    BY <1>4, <1>5

LEMMA StoreReadStep ==
    ASSUME ShufflesIInv, NEW t \in Threads, StoreRead(t)
    PROVE  ShufflesIInv'
  <1> USE DEF ShufflesIInv
  <1> DEFINE id == thread[t].id
             l == Len(readCallOrder)
             m == Len(stored)
  <1>1. PICK call \in Results(thread[t]) : StoreReadCallLocked(id, call)
    BY DEF StoreRead
  <1>2. /\ thread[t].step = "reading"
        /\ thread' = [thread EXCEPT ![t] = Idle]
        /\ UNCHANGED <<disk, readCounter, fetched, losses>>
    BY DEF StoreRead, Becomes
  <1>3. UNCHANGED <<writes, file, earlier>>
    BY <1>2 DEF disk
  <1>4. /\ call \in CallType
        /\ call.result = "ok" => /\ call.write \in earlier \ {none}
                                 /\ call.count = Cut(writes[call.write].size, call.range)
    BY <1>2, ResultsAre
  <1>5. PICK c \in Nat : c = call.count /\ c <= MaxCloudFileChunkSize
    <2>1. call.count \in 0..MaxCloudFileChunkSize
      BY <1>4 DEF CallType
    <2> QED
      BY <2>1, ShufflesFacts
  <1>6. PICK k : k = Min({n \in 0..l : MakesRoom(n, c)})
    OBVIOUS
  <1>7. /\ k \in 0..l /\ l - k + 1 <= MaxPendingReadCalls
        /\ pendingReadBytes - Total(Bytes, k) + c <= MaxCloudFileChunkSize
        /\ \A p \in 1..k : l - p + 1 >= MaxPendingReadCalls \/ Rest(Bytes, p, l) + c > MaxCloudFileChunkSize
    BY <1>5, <1>6, AsFewAsNeeded
  <1>8. /\ readCalls' = [i \in (DOMAIN readCalls \ ToSet(Oldest(k))) \cup {id} |->
                           IF i = id THEN call ELSE readCalls[i]]
        /\ readCallOrder' = Append(SubSeq(readCallOrder, k + 1, l), id)
        /\ pendingReadBytes' = pendingReadBytes - SumOfBytes(Oldest(k)) + c
        /\ stored' = Append(stored, [id |-> id, count |-> c])
    BY <1>1, <1>5, <1>6 DEF StoreReadCallLocked
  <1>9. /\ ToSet(Oldest(k)) = {readCallOrder[n] : n \in 1..k} /\ SumOfBytes(Oldest(k)) = Total(Bytes, k)
    BY <1>7, OldestAre
  <1>10. l \in Nat /\ m \in Nat /\ k \in Nat /\ l - k \in Nat
    BY <1>7, BytesAre, CountsAre
  <1>11. /\ id \in 1 .. (readCounter - 1) /\ id \in Nat
         /\ \A n \in 1..m : stored[n].id # id
    BY <1>2, JobIs DEF Identified, ShufflesTypeOK
  <1>12. id \notin DOMAIN readCalls /\ \A p \in 1..l : readCallOrder[p] # id
    <2>1. ASSUME NEW p \in 1..l PROVE readCallOrder[p] # id
      <3>1. PICK n \in 1..m : stored[n].id = readCallOrder[p]
        BY DEF Identified
      <3> QED
        BY <1>11, <3>1
    <2>2. \A i \in DOMAIN readCalls : \E p \in 1..l : readCallOrder[p] = i
      BY DEF Queue
    <2> HIDE DEF id, l, ShufflesIInv
    <2> QED
      BY <2>1, <2>2
  <1>13. (\A u \in Threads \ {t} : thread'[u] = thread[u]) /\ thread'[t] = Idle
    BY <1>2 DEF ShufflesTypeOK
  \* The order.
  <1>14. /\ readCallOrder' \in Seq(Nat) /\ Len(readCallOrder') = l - k + 1
         /\ \A p \in 1 .. (l - k) : readCallOrder'[p] = readCallOrder[k + p]
         /\ readCallOrder'[l - k + 1] = id
    <2> DEFINE s == SubSeq(readCallOrder, k + 1, l)
    <2>1. readCallOrder \in Seq(Nat)
      BY DEF ShufflesTypeOK
    <2>2. s \in Seq(Nat) /\ Len(s) = l - k /\ \A p \in 1 .. (l - k) : s[p] = readCallOrder[k + p]
      <3>1. PICK o : o = readCallOrder
        OBVIOUS
      <3>2. o \in Seq(Nat) /\ k \in 0..Len(o)
        BY <1>7, <2>1, <3>1
      <3> QED
        BY <3>1, <3>2, PartIs
    <2> HIDE DEF s
    <2>3. readCallOrder' = Append(s, id)
      BY <1>8 DEF s
    <2>4. id \in Nat /\ l - k \in Nat
      BY <1>7, <1>10, <1>11, <2>2, LenProperties
    <2>5. PICK u, r, n : u = s /\ r = readCallOrder' /\ n = l - k
      OBVIOUS
    <2>6. /\ r \in Seq(Nat) /\ Len(r) = n + 1
          /\ \A p \in 1..n : r[p] = u[p]
          /\ r[n + 1] = id
      <3> HIDE DEF l, id, s
      <3>1. u \in Seq(Nat) /\ Len(u) = n /\ n \in Nat /\ r = Append(u, id)
        BY <2>2, <2>3, <2>4, <2>5
      <3> HIDE <2>5
      <3> QED
        BY <2>4, <3>1
    <2> HIDE DEF l, id, s
    <2> QED
      BY <2>2, <2>5, <2>6
  \* The map.
  <1>15. /\ DOMAIN readCalls' = (DOMAIN readCalls \ {readCallOrder[n] : n \in 1..k}) \cup {id}
         /\ readCalls'[id] = call
         /\ \A i \in DOMAIN readCalls' : i # id => i \in DOMAIN readCalls /\ readCalls'[i] = readCalls[i]
    BY <1>8, <1>9
  <1>16. ASSUME NEW p \in 1 .. (l - k)
         PROVE  /\ k + p \in 1..l /\ readCallOrder[k + p] \in DOMAIN readCalls'
                /\ readCallOrder[k + p] # id
                /\ readCalls'[readCallOrder[k + p]] = readCalls[readCallOrder[k + p]]
    <2>1. k + p \in 1..l /\ \A n \in 1..k : n \in 1..l /\ n # k + p
      BY <1>7, <1>10
    <2>2. readCallOrder[k + p] \in DOMAIN readCalls /\ \A n \in 1..k : readCallOrder[n] # readCallOrder[k + p]
      BY <2>1 DEF Queue
    <2>3. readCallOrder[k + p] \in DOMAIN readCalls'
      BY <1>15, <2>2
    <2> QED
      BY <1>12, <1>15, <2>1, <2>3
  <1>17. \A p \in 1 .. (l - k + 1) : p \in 1 .. (l - k) \/ p = l - k + 1
    BY <1>10
  \* The bytes.
  <1>18. PICK b : b = Bytes'
    OBVIOUS
  <1>19. (\A p \in 1 .. (l - k) : b[p] = Bytes[k + p]) /\ b[l - k + 1] = c
    <2>1. DOMAIN readCallOrder' = 1 .. (l - k + 1)
      BY <1>10, <1>14
    <2>2. \A p \in 1 .. (l - k + 1) : b[p] = readCalls'[readCallOrder'[p]].count
      BY <1>18, <2>1 DEF Bytes
    <2>3. ASSUME NEW p \in 1 .. (l - k) PROVE b[p] = Bytes[k + p]
      <3>1. p \in 1 .. (l - k + 1)
        BY <1>10
      <3>2. b[p] = readCalls[readCallOrder[k + p]].count
        BY <1>14, <1>16, <2>2, <3>1
      <3> QED
        BY <1>16, <3>2, BytesAre
    <2>4. b[l - k + 1] = c
      <3>1. l - k + 1 \in 1 .. (l - k + 1)
        BY <1>10
      <3> QED
        BY <1>5, <1>14, <1>15, <2>2, <3>1
    <2> QED
      BY <2>3, <2>4
  <1>20. /\ Total(b, l - k + 1) = Total(Bytes, l) - Total(Bytes, k) + c
         /\ \A p \in 1 .. (l - k) : Rest(b, p, l - k + 1) = Rest(Bytes, k + p, l) + c
         /\ Rest(b, l - k + 1, l - k + 1) = c
    <2>1. \A i \in 1..l : Bytes[i] \in Nat
      BY BytesAre
    <2>2. PICK a : a = Bytes
      OBVIOUS
    <2>3. PICK j : j = l
      OBVIOUS
    <2>4. /\ j \in Nat /\ k \in 0..j /\ \A i \in 1..j : a[i] \in Nat
          /\ \A i \in 1 .. (j - k) : b[i] = a[k + i]
          /\ b[j - k + 1] \in Nat
      BY <1>5, <1>7, <1>10, <1>19, <2>1, <2>2, <2>3
    <2>5. /\ Total(b, j - k + 1) = Total(a, j) - Total(a, k) + b[j - k + 1]
          /\ \A p \in 1 .. (j - k) : Rest(b, p, j - k + 1) = Rest(a, k + p, j) + b[j - k + 1]
          /\ Rest(b, j - k + 1, j - k + 1) = b[j - k + 1]
      <3>1. Shifts(a, b, j, k)
        BY <2>4 DEF Shifts
      <3> QED
        BY <3>1, RestShifted
    <2> QED
      BY <1>19, <2>2, <2>3, <2>5
  \* The stored calls.
  <1>21. /\ stored' \in Seq(StoredType) /\ Len(stored') = m + 1
         /\ \A n \in 1..m : stored'[n] = stored[n]
         /\ stored'[m + 1].id = id /\ stored'[m + 1].count = c
    <2> DEFINE e == [id |-> id, count |-> c]
    <2>1. stored \in Seq(StoredType) /\ e \in StoredType
      BY <1>5, <1>11, ShufflesFacts DEF ShufflesTypeOK, StoredType
    <2>2. e.id = id /\ e.count = c /\ stored' = Append(stored, e)
      BY <1>8
    <2> HIDE DEF e, id
    <2> QED
      BY <2>1, <2>2
  <1>22. PICK d : d = Counts'
    OBVIOUS
  <1>23. (\A n \in 1..m : d[n] = Counts[n]) /\ d[m + 1] = c
    <2>1. DOMAIN stored' = 1 .. (m + 1)
      BY <1>10, <1>21
    <2>2. \A n \in 1 .. (m + 1) : d[n] = stored'[n].count
      BY <1>22, <2>1 DEF Counts
    <2>3. \A n \in 1..m : n \in 1 .. (m + 1) /\ stored'[n] = stored[n]
      BY <1>10, <1>21
    <2>4. m + 1 \in 1 .. (m + 1)
      BY <1>10
    <2> QED
      BY <1>21, <2>2, <2>3, <2>4, CountsAre
  <1>24. \A n \in 1..m : Rest(d, n, m + 1) = Rest(Counts, n, m) + c
    <2>1. \A n \in 1..m : Counts[n] \in Nat
      BY CountsAre
    <2>2. 0 \in 0..m /\ m - 0 = m /\ \A i \in 1..m : 0 + i = i
      BY <1>10
    <2>3. PICK a : a = Counts
      OBVIOUS
    <2>4. PICK j : j = m
      OBVIOUS
    <2>5. PICK z : z = 0
      OBVIOUS
    <2>6. /\ j \in Nat /\ z \in 0..j /\ \A i \in 1..j : a[i] \in Nat
          /\ \A i \in 1 .. (j - z) : d[i] = a[z + i]
          /\ d[j - z + 1] \in Nat
      BY <1>5, <1>10, <1>23, <2>1, <2>2, <2>3, <2>4, <2>5
    <2>7. \A p \in 1 .. (j - z) : Rest(d, p, j - z + 1) = Rest(a, z + p, j) + d[j - z + 1]
      <3>1. Shifts(a, d, j, z)
        BY <2>6 DEF Shifts
      <3> QED
        BY <3>1, RestShifted
    <2> QED
      BY <1>10, <1>23, <2>2, <2>3, <2>4, <2>5, <2>7
  <1>25. Rest(d, m + 1, m + 1) = c
    <2>1. \A n \in 1..m : Counts[n] \in Nat
      BY CountsAre
    <2>2. \A n \in 1..m : d[n] \in Nat
      BY <1>23, <2>1
    <2> HIDE DEF m
    <2>3. Total(d, m) \in Nat /\ Total(d, m + 1) = Total(d, m) + d[m + 1]
      BY <1>10, <2>2, TotalIsNat, TotalMore
    <2>4. (m + 1) - 1 = m
      BY <1>10
    <2> QED
      BY <1>5, <1>23, <2>3, <2>4 DEF Rest
  \* The invariant.
  <1>26. /\ pendingReadBytes' = Total(b, l - k + 1) /\ pendingReadBytes' \in Nat
         /\ pendingReadBytes' <= MaxCloudFileChunkSize
    <2>1. pendingReadBytes = Total(Bytes, l)
      BY DEF Queue
    <2>2. \A i \in 1..l : Bytes[i] \in Nat
      BY BytesAre
    <2>3. k <= l
      BY <1>7
    <2>4. Total(Bytes, k) \in Nat /\ Total(Bytes, l) \in Nat /\ Total(Bytes, k) <= Total(Bytes, l)
      <3> HIDE DEF l
      <3> QED
        BY <1>10, <2>2, <2>3, TotalGrows
    <2> QED
      BY <1>5, <1>7, <1>8, <1>9, <1>20, <2>1, <2>4
  <1>27. Queue'
    <2>1. \A p \in 1 .. (l - k + 1) : readCallOrder'[p] \in DOMAIN readCalls'
      BY <1>14, <1>15, <1>16, <1>17
    <2>2. ASSUME NEW i \in DOMAIN readCalls' PROVE \E p \in 1 .. (l - k + 1) : readCallOrder'[p] = i
      <3>1. CASE i = id
        <4>1. l - k + 1 \in 1 .. (l - k + 1)
          BY <1>10
        <4> QED
          BY <1>14, <3>1, <4>1
      <3>2. CASE i # id
        <4>1. i \in DOMAIN readCalls /\ \A n \in 1..k : readCallOrder[n] # i
          BY <1>15, <3>2
        <4>2. PICK q \in 1..l : readCallOrder[q] = i
          BY <4>1 DEF Queue
        <4>3. q \notin 1..k
          BY <4>1, <4>2
        <4>4. q - k \in 1 .. (l - k) /\ q - k \in 1 .. (l - k + 1) /\ k + (q - k) = q
          BY <1>10, <4>3
        <4>5. readCallOrder'[q - k] = readCallOrder[k + (q - k)]
          BY <1>14, <4>4
        <4> QED
          BY <4>2, <4>4, <4>5
      <3> QED
        BY <3>1, <3>2
    <2>3. ASSUME NEW p \in 1 .. (l - k + 1), NEW q \in 1 .. (l - k + 1), readCallOrder'[p] = readCallOrder'[q]
          PROVE  p = q
      <3>1. CASE p \in 1 .. (l - k) /\ q \in 1 .. (l - k)
        <4>1. readCallOrder[k + p] = readCallOrder[k + q] /\ k + p \in 1..l /\ k + q \in 1..l
          BY <1>14, <1>16, <2>3, <3>1
        <4>2. k + p = k + q
          BY <4>1 DEF Queue
        <4> QED
          BY <1>10, <3>1, <4>2
      <3>2. CASE p \in 1 .. (l - k) /\ q = l - k + 1
        BY <1>14, <1>16, <2>3, <3>2
      <3>3. CASE q \in 1 .. (l - k) /\ p = l - k + 1
        BY <1>14, <1>16, <2>3, <3>3
      <3> QED
        BY <1>17, <3>1, <3>2, <3>3
    <2> QED
      BY <1>7, <1>14, <1>18, <1>26, <2>1, <2>2, <2>3 DEF Queue
  <1>28. ShufflesTypeOK'
    <2>1. Jobs' = Jobs
      BY <1>2, <1>3 DEF Jobs
    <2>2. (thread \in [Threads -> Jobs])'
      <3>1. Idle \in Jobs'
        BY DEF Jobs
      <3> QED
        BY <1>2, <2>1, <3>1, JobsStay DEF ShufflesTypeOK
    <2>3. CallType' = CallType /\ StoredType' = StoredType
      BY <1>2, <1>3 DEF CallType, StoredType
    <2>4. \A i \in DOMAIN readCalls' : readCalls'[i] \in CallType
      BY <1>4, <1>15 DEF ShufflesTypeOK
    <2>5. readCalls' \in [DOMAIN readCalls' -> CallType]
      BY <1>8, <2>4
    <2> QED
      BY <1>2, <1>3, <1>14, <1>21, <1>26, <2>2, <2>3, <2>5 DEF ShufflesTypeOK
  <1>29. Replaced'
    <2>1. \A u \in Threads : Writes(u)' => Writes(u) /\ thread'[u] = thread[u]
      BY <1>13 DEF Writes, Idle
    <2> QED
      BY <1>3, <2>1 DEF Replaced, Whole, Careful, Apart
  <1>30. Answered'
    <2> SUFFICES ASSUME NEW i \in DOMAIN readCalls', readCalls'[i].result = "ok"
                 PROVE  /\ readCalls'[i].write \in earlier \ {none}
                        /\ readCalls'[i].count = Cut(writes[readCalls'[i].write].size, readCalls'[i].range)
      BY <1>3 DEF Answered
    <2>1. CASE i = id
      BY <1>4, <1>15, <2>1
    <2>2. CASE i # id
      <3>1. i \in DOMAIN readCalls /\ readCalls'[i] = readCalls[i]
        BY <1>15, <2>2
      <3> QED
        BY <3>1 DEF Answered
    <2> QED
      BY <2>1, <2>2
  <1>31. \A n \in 1 .. (m + 1) : n \in 1..m \/ n = m + 1
    BY <1>10
  <1>32. Identified'
    <2>1. ASSUME NEW n \in 1 .. (m + 1), NEW o \in 1 .. (m + 1), stored'[n].id = stored'[o].id PROVE n = o
      BY <1>11, <1>21, <1>31, <2>1 DEF Identified
    <2>2. ASSUME NEW u \in Threads, thread'[u].step = "reading", NEW n \in 1 .. (m + 1)
          PROVE  stored'[n].id # thread'[u].id
      <3>1. u # t /\ thread'[u] = thread[u]
        BY <1>13, <2>2 DEF Idle
      <3>2. thread[u].id # id
        BY <1>2, <2>2, <3>1 DEF Identified
      <3> QED
        BY <1>21, <1>31, <2>2, <3>1, <3>2 DEF Identified
    <2>3. (\A u, v \in Threads :
             thread[u].step = "reading" /\ thread[v].step = "reading" /\ thread[u].id = thread[v].id
             => u = v)'
      BY <1>13 DEF Identified, Idle
    <2>4. ASSUME NEW p \in 1 .. (l - k + 1) PROVE \E n \in 1 .. (m + 1) : stored'[n].id = readCallOrder'[p]
      <3>1. CASE p \in 1 .. (l - k)
        <4>1. readCallOrder'[p] = readCallOrder[k + p] /\ k + p \in 1..l
          BY <1>14, <1>16, <3>1
        <4>2. PICK n \in 1..m : stored[n].id = readCallOrder[k + p]
          BY <4>1 DEF Identified
        <4>3. n \in 1 .. (m + 1) /\ stored'[n] = stored[n]
          BY <1>10, <1>21
        <4> QED
          BY <4>1, <4>2, <4>3
      <3>2. CASE p = l - k + 1
        <4>1. m + 1 \in 1 .. (m + 1)
          BY <1>10
        <4> QED
          BY <1>14, <1>21, <3>2, <4>1
      <3> QED
        BY <1>17, <3>1, <3>2
    <2> QED
      BY <1>14, <1>21, <2>1, <2>2, <2>3, <2>4 DEF Identified
  <1>33. Behind'
    <2> SUFFICES ASSUME NEW p \in 1 .. (l - k + 1), NEW n \in 1 .. (m + 1), readCallOrder'[p] = stored'[n].id
                 PROVE  /\ (l - k + 1) - p <= (m + 1) - n
                        /\ Rest(b, p, l - k + 1) <= Rest(d, n, m + 1)
      BY <1>14, <1>18, <1>21, <1>22 DEF Behind
    <2>1. CASE p \in 1 .. (l - k)
      <3>1. readCallOrder'[p] = readCallOrder[k + p] /\ k + p \in 1..l /\ readCallOrder[k + p] # id
        BY <1>14, <1>16, <2>1
      <3>2. n \in 1..m /\ stored'[n] = stored[n]
        BY <1>21, <1>31, <3>1
      <3>3. l - (k + p) <= m - n /\ Rest(Bytes, k + p, l) <= Rest(Counts, n, m)
        BY <3>1, <3>2 DEF Behind
      <3>4. Rest(b, p, l - k + 1) = Rest(Bytes, k + p, l) + c /\ Rest(d, n, m + 1) = Rest(Counts, n, m) + c
        BY <1>20, <1>24, <2>1, <3>2
      <3>5. Rest(Bytes, k + p, l) \in Int /\ Rest(Counts, n, m) \in Int
        BY <1>10, <2>1, <3>1, <3>2, RestsAre
      <3>6. p \in Int /\ n \in Int
        OBVIOUS
      <3> HIDE DEF l, m
      <3> QED
        BY <1>5, <1>10, <3>3, <3>4, <3>5, <3>6
    <2>2. CASE p = l - k + 1
      <3>1. n = m + 1
        BY <1>11, <1>14, <1>21, <1>31, <2>2
      <3> HIDE DEF l, m
      <3> QED
        BY <1>5, <1>10, <1>20, <1>25, <2>2, <3>1
    <2> QED
      BY <1>17, <2>1, <2>2
  <1>34. Gone'
    <2> SUFFICES ASSUME NEW n \in 1 .. (m + 1)
                 PROVE  \/ stored'[n].id \in fetched \/ stored'[n].id \in DOMAIN readCalls'
                        \/ (m + 1) - n >= MaxPendingReadCalls
                        \/ Rest(d, n, m + 1) > MaxCloudFileChunkSize
      BY <1>2, <1>21, <1>22 DEF Gone
    <2>1. CASE n = m + 1
      BY <1>15, <1>21, <2>1
    <2>2. CASE n \in 1..m
      <3>0. stored'[n] = stored[n] /\ Rest(d, n, m + 1) = Rest(Counts, n, m) + c /\ Rest(Counts, n, m) \in Int
        BY <1>21, <1>24, <2>2, RestsAre
      <3>1. CASE stored[n].id \in fetched
        BY <3>0, <3>1
      <3>2. CASE m - n >= MaxPendingReadCalls
        <4>1. (m + 1) - n >= MaxPendingReadCalls
          BY <1>10, <3>2, ShufflesFacts
        <4> QED
          BY <4>1
      <3>3. CASE Rest(Counts, n, m) > MaxCloudFileChunkSize
        <4>1. Rest(d, n, m + 1) > MaxCloudFileChunkSize
          <5> HIDE DEF m
          <5> QED
            BY <1>5, <3>0, <3>3, ShufflesFacts
        <4> QED
          BY <4>1
      <3>4. CASE stored[n].id \in DOMAIN readCalls /\ \A p \in 1..k : readCallOrder[p] # stored[n].id
        BY <1>15, <3>0, <3>4
      <3>5. CASE \E p \in 1..k : readCallOrder[p] = stored[n].id
        <4>1. PICK p \in 1..k : readCallOrder[p] = stored[n].id
          BY <3>5
        <4>2. p \in 1..l
          BY <1>7, <1>10
        <4>3. l - p <= m - n /\ Rest(Bytes, p, l) <= Rest(Counts, n, m)
          BY <2>2, <4>1, <4>2 DEF Behind
        <4>4. l - p + 1 >= MaxPendingReadCalls \/ Rest(Bytes, p, l) + c > MaxCloudFileChunkSize
          BY <1>7
        <4>5. Rest(Bytes, p, l) \in Int
          BY <4>2, RestsAre
        <4>6. p \in Int /\ n \in Int
          OBVIOUS
        <4>7. (m + 1) - n >= MaxPendingReadCalls \/ Rest(d, n, m + 1) > MaxCloudFileChunkSize
          <5> HIDE DEF l, m
          <5> QED
            BY <1>5, <1>10, <3>0, <4>3, <4>4, <4>5, <4>6, ShufflesFacts
        <4> QED
          BY <4>7
      <3> QED
        BY <2>2, <3>1, <3>2, <3>3, <3>4, <3>5 DEF Gone
    <2> QED
      BY <1>31, <2>1, <2>2
  <1> QED
    BY <1>27, <1>28, <1>29, <1>30, <1>32, <1>33, <1>34

LEMMA SecondPart ==
    ASSUME NEW a \in Seq(Nat), NEW b \in Seq(Nat), NEW j \in 1..Len(b)
    PROVE  (a \o b)[Len(a) + j] = b[j]
  OBVIOUS

LEMMA RemovedIs ==
    ASSUME NEW s \in Seq(Nat), NEW e, \E i \in 1..Len(s) : s[i] = e
    PROVE  \E q \in 1..Len(s) :
             /\ s[q] = e /\ RemoveFirst(s, e) \in Seq(Nat) /\ Len(RemoveFirst(s, e)) = Len(s) - 1
             /\ \A i \in 1 .. (Len(s) - 1) : RemoveFirst(s, e)[i] = IF i < q THEN s[i] ELSE s[i + 1]
  <1> DEFINE I == {i \in 1..Len(s) : s[i] = e}
             q == Min(I)
  <1>1. I \in SUBSET Nat /\ I # {}
    OBVIOUS
  <1>2. q \in I
    BY <1>1, LeastOf
  <1>3. q \in 1..Len(s) /\ s[q] = e
    BY <1>2
  <1>4. RemoveFirst(s, e) = RemoveAt(s, q)
    BY <1>1 DEF RemoveFirst, SelectInSeq
  <1> HIDE DEF q
  <1> DEFINE a == SubSeq(s, 1, q - 1)
             b == SubSeq(s, q + 1, Len(s))
  <1>5. a \in Seq(Nat) /\ Len(a) = q - 1 /\ \A i \in 1 .. (q - 1) : a[i] = s[i]
    BY <1>3
  <1>6. b \in Seq(Nat) /\ Len(b) = Len(s) - q /\ \A i \in 1 .. (Len(s) - q) : b[i] = s[q + i]
    BY <1>3
  <1>7. RemoveFirst(s, e) = a \o b
    BY <1>4 DEF RemoveAt
  <1> HIDE DEF a, b
  <1>8. /\ a \o b \in Seq(Nat) /\ Len(a \o b) = Len(s) - 1
        /\ \A i \in 1 .. (Len(s) - 1) : (a \o b)[i] = IF i < q THEN s[i] ELSE s[i + 1]
    <2>0. /\ a \o b \in Seq(Nat) /\ Len(a \o b) = Len(a) + Len(b)
          /\ \A i \in 1 .. Len(a) + Len(b) : (a \o b)[i] = IF i <= Len(a) THEN a[i] ELSE b[i - Len(a)]
      BY <1>5, <1>6, ConcatProperties
    <2>1. a \o b \in Seq(Nat) /\ Len(a \o b) = Len(s) - 1
      BY <1>3, <1>5, <1>6, <2>0
    <2>2. ASSUME NEW i \in 1 .. (Len(s) - 1) PROVE (a \o b)[i] = IF i < q THEN s[i] ELSE s[i + 1]
      <3>1. CASE i < q
        <4>1. i \in 1 .. (q - 1) /\ i <= Len(a) /\ i \in 1 .. Len(a) + Len(b)
          BY <1>3, <1>5, <1>6, <3>1
        <4>2. (a \o b)[i] = a[i]
          BY <2>0, <4>1
        <4> QED
          BY <1>5, <3>1, <4>1, <4>2
      <3>2. CASE ~(i < q)
        <4> DEFINE j == i - (q - 1)
        <4>1. j \in 1 .. (Len(s) - q) /\ j \in 1..Len(b) /\ q + j = i + 1 /\ i = Len(a) + j
          <5>1. PICK n : n = Len(s)
            OBVIOUS
          <5>2. n \in Nat /\ q \in 1..n /\ i \in 1 .. (n - 1) /\ ~(i < q)
            BY <1>3, <3>2, <5>1
          <5>3. j \in 1 .. (n - q) /\ q + j = i + 1 /\ i = (q - 1) + j
            BY <5>2
          <5> HIDE DEF j
          <5> QED
            BY <1>5, <1>6, <5>1, <5>3
        <4>2. (a \o b)[Len(a) + j] = b[j]
          <5> HIDE DEF j
          <5> QED
            BY <1>5, <1>6, <4>1, SecondPart
        <4>3. b[j] = s[q + j]
          BY <1>6, <4>1
        <4> QED
          BY <3>2, <4>1, <4>2, <4>3
      <3> QED
        BY <3>1, <3>2
    <2> QED
      BY <2>1, <2>2
  <1> QED
    BY <1>3, <1>7, <1>8

LEMMA FetchStep ==
    ASSUME ShufflesIInv, NEW id \in DOMAIN readCalls, Fetch(id)
    PROVE  ShufflesIInv'
  <1> USE DEF ShufflesIInv
  <1> DEFINE l == Len(readCallOrder)
             m == Len(stored)
  <1>1. /\ readCalls' = [i \in DOMAIN readCalls \ {id} |-> readCalls[i]]
        /\ readCallOrder' = RemoveFirst(readCallOrder, id)
        /\ pendingReadBytes' = pendingReadBytes - readCalls[id].count
        /\ fetched' = fetched \cup {id}
        /\ UNCHANGED <<disk, thread, readCounter, stored, losses>>
    BY DEF Fetch, EraseReadCallLocked, Without
  <1>2. UNCHANGED <<writes, file, earlier>>
    BY <1>1 DEF disk
  <1>3. l \in Nat /\ m \in Nat /\ \A i \in 1..l : Bytes[i] \in Nat
    BY BytesAre, CountsAre
  <1>4. PICK q \in 1..l :
          /\ readCallOrder[q] = id /\ readCallOrder' \in Seq(Nat) /\ Len(readCallOrder') = l - 1
          /\ \A i \in 1 .. (l - 1) :
               readCallOrder'[i] = IF i < q THEN readCallOrder[i] ELSE readCallOrder[i + 1]
    <2>1. readCallOrder \in Seq(Nat) /\ \E i \in 1..l : readCallOrder[i] = id
      BY DEF ShufflesTypeOK, Queue
    <2> QED
      BY <1>1, <2>1, RemovedIs
  \* What was at place At(p) is at place p.
  <1> DEFINE At(p) == IF p < q THEN p ELSE p + 1
  <1>5. ASSUME NEW p \in 1 .. (l - 1)
        PROVE  /\ At(p) \in 1..l /\ At(p) # q /\ l - At(p) >= (l - 1) - p /\ At(p) \in Int
               /\ readCallOrder'[p] = readCallOrder[At(p)]
               /\ readCallOrder'[p] \in DOMAIN readCalls'
               /\ readCalls'[readCallOrder'[p]] = readCalls[readCallOrder[At(p)]]
    <2>1. At(p) \in 1..l /\ At(p) # q /\ l - At(p) >= (l - 1) - p /\ At(p) \in Int
      BY <1>3
    <2>2. readCallOrder'[p] = readCallOrder[At(p)]
      BY <1>4
    <2> HIDE DEF At
    <2>3. readCallOrder[At(p)] \in DOMAIN readCalls /\ readCallOrder[At(p)] # id
      BY <1>4, <2>1 DEF Queue
    <2> QED
      BY <1>1, <2>1, <2>2, <2>3
  <1>6. PICK b : b = Bytes'
    OBVIOUS
  <1>7. \A p \in 1 .. (l - 1) : b[p] = Bytes[At(p)]
    <2>1. DOMAIN readCallOrder' = 1 .. (l - 1)
      BY <1>3, <1>4
    <2>2. \A p \in 1 .. (l - 1) : b[p] = readCalls'[readCallOrder'[p]].count
      BY <1>6, <2>1 DEF Bytes
    <2> HIDE DEF At
    <2> QED
      BY <1>5, <2>2, BytesAre
  <1>8. Bytes[q] = readCalls[id].count
    BY <1>4, BytesAre
  <1>9. /\ Total(b, l - 1) = Total(Bytes, l) - Bytes[q]
        /\ \A p \in 1 .. (l - 1) :
             IF p < q THEN Rest(b, p, l - 1) = Rest(Bytes, p, l) - Bytes[q]
                      ELSE Rest(b, p, l - 1) = Rest(Bytes, p + 1, l)
    <2>1. PICK a : a = Bytes
      OBVIOUS
    <2>2. PICK j : j = l
      OBVIOUS
    <2>3. /\ j \in Nat /\ q \in 1..j /\ \A i \in 1..j : a[i] \in Nat
          /\ \A i \in 1 .. (j - 1) : b[i] = IF i < q THEN a[i] ELSE a[i + 1]
      BY <1>3, <1>7, <2>1, <2>2
    <2>4. /\ Total(b, j - 1) = Total(a, j) - a[q]
          /\ \A p \in 1 .. (j - 1) :
               IF p < q THEN Rest(b, p, j - 1) = Rest(a, p, j) - a[q]
                        ELSE Rest(b, p, j - 1) = Rest(a, p + 1, j)
      BY <2>3, RestWithout
    <2> QED
      BY <2>1, <2>2, <2>4
  <1>10. ASSUME NEW p \in 1 .. (l - 1)
         PROVE  Rest(b, p, l - 1) <= Rest(Bytes, At(p), l) /\ Rest(Bytes, At(p), l) \in Int
    <2>1. Rest(Bytes, At(p), l) \in Int
      <3> HIDE DEF At
      <3> QED
        BY <1>5, RestsAre
    <2>2. CASE p < q
      BY <1>3, <1>9, <2>1, <2>2
    <2>3. CASE ~(p < q)
      BY <1>9, <2>1, <2>3
    <2> QED
      BY <2>1, <2>2, <2>3
  <1>11. \A p, o \in 1 .. (l - 1) : At(p) = At(o) => p = o
    BY <1>3
  <1>12. \A i \in 1..l : i # q => \E p \in 1 .. (l - 1) : At(p) = i
    <2> SUFFICES ASSUME NEW i \in 1..l, i # q PROVE \E p \in 1 .. (l - 1) : At(p) = i
      OBVIOUS
    <2>1. CASE i < q
      <3>1. i \in 1 .. (l - 1) /\ At(i) = i
        BY <1>3, <2>1
      <3> QED
        BY <3>1
    <2>2. CASE ~(i < q)
      <3>1. i - 1 \in 1 .. (l - 1) /\ At(i - 1) = i
        BY <1>3, <2>2
      <3> QED
        BY <3>1
    <2> QED
      BY <2>1, <2>2
  <1> HIDE DEF At
  <1>13. /\ pendingReadBytes' = Total(b, l - 1) /\ pendingReadBytes' \in Nat
         /\ pendingReadBytes' <= MaxCloudFileChunkSize
    <2>1. pendingReadBytes = Total(Bytes, l) /\ pendingReadBytes <= MaxCloudFileChunkSize /\ pendingReadBytes \in Nat
      BY DEF Queue, ShufflesTypeOK
    <2>2. Total(b, l - 1) \in Nat
      <3>1. l - 1 \in Nat
        BY <1>3
      <3>2. ASSUME NEW i \in 1 .. (l - 1) PROVE b[i] \in Nat
        <4>1. b[i] = Bytes[At(i)] /\ At(i) \in 1..l
          BY <1>5, <1>7
        <4> QED
          BY <1>3, <4>1
      <3> QED
        BY <3>1, <3>2, TotalIsNat
    <2>3. Bytes[q] \in Nat
      BY <1>3
    <2> QED
      BY <1>1, <1>8, <1>9, <2>1, <2>2, <2>3, ShufflesFacts
  <1>14. Queue'
    <2>1. \A p \in 1 .. (l - 1) : readCallOrder'[p] \in DOMAIN readCalls'
      BY <1>5
    <2>2. ASSUME NEW i \in DOMAIN readCalls' PROVE \E p \in 1 .. (l - 1) : readCallOrder'[p] = i
      <3>1. i \in DOMAIN readCalls /\ i # id
        BY <1>1
      <3>2. PICK o \in 1..l : readCallOrder[o] = i
        BY <3>1 DEF Queue
      <3>3. o # q
        BY <1>4, <3>1, <3>2
      <3>4. PICK p \in 1 .. (l - 1) : At(p) = o
        BY <1>12, <3>3
      <3> QED
        BY <1>5, <3>2, <3>4
    <2>3. ASSUME NEW p \in 1 .. (l - 1), NEW o \in 1 .. (l - 1), readCallOrder'[p] = readCallOrder'[o]
          PROVE  p = o
      <3>1. readCallOrder[At(p)] = readCallOrder[At(o)] /\ At(p) \in 1..l /\ At(o) \in 1..l
        BY <1>5, <2>3
      <3>2. At(p) = At(o)
        BY <3>1 DEF Queue
      <3> QED
        BY <1>11, <3>2
    <2>4. l - 1 <= MaxPendingReadCalls
      BY <1>3, ShufflesFacts DEF Queue
    <2> QED
      BY <1>4, <1>6, <1>13, <2>1, <2>2, <2>3, <2>4 DEF Queue
  <1>15. ShufflesTypeOK'
    <2>1. Jobs' = Jobs
      BY <1>1, <1>2 DEF Jobs
    <2>2. CallType' = CallType /\ StoredType' = StoredType
      BY <1>1, <1>2 DEF CallType, StoredType
    <2>3. readCalls' \in [DOMAIN readCalls' -> CallType]
      BY <1>1 DEF ShufflesTypeOK
    <2> QED
      BY <1>1, <1>2, <1>4, <1>13, <2>1, <2>2, <2>3 DEF ShufflesTypeOK
  <1>16. Replaced'
    BY <1>1, <1>2 DEF Replaced, Whole, Careful, Apart, Writes
  <1>17. Answered'
    BY <1>1, <1>2 DEF Answered
  <1>18. Counts' = Counts /\ stored' = stored
    BY <1>1 DEF Counts
  <1>19. Identified'
    <2>1. ASSUME NEW p \in 1 .. (l - 1) PROVE \E n \in 1..m : stored[n].id = readCallOrder'[p]
      <3>1. readCallOrder'[p] = readCallOrder[At(p)] /\ At(p) \in 1..l
        BY <1>5
      <3> QED
        BY <3>1 DEF Identified
    <2> QED
      BY <1>1, <1>4, <2>1 DEF Identified
  <1>20. Behind'
    <2> SUFFICES ASSUME NEW p \in 1 .. (l - 1), NEW n \in 1..m, readCallOrder'[p] = stored[n].id
                 PROVE  /\ (l - 1) - p <= m - n
                        /\ Rest(b, p, l - 1) <= Rest(Counts, n, m)
      BY <1>4, <1>6, <1>18 DEF Behind
    <2>1. readCallOrder[At(p)] = stored[n].id /\ At(p) \in 1..l /\ l - At(p) >= (l - 1) - p /\ At(p) \in Int
      BY <1>5
    <2>2. l - At(p) <= m - n /\ Rest(Bytes, At(p), l) <= Rest(Counts, n, m)
      BY <2>1 DEF Behind
    <2>3. Rest(Bytes, At(p), l) \in Int /\ Rest(Counts, n, m) \in Int /\ Rest(b, p, l - 1) <= Rest(Bytes, At(p), l)
      BY <1>10, RestsAre
    <2>4. Rest(b, p, l - 1) \in Int
      <3>1. Rest(Bytes, p, l) \in Int /\ Bytes[q] \in Int
        <4>1. p \in 1..l
          BY <1>3
        <4> QED
          BY <1>3, <4>1, RestsAre
      <3>2. ~(p < q) => p + 1 \in 1..l
        BY <1>3
      <3>3. ~(p < q) => Rest(Bytes, p + 1, l) \in Int
        BY <3>2, RestsAre
      <3>4. CASE p < q
        BY <1>9, <3>1, <3>4
      <3>5. CASE ~(p < q)
        BY <1>9, <3>3, <3>5
      <3> QED
        BY <3>4, <3>5
    <2>5. p \in Int /\ n \in Int
      OBVIOUS
    <2> HIDE DEF l, m
    <2> QED
      BY <1>3, <2>1, <2>2, <2>3, <2>4, <2>5
  <1>21. Gone'
    <2>1. \A i \in DOMAIN readCalls : i \in fetched' \/ i \in DOMAIN readCalls'
      BY <1>1
    <2>2. fetched \subseteq fetched'
      BY <1>1
    <2> QED
      BY <1>18, <2>1, <2>2 DEF Gone
  <1> QED
    BY <1>14, <1>15, <1>16, <1>17, <1>19, <1>20, <1>21

LEMMA PowerFailsStep ==
    ASSUME ShufflesIInv, PowerFails
    PROVE  ShufflesIInv'
  <1> USE DEF ShufflesIInv
  <1>1. PICK done \in [DOMAIN writes -> 0..Max(Sizes)], name \in earlier :
          /\ \A w \in DOMAIN writes :
               IF writes[w].synced THEN done[w] = writes[w].done ELSE done[w] <= writes[w].done
          /\ writes' = [w \in DOMAIN writes |-> [writes[w] EXCEPT !.done = done[w]]]
          /\ file' = name /\ earlier' = {name}
    BY DEF PowerFails
  <1>2. /\ thread' = [t \in Threads |-> Idle]
        /\ readCalls' = <<>> /\ readCallOrder' = <<>> /\ pendingReadBytes' = 0
        /\ readCounter' = 1 /\ stored' = <<>>
    BY DEF PowerFails
  <1>3. writes \in Seq(WriteType) /\ Len(writes) \in Nat /\ DOMAIN writes = 1..Len(writes)
    BY DEF ShufflesTypeOK
  <1>4. ASSUME NEW w \in DOMAIN writes
        PROVE  /\ writes'[w] \in WriteType
               /\ writes'[w].size = writes[w].size /\ writes'[w].failed = writes[w].failed
               /\ writes'[w].synced = writes[w].synced
               /\ writes[w].synced => writes'[w].done = writes[w].done
    <2>1. writes'[w] = [writes[w] EXCEPT !.done = done[w]]
      BY <1>1
    <2>2. done[w] \in Nat
      <3>1. done[w] \in 0..Max(Sizes)
        BY <1>1
      <3> QED
        BY <3>1
    <2>3. writes[w] \in WriteType
      BY FileOf
    <2>4. writes[w].synced => done[w] = writes[w].done
      BY <1>1
    <2> QED
      BY <2>1, <2>2, <2>3, <2>4 DEF WriteType
  <1>5. writes' \in Seq(WriteType) /\ DOMAIN writes' = DOMAIN writes
    <2>1. DOMAIN writes' = 1..Len(writes) /\ writes' = [w \in 1..Len(writes) |-> writes'[w]]
      BY <1>1, <1>3
    <2> QED
      BY <1>3, <1>4, <2>1
  <1>6. PICK e : e = <<>>
    OBVIOUS
  <1>7. Len(e) = 0 /\ DOMAIN e = {} /\ \A S : e \in Seq(S)
    BY <1>6
  <1>8. readCalls' = e /\ readCallOrder' = e /\ stored' = e
    BY <1>2, <1>6
  <1>9. ShufflesTypeOK'
    <2>1. (thread \in [Threads -> Jobs])'
      BY <1>2 DEF Jobs
    <2>2. (readCalls \in [DOMAIN readCalls -> CallType])'
      BY <1>6, <1>7, <1>8
    <2>3. earlier' \subseteq DOMAIN writes' \cup {none} /\ file' \in earlier'
      BY <1>1, <1>5 DEF ShufflesTypeOK
    <2> QED
      BY <1>2, <1>5, <1>7, <1>8, <2>1, <2>2, <2>3 DEF ShufflesTypeOK
  <1>10. Replaced'
    <2>1. ASSUME NEW w \in earlier' \ {none} PROVE Whole(w)' /\ writes'[w].synced
      <3>1. w \in earlier \ {none} /\ w \in DOMAIN writes
        BY <1>1, <2>1 DEF ShufflesTypeOK
      <3>2. Whole(w) /\ writes[w].synced
        BY <3>1 DEF Replaced
      <3> QED
        BY <1>4, <3>1, <3>2 DEF Whole
    <2> QED
      BY <1>2, <2>1 DEF Replaced, Careful, Apart, Writes, Idle
  <1>11. Answered'
    BY <1>7, <1>8 DEF Answered
  <1>12. Queue'
    <2>1. \A s : Total(s, 0) = 0
      BY TotalNone
    <2>2. Total(Bytes', 0) = 0
      BY <2>1
    <2> QED
      BY <1>2, <1>7, <1>8, <2>2, ShufflesFacts DEF Queue
  <1>13. Identified'
    BY <1>2, <1>7, <1>8 DEF Identified, Idle
  <1>14. Behind' /\ Gone'
    BY <1>7, <1>8 DEF Behind, Gone
  <1> QED
    BY <1>9, <1>10, <1>11, <1>12, <1>13, <1>14

LEMMA ShufflesNextIInv == ShufflesIInv /\ [ShufflesNext]_shufflesVars => ShufflesIInv'
  <1> SUFFICES ASSUME ShufflesIInv, [ShufflesNext]_shufflesVars PROVE ShufflesIInv'
    OBVIOUS
  <1>1. ASSUME NEW t \in Threads, NEW size \in Sizes, OpenTemporary(t, size) PROVE ShufflesIInv'
    BY <1>1, OpenTemporaryStep
  <1>2. ASSUME NEW t \in Threads, WritePart(t) PROVE ShufflesIInv'
    BY <1>2, WritePartStep
  <1>3. ASSUME NEW t \in Threads, Sync(t) PROVE ShufflesIInv'
    BY <1>3, SyncStep
  <1>4. ASSUME NEW t \in Threads, ReplaceFile(t) PROVE ShufflesIInv'
    BY <1>4, ReplaceFileStep
  <1>5. ASSUME NEW t \in Threads, WriteFails(t) PROVE ShufflesIInv'
    BY <1>5, WriteFailsStep
  <1>6. ASSUME NEW t \in Threads, NEW r \in Ranges, OpenRead(t, r) PROVE ShufflesIInv'
    BY <1>6, OpenReadStep
  <1>7. ASSUME NEW t \in Threads, StoreRead(t) PROVE ShufflesIInv'
    BY <1>7, StoreReadStep
  <1>8. ASSUME FileDelete PROVE ShufflesIInv'
    BY <1>8, FileDeleteStep
  <1>9. ASSUME NEW id \in DOMAIN readCalls, Fetch(id) PROVE ShufflesIInv'
    BY <1>9, FetchStep
  <1>10. ASSUME PowerFails PROVE ShufflesIInv'
    BY <1>10, PowerFailsStep
  <1>11. CASE UNCHANGED shufflesVars
    <2> USE DEF shufflesVars, disk, calls
    <2>1. ShufflesTypeOK'
      BY <1>11 DEF ShufflesIInv, ShufflesTypeOK, Jobs, CallType, StoredType
    <2>2. Replaced' /\ Answered'
      BY <1>11 DEF ShufflesIInv, Replaced, Answered, Whole, Careful, Apart, Writes
    <2>3. Bytes' = Bytes /\ Counts' = Counts
      BY <1>11 DEF Bytes, Counts
    <2>4. Queue' /\ Identified' /\ Behind' /\ Gone'
      BY <1>11, <2>3 DEF ShufflesIInv, Queue, Identified, Behind, Gone
    <2> QED
      BY <2>1, <2>2, <2>4 DEF ShufflesIInv
  <1> QED
    BY <1>1, <1>2, <1>3, <1>4, <1>5, <1>6, <1>7, <1>8, <1>9, <1>10, <1>11 DEF ShufflesNext

LEMMA ShufflesInvariance == ShufflesSpec => []ShufflesIInv
  BY ShufflesInitIInv, ShufflesNextIInv, PTL DEF ShufflesSpec

\* Whatever fails and whenever the power fails, the file is the whole of what one successful
\* FileWrite wrote, and so is what a read has, as far as its range goes: for any number of
\* threads, writes, reads and power losses.
THEOREM FileStaysWhole == ShufflesSpec => []FileIsWhole
  <1>1. ShufflesIInv => FileIsWhole
    <2> SUFFICES ASSUME ShufflesIInv PROVE FileIsWhole
      OBVIOUS
    <2> USE DEF ShufflesIInv
    <2>1. file \in DOMAIN writes \cup {none} /\ file \in earlier
      BY DEF ShufflesTypeOK
    <2>2. \A t \in Threads : thread[t].step \in {"idle", "writing", "written", "reading"}
      BY JobIs
    <2>3. file # none => Whole(file)
      BY <2>1 DEF Replaced
    <2>4. ReadsAreWhole
      BY DEF ReadsAreWhole, Answered, Replaced
    <2> QED
      BY <2>1, <2>2, <2>3, <2>4 DEF FileIsWhole
  <1> QED
    BY <1>1, ShufflesInvariance, PTL

\* The calls that wait, their order and the count of their bytes agree, within the limits;
\* and a result the game has not fetched waits until that many calls, or that many bytes,
\* came after it: for any limits.
THEOREM ResultsWait == ShufflesSpec => []ResultsLast
  <1>1. ShufflesIInv => ResultsLast
    <2> SUFFICES ASSUME ShufflesIInv PROVE ResultsLast
      OBVIOUS
    <2> USE DEF ShufflesIInv
    <2>1. Cardinality(DOMAIN readCalls) = Len(readCallOrder)
      BY CallsCounted
    <2>2. ToSet(readCallOrder) = DOMAIN readCalls
      <3>1. DOMAIN readCallOrder = 1..Len(readCallOrder)
        BY DEF ShufflesTypeOK
      <3>2. ToSet(readCallOrder) \subseteq DOMAIN readCalls
        BY <3>1 DEF Queue, ToSet
      <3>3. ASSUME NEW id \in DOMAIN readCalls PROVE id \in ToSet(readCallOrder)
        <4>1. PICK p \in 1..Len(readCallOrder) : readCallOrder[p] = id
          BY DEF Queue
        <4> QED
          BY <3>1, <4>1 DEF ToSet
      <3> QED
        BY <3>2, <3>3
    <2>3. SumOfBytes(readCallOrder) = Total(Bytes, Len(readCallOrder))
      <3>1. Bytes \in Seq(Nat) /\ Len(Bytes) = Len(readCallOrder)
        BY BytesAre
      <3>2. SumOfBytes(readCallOrder) = Sum(Bytes)
        BY DEF SumOfBytes, Bytes
      <3> QED
        BY <3>1, <3>2, SumOf
    <2>4. CallsAreCounted
      BY <2>1, <2>2, <2>3 DEF CallsAreCounted, Queue
    <2>5. ASSUME NEW n \in 1..Len(stored)
          PROVE  Sum([i \in 1 .. Len(stored) - n + 1 |-> stored[n + i - 1].count])
                   = Rest(Counts, n, Len(stored))
      <3> DEFINE m == Len(stored) - n + 1
                 s == [i \in 1..m |-> stored[n + i - 1].count]
                 a == n - 1
      <3>1. m \in Nat /\ a \in Nat /\ a + m = Len(stored) /\ Len(stored) \in Nat
        BY CountsAre
      <3>2. \A i \in 1..m : s[i] = Counts[a + i] /\ s[i] \in Nat
        <4>1. \A i \in 1..m : n + i - 1 \in 1..Len(stored) /\ a + i = n + i - 1
          BY <3>1
        <4> QED
          BY <4>1, CountsAre
      <3>3. \A i \in 1 .. (a + m) : Counts[i] \in Nat
        BY <3>1, CountsAre
      <3>4. s \in Seq(Nat) /\ Len(s) = m
        <4>1. s = [i \in 1..m |-> s[i]]
          OBVIOUS
        <4> HIDE DEF s, m
        <4> QED
          BY <3>1, <3>2, <4>1
      <3> HIDE DEF s, m, a
      <3>5. Total(Counts, a + m) = Total(Counts, a) + Total(s, m)
        <4>1. PICK c, u, b, k : c = Counts /\ u = s /\ b = a /\ k = m
          OBVIOUS
        <4>2. /\ b \in Nat /\ k \in Nat
              /\ \A i \in 1 .. (b + k) : c[i] \in Nat
              /\ \A i \in 1..k : u[i] = c[b + i]
          BY <3>1, <3>2, <3>3, <4>1
        <4>3. Total(c, b + k) = Total(c, b) + Total(u, k)
          <5>1. Continues(c, u, b, k)
            BY <4>2 DEF Continues
          <5> QED
            BY <5>1, TotalContinued
        <4> QED
          BY <4>1, <4>3
      <3>6. Total(Counts, a) \in Nat /\ Total(s, m) \in Nat
        BY <3>1, <3>2, <3>3, TotalIsNat
      <3>7. Sum(s) = Total(s, m)
        BY <3>4, SumOf
      <3>8. Sum(s) = Rest(Counts, n, Len(stored))
        BY <3>1, <3>5, <3>6, <3>7 DEF Rest, a
      <3> QED
        BY <3>8 DEF s, m
    <2>6. DOMAIN stored = 1..Len(stored)
      BY CountsAre DEF ShufflesTypeOK
    <2> QED
      BY <2>4, <2>5, <2>6 DEF ResultsLast, Gone
  <1> QED
    BY <1>1, ShufflesInvariance, PTL
===============================================================================

------------------------------- MODULE SharedGC -------------------------------
(***************************************************************************)
(* The event loop every game coordinator object is built on: SharedGC in   *)
(* gc_shared.{h,cpp}.  Host threads (the game's main thread in its Steam   *)
(* hooks, the RCON connection threads) push events under m_gcEventMutex    *)
(* and signal the condition variable only when they found the queue empty; *)
(* one worker thread takes the whole queue at once, handles the batch      *)
(* without the lock and posts host events back; the main thread collects   *)
(* those with GetHostEvents.  Stopping sets a flag, signals and joins.     *)
(*                                                                         *)
(* One action is one critical section or one step between two of them.     *)
(*                                                                         *)
(* Here and in the other modules an operator Name_Change, next to the      *)
(* definition of Name, is a mutant: Name with a plausible mistake in it.   *)
(* Nothing uses it; with it in Name's place a property fails (README.md).  *)
(***************************************************************************)
EXTENDS Naturals, Sequences

CONSTANTS Posters,    \* the threads that call PostToGC
          MaxPosts,   \* bound: events posted by all threads together
          MaxReplies  \* bound: host events one HandleEvent call posts

ASSUME SharedGCAssumption ==
    /\ MaxPosts \in Nat
    /\ MaxReplies \in Nat

VARIABLES
    gcEvents,    \* m_gcEvents
    hostEvents,  \* m_hostEvents
    stopping,    \* m_stopping
    worker,      \* where WorkerThread is
    batch,       \* the part of its local vector not handled yet
    replies,     \* host events the running HandleEvent has posted so far
    poster,      \* where each PostToGC call is
    stopper,     \* where StopThread is
    posted,      \* history: every event, in the order it was pushed
    handled,     \* history: every event HandleEvent returned from
    delivered    \* history: host events the main thread collected

vars == <<gcEvents, hostEvents, stopping, worker, batch, replies, poster,
          stopper, posted, handled, delivered>>

\* An event is named by the thread that posted it and its position in `posted`.
Event == Posters \X (Nat \ {0})

\* The k-th host event posted while e is handled.
HostEvent == Event \X (Nat \ {0})

Init ==
    /\ gcEvents = <<>>
    /\ hostEvents = <<>>
    /\ stopping = FALSE
    /\ worker = "testing"
    /\ batch = <<>>
    /\ replies = 0
    /\ poster = [p \in Posters |-> "idle"]
    /\ stopper = "idle"
    /\ posted = <<>>
    /\ handled = <<>>
    /\ delivered = <<>>

-------------------------------------------------------------------------------
(* PostToGC: push under the lock, remember whether the queue was empty,    *)
(* signal after the lock is released.                                      *)

WasEmpty_TestedAfterPush == gcEvents' = <<>>
WasEmpty == gcEvents = <<>>

PostToGC(p) ==
    /\ poster[p] = "idle"
    /\ Len(posted) < MaxPosts
    /\ LET e == <<p, Len(posted) + 1>> IN
         /\ gcEvents' = Append(gcEvents, e)
         /\ posted' = Append(posted, e)
    /\ poster' = [poster EXCEPT ![p] = IF WasEmpty THEN "notify" ELSE "idle"]
    /\ UNCHANGED <<hostEvents, stopping, worker, batch, replies, stopper,
                   handled, delivered>>

\* What the class asks of its owner, who stops it only after the last call into
\* it has returned.  ClientLifetime shows that the client's owner does.
Push(p) == stopper = "idle" /\ PostToGC(p)

Signalled_Lost == worker
\* notify_one: wakes the worker if it is waiting, has no effect otherwise.
Signalled == IF worker = "asleep" THEN "testing" ELSE worker

Notify(p) ==
    /\ poster[p] = "notify"
    /\ poster' = [poster EXCEPT ![p] = "idle"]
    /\ worker' = Signalled
    /\ UNCHANGED <<gcEvents, hostEvents, stopping, batch, replies, stopper,
                   posted, handled, delivered>>

-------------------------------------------------------------------------------
(* WorkerThread.  "testing": about to evaluate the predicate of m_cv.wait  *)
(* with the lock held.                                                     *)

Sleep ==
    /\ worker = "testing"
    /\ gcEvents = <<>>
    /\ ~stopping
    /\ worker' = "asleep"
    /\ UNCHANGED <<gcEvents, hostEvents, stopping, batch, replies, poster,
                   stopper, posted, handled, delivered>>

\* A condition variable may wake its waiter without a signal.
SpuriousWakeup ==
    /\ worker = "asleep"
    /\ worker' = "testing"
    /\ UNCHANGED <<gcEvents, hostEvents, stopping, batch, replies, poster,
                   stopper, posted, handled, delivered>>

TakeBatch_Copies ==
    /\ worker = "testing"
    /\ gcEvents # <<>>
    /\ batch' = gcEvents
    /\ worker' = "handling"
    /\ UNCHANGED <<gcEvents, hostEvents, stopping, replies, poster, stopper, posted,
                   handled, delivered>>

TakeBatch ==
    /\ worker = "testing"
    /\ gcEvents # <<>>
    /\ batch' = gcEvents
    /\ gcEvents' = <<>>
    /\ worker' = "handling"
    /\ UNCHANGED <<hostEvents, stopping, replies, poster, stopper, posted,
                   handled, delivered>>

\* HandleEvent calls PostToHost.
PostToHost ==
    /\ worker = "handling"
    /\ replies < MaxReplies
    /\ hostEvents' = Append(hostEvents, <<Head(batch), replies + 1>>)
    /\ replies' = replies + 1
    /\ UNCHANGED <<gcEvents, stopping, worker, batch, poster, stopper, posted,
                   handled, delivered>>

\* HandleEvent returns; after the last event of the batch the loop starts over.
HandlerReturns ==
    /\ worker = "handling"
    /\ handled' = Append(handled, Head(batch))
    /\ batch' = Tail(batch)
    /\ replies' = 0
    /\ worker' = IF Len(batch) = 1 THEN "testing" ELSE "handling"
    /\ UNCHANGED <<gcEvents, hostEvents, stopping, poster, stopper, posted,
                   delivered>>

Exit_Early ==
    /\ worker = "testing"
    /\ stopping
    /\ worker' = "exited"
    /\ UNCHANGED <<gcEvents, hostEvents, stopping, batch, replies, poster,
                   stopper, posted, handled, delivered>>

Exit ==
    /\ worker = "testing"
    /\ gcEvents = <<>>
    /\ stopping
    /\ worker' = "exited"
    /\ UNCHANGED <<gcEvents, hostEvents, stopping, batch, replies, poster,
                   stopper, posted, handled, delivered>>

-------------------------------------------------------------------------------
(* The owner: GetHostEvents once per frame, StopThread in the destructor.  *)

GetHostEvents_Copies ==
    /\ stopper = "idle"
    /\ hostEvents # <<>>
    /\ delivered' = delivered \o hostEvents
    /\ UNCHANGED <<gcEvents, hostEvents, stopping, worker, batch, replies, poster,
                   stopper, posted, handled>>

GetHostEvents ==
    /\ stopper = "idle"
    /\ hostEvents # <<>>
    /\ delivered' = delivered \o hostEvents
    /\ hostEvents' = <<>>
    /\ UNCHANGED <<gcEvents, stopping, worker, batch, replies, poster, stopper,
                   posted, handled>>

BeginStop ==
    /\ stopper = "idle"
    /\ stopping' = TRUE
    /\ stopper' = "notify"
    /\ UNCHANGED <<gcEvents, hostEvents, worker, batch, replies, poster, posted,
                   handled, delivered>>

StopSet == BeginStop /\ \A p \in Posters : poster[p] = "idle"

StopNotify ==
    /\ stopper = "notify"
    /\ stopper' = "joining"
    /\ worker' = Signalled
    /\ UNCHANGED <<gcEvents, hostEvents, stopping, batch, replies, poster,
                   posted, handled, delivered>>

Join ==
    /\ stopper = "joining"
    /\ worker = "exited"
    /\ stopper' = "joined"
    /\ UNCHANGED <<gcEvents, hostEvents, stopping, worker, batch, replies,
                   poster, posted, handled, delivered>>

-------------------------------------------------------------------------------
WorkerStep == Sleep \/ TakeBatch \/ HandlerReturns \/ Exit

Next ==
    \/ \E p \in Posters : Push(p) \/ Notify(p)
    \/ WorkerStep \/ SpuriousWakeup \/ PostToHost
    \/ GetHostEvents \/ StopSet \/ StopNotify \/ Join

Spec == Init /\ [][Next]_vars

\* The operating system runs every thread that can run: the worker, a poster
\* between its push and its signal, and the thread inside StopThread.  Nothing
\* says that anybody posts, drains or stops, or that a wakeup is ever spurious.
Fairness ==
    /\ WF_vars(WorkerStep)
    /\ \A p \in Posters : WF_vars(Notify(p))
    /\ WF_vars(StopNotify)
    /\ WF_vars(Join)

FairSpec == Spec /\ Fairness

-------------------------------------------------------------------------------
\* Every variable has its type; the batch is non-empty exactly while the worker
\* handles it (HandleEvent is only called for an event of the batch).
TypeOK ==
    /\ gcEvents \in Seq(Event)
    /\ hostEvents \in Seq(HostEvent)
    /\ stopping \in BOOLEAN
    /\ worker \in {"testing", "asleep", "handling", "exited"}
    /\ batch \in Seq(Event)
    /\ replies \in Nat
    /\ poster \in [Posters -> {"idle", "notify"}]
    /\ stopper \in {"idle", "notify", "joining", "joined"}
    /\ posted \in Seq(Event)
    /\ handled \in Seq(Event)
    /\ delivered \in Seq(HostEvent)
    /\ worker = "handling" <=> batch # <<>>

\* PostToGC signals only when it found the queue empty (gc_shared.cpp:71-78), and
\* signals after it released the lock.  No wakeup is lost: while the worker
\* sleeps with work to do, some thread still owes it a signal.
NoLostWakeup ==
    worker = "asleep" =>
        /\ gcEvents # <<>> => \E p \in Posters : poster[p] = "notify"
        /\ stopping => stopper = "notify"

\* WorkerThread swaps the whole vector out and handles it without the lock
\* (gc_shared.cpp:38-45): no event is lost, duplicated or overtaken between the
\* push, the batch and the handler, whatever is pushed meanwhile.
NothingLostOrReordered == posted = handled \o batch \o gcEvents

\* StopThread returns only when the worker drained the queue: every event posted
\* before the destructor ran has been handled (gc_shared.cpp:33-36).
DrainedWhenJoined ==
    stopper = "joined" => handled = posted

\* The strengthening that makes it inductive: the stop flag is what the stopper
\* set, the worker leaves only an empty queue behind, and nothing is pushed then.
StopProtocol ==
    /\ stopping <=> stopper # "idle"
    /\ worker = "exited" => stopping /\ gcEvents = <<>>
    /\ stopper = "joined" => worker = "exited"

\* What the main thread collects is in the order in which the handlers produced
\* it: host events of an earlier event come before those of a later one, and
\* those of one event in the order they were posted (gc_shared.cpp:51-56, 91-94).
HostEventsInOrder ==
    LET seen == delivered \o hostEvents IN
    \A i, j \in DOMAIN seen :
        i < j => \/ seen[i][1][2] < seen[j][1][2]
                 \/ seen[i][1] = seen[j][1] /\ seen[i][2] < seen[j][2]

\* StopThread returns: however full the queue, the worker drains it, and it never
\* sleeps through the stop request (gc_shared.cpp:9-18, 27-36).
StopReturns == stopper = "notify" ~> stopper = "joined"

\* SharedGC implements the event log its callers rely on.
Log == INSTANCE EventLog WITH Events <- Posters \X (1..MaxPosts),
                              accepted <- posted, handled <- handled
ImplementsEventLog == Log!Spec
===============================================================================

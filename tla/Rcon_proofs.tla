------------------------------ MODULE Rcon_proofs ------------------------------
(***************************************************************************)
(* Proofs about the RCON server: the client objects that the commands of   *)
(* its connections work on, and the life of its listener.  The two share   *)
(* no variable; each part has an inductive invariant of its own.           *)
(***************************************************************************)
EXTENDS ClientLifetime, RconListener, FiniteSetTheorems, TLAPS

(***************************************************************************)
(* For any number of RCON connections and clients: no connection thread is *)
(* inside a client that has been destroyed, and the client's event loop is *)
(* used the way SharedGC asks.                                             *)
(*                                                                         *)
(* The argument: the counter is the number of threads inside the client    *)
(* (Counted), a client can only be taken while it is registered            *)
(* (Registered), so once the counter is seen to be zero after the client   *)
(* was unregistered nobody is inside and nobody can get in.                *)
(***************************************************************************)

Busy == {c \in Connections : conn[c] # "idle"}

Types ==
    /\ conn \in [Connections -> {"idle", "posting", "waiting", "leaving"}]
    /\ mine \in [Connections -> 0..MaxLifetimes]
    /\ poster \in [Posters -> {"idle", "notify"}]
    /\ lifetime \in 0..MaxLifetimes
    /\ client \in 0..MaxLifetimes
    /\ owner \in {"absent", "registering", "running", "unregistering", "waiting", "destroying"}

Counted == active = Cardinality(Busy)

Registered == client # 0 => client = lifetime /\ owner = "running"

Live == owner \in {"registering", "running", "unregistering", "waiting"} => stopper = "idle"

Inside ==
    \A c \in Connections :
        conn[c] # "idle" => /\ mine[c] = lifetime
                            /\ owner \in {"running", "unregistering", "waiting"}

Signalling ==
    /\ \A c \in Connections : poster[c] = "notify" => conn[c] = "waiting"
    /\ poster[mainThread] = "notify" => owner = "running"

IInv == Types /\ Counted /\ Registered /\ Live /\ Inside /\ Signalling

-------------------------------------------------------------------------------
\* The connections inside the client can be counted, one more or one less.
LEMMA BusyCount ==
    /\ IsFiniteSet(Busy)
    /\ Cardinality(Busy) \in Nat
    /\ Cardinality(Busy) = 0 <=> Busy = {}
    /\ \A c \in Connections :
         /\ c \notin Busy => Cardinality(Busy \cup {c}) = Cardinality(Busy) + 1
         /\ c \in Busy => Cardinality(Busy \ {c}) = Cardinality(Busy) - 1
  <1>1. IsFiniteSet(Busy)
    BY ClientLifetimeAssumption, FS_Subset DEF Busy
  <1> QED
    BY <1>1, FS_CardinalityType, FS_EmptySet, FS_AddElement, FS_RemoveElement

\* What each kind of step leaves alone of the parts of the invariant.
LEMMA Untouched ==
    ASSUME IInv, UNCHANGED <<conn, mine, lifetime, client, active, owner, stopper, poster>>
    PROVE  IInv'
  BY DEF IInv, Types, Counted, Registered, Live, Inside, Signalling, Busy, Posters

\* Posting changes one poster only, and leaves the stop protocol alone.
LEMMA Posting ==
    ASSUME NEW p \in Posters, Types, GC!PostToGC(p)
    PROVE  /\ poster' \in [Posters -> {"idle", "notify"}]
           /\ \A q \in Posters : q # p => poster'[q] = poster[q]
           /\ stopper' = stopper
  BY DEF Types, GC!PostToGC, GC!WasEmpty

LEMMA Inductive ==
    ASSUME IInv, [Next]_vars
    PROVE  IInv'
  <1> USE ClientLifetimeAssumption
  <1>1. CASE Create
    <2>1. Busy = {}
      BY <1>1 DEF IInv, Inside, Create, Busy
    <2> QED
      BY <1>1, <2>1 DEF IInv, Types, Counted, Registered, Live, Inside, Signalling, Busy,
                        Create, rconVars, Posters
  <1>2. CASE RegisterClient
    BY <1>2 DEF IInv, Types, Counted, Registered, Live, Inside, Signalling, Busy,
                RegisterClient, gcVars, Posters
  <1>3. CASE MainThreadPosts
    <2>1. mainThread \in Posters /\ \A c \in Connections : c \in Posters /\ c # mainThread
      BY DEF Posters
    <2>2. GC!PostToGC(mainThread) /\ owner = "running"
      BY <1>3 DEF MainThreadPosts
    <2>3. /\ poster' \in [Posters -> {"idle", "notify"}]
          /\ \A q \in Posters : q # mainThread => poster'[q] = poster[q]
          /\ stopper' = stopper
      BY <2>1, <2>2, Posting DEF IInv
    <2> QED
      BY <1>3, <2>1, <2>3 DEF IInv, Types, Counted, Registered, Live, Inside, Signalling,
                              Busy, MainThreadPosts, rconVars
  <1>4. CASE MainThreadCollects
    BY <1>4, Untouched DEF MainThreadCollects, GC!GetHostEvents, rconVars
  <1>5. CASE UnregisterClient
    BY <1>5 DEF IInv, Types, Counted, Registered, Live, Inside, Signalling, Busy,
                UnregisterClient, gcVars, Posters
  <1>6. CASE WaitForIdle \/ WakesUp
    BY <1>6 DEF IInv, Types, Counted, Registered, Live, Inside, Signalling, Busy,
                WaitForIdle, WakesUp, gcVars, rconVars, Posters
  <1>7. CASE StopThread
    <2>1. Busy = {}
      BY <1>7, BusyCount DEF StopThread, IInv, Counted
    <2> QED
      BY <1>7, <2>1 DEF IInv, Types, Counted, Registered, Live, Inside, Signalling, Busy,
                        StopThread, GC!BeginStop, rconVars, Posters
  <1>8. CASE Destroyed
    BY <1>8 DEF IInv, Types, Counted, Registered, Live, Inside, Signalling, Busy,
                Destroyed, gcVars, rconVars, Posters
  <1>9. ASSUME NEW c \in Connections, ConnectionStep(c)
        PROVE  IInv'
    <2>0. c \in Posters /\ c # mainThread
      BY DEF Posters
    <2>1. CASE BeginCommand(c)
      <3>1. CASE client # 0
        <4>1. c \notin Busy /\ Busy' = Busy \cup {c}
          BY <2>1, <3>1 DEF BeginCommand, IInv, Types, Busy
        <4>2. Counted'
          BY <2>1, <3>1, <4>1, BusyCount DEF BeginCommand, IInv, Counted
        <4> QED
          BY <2>1, <3>1, <4>2 DEF BeginCommand, IInv, Types, Registered, Live, Inside,
                                  Signalling, gcVars, Posters
      <3>2. CASE client = 0
        BY <2>1, <3>2 DEF BeginCommand, IInv, Types, Counted, Registered, Live, Inside,
                          Signalling, Busy, gcVars, Posters
      <3> QED BY <3>1, <3>2
    <2>2. CASE PostCommand(c)
      <3>1. GC!PostToGC(c)
        BY <2>2 DEF PostCommand
      <3>2. /\ poster' \in [Posters -> {"idle", "notify"}]
            /\ \A q \in Posters : q # c => poster'[q] = poster[q]
            /\ stopper' = stopper
        BY <2>0, <3>1, Posting DEF IInv
      <3>3. Busy' = Busy
        BY <2>2 DEF PostCommand, IInv, Types, Busy
      <3>4. Counted'
        BY <2>2, <3>3 DEF PostCommand, IInv, Counted
      <3> QED
        BY <2>0, <2>2, <3>2, <3>4 DEF PostCommand, IInv, Types, Registered, Live, Inside,
                                      Signalling, Posters
    <2>3. CASE ResponseReady(c) \/ Timeout(c)
      <3>1. Busy' = Busy
        BY <2>3 DEF ResponseReady, Timeout, IInv, Types, Busy
      <3>2. Counted'
        BY <2>3, <3>1 DEF ResponseReady, Timeout, IInv, Counted
      <3> QED
        BY <2>3, <3>2 DEF ResponseReady, Timeout, IInv, Types, Registered, Live, Inside,
                          Signalling, gcVars, Posters
    <2>4. CASE EndCommand(c)
      <3>1. c \in Busy /\ Busy' = Busy \ {c}
        BY <2>4 DEF EndCommand, IInv, Types, Busy
      <3>2. Counted'
        BY <2>4, <3>1, BusyCount DEF EndCommand, IInv, Counted
      <3> QED
        BY <2>4, <3>2 DEF EndCommand, IInv, Types, Registered, Live, Inside, Signalling,
                          gcVars, Posters
    <2> QED BY <1>9, <2>1, <2>2, <2>3, <2>4 DEF ConnectionStep
  <1>10. CASE SetPromise \/ HandlerReturns \/ WorkerStep
    BY <1>10, Untouched DEF SetPromise, HandlerReturns, WorkerStep, GC!HandlerReturns,
         GC!Sleep, GC!SpuriousWakeup, GC!TakeBatch, GC!PostToHost, GC!Exit, gcVars, rconVars
  <1>11. CASE Signals
    <2>1. ASSUME NEW p \in Posters, GC!Notify(p)
          PROVE  IInv'
      BY <1>11, <2>1 DEF Signals, GC!Notify, IInv, Types, Counted, Registered, Live, Inside,
                         Signalling, Busy, Posters, rconVars
    <2>2. CASE GC!StopNotify
      BY <1>11, <2>2 DEF Signals, GC!StopNotify, IInv, Types, Counted, Registered, Live,
                         Inside, Signalling, Busy, Posters, rconVars
    <2>3. CASE GC!Join
      BY <1>11, <2>3 DEF Signals, GC!Join, IInv, Types, Counted, Registered, Live,
                         Inside, Signalling, Busy, Posters, rconVars
    <2> QED BY <1>11, <2>1, <2>2, <2>3 DEF Signals
  <1>12. CASE UNCHANGED vars
    BY <1>12, Untouched DEF vars, gcVars, rconVars
  <1> QED
    BY <1>1, <1>2, <1>3, <1>4, <1>5, <1>6, <1>7, <1>8, <1>9, <1>10, <1>11, <1>12 DEF Next

LEMMA Initial == Init => IInv
  <1> SUFFICES ASSUME Init PROVE IInv
    OBVIOUS
  <1>1. Busy = {}
    BY DEF Init, Busy
  <1>2. Counted
    BY <1>1, FS_EmptySet DEF Init, Counted
  <1> QED
    BY <1>2, ClientLifetimeAssumption
       DEF Init, GC!Init, IInv, Types, Registered, Live, Inside, Signalling, Posters

LEMMA InvariantHolds == Spec => []IInv
  BY Initial, Inductive, PTL DEF Spec

-------------------------------------------------------------------------------
\* No connection thread is ever inside a client that is being, or has been,
\* destroyed (RconServer::ActiveClientCommand, UnregisterClient).
THEOREM ClientOutlivesItsCommands == Spec => []NoUseAfterDestroy
  <1>1. IInv => NoUseAfterDestroy
    BY DEF IInv, Types, Inside, Live, NoUseAfterDestroy, Using
  <1> QED BY <1>1, InvariantHolds, PTL

\* Within a lifetime every step of the proxy and of the connection threads is a
\* step of SharedGC or leaves its state alone.
THEOREM SharedGCContractKept == Spec => UsesGCAsSpecified
  <1>1. ASSUME IInv, [Next]_vars
        PROVE  [lifetime' = lifetime => [GC!Next]_gcVars]_vars
    <2> SUFFICES ASSUME Next, lifetime' = lifetime
                 PROVE  GC!Next \/ UNCHANGED gcVars
      BY <1>1
    <2> USE <1>1
    <2>1. CASE Create
      BY <2>1, ClientLifetimeAssumption DEF Create, IInv, Types
    <2>2. CASE MainThreadPosts
      BY <2>2 DEF MainThreadPosts, IInv, Live, GC!Push, GC!Next, Posters
    <2>3. CASE StopThread
      <3>1. Busy = {}
        BY <2>3, BusyCount DEF StopThread, IInv, Counted
      <3>2. \A p \in Posters : poster[p] = "idle"
        BY <2>3, <3>1 DEF StopThread, IInv, Types, Signalling, Busy, Posters
      <3> QED
        BY <2>3, <3>2 DEF StopThread, GC!StopSet, GC!Next
    <2>4. ASSUME NEW c \in Connections, ConnectionStep(c)
          PROVE  GC!Next \/ UNCHANGED gcVars
      <3>1. CASE PostCommand(c)
        BY <3>1 DEF PostCommand, IInv, Inside, Live, GC!Push, GC!Next, Posters
      <3> QED
        BY <2>4, <3>1 DEF ConnectionStep, BeginCommand, ResponseReady, Timeout, EndCommand
    <2>5. CASE WorkerStep \/ HandlerReturns
      BY <2>5 DEF WorkerStep, HandlerReturns, GC!Next, GC!WorkerStep
    <2>6. CASE Signals
      BY <2>6 DEF Signals, GC!Next
    <2>7. CASE MainThreadCollects
      BY <2>7 DEF MainThreadCollects, GC!Next
    <2> QED
      BY <2>1, <2>2, <2>3, <2>4, <2>5, <2>6, <2>7
         DEF Next, RegisterClient, UnregisterClient, WaitForIdle, WakesUp, Destroyed, SetPromise
  <1> QED BY <1>1, InvariantHolds, PTL DEF Spec, UsesGCAsSpecified

-------------------------------------------------------------------------------
(***************************************************************************)
(* For any number of connections and calls of Start: the listening socket  *)
(* is closed at most once, the state tells the truth about the listener    *)
(* thread, nothing runs after Stop, and a listener that failed or was      *)
(* stopped never comes back.                                               *)
(*                                                                         *)
(* The argument is one of ownership.  While the listener thread binds and  *)
(* publishes, the socket is its own; from then on m_listenSocket or Stop's *)
(* local copy holds it (Owner), until the listener withdraws it.  A        *)
(* listener that has withdrawn it closes it only if m_running was still    *)
(* set, and then Stop, which clears the flag before it looks, cannot have  *)
(* it (Cleared).                                                           *)
(***************************************************************************)

\* Stop has cleared m_running, and nothing sets it again.
Past == {"taking", "shutting", "closing", "joining", "swapping", "stopped"}

\* What the socket and its count of closes are to each other.
Closed ==
    /\ sock \in {"none", "open", "shut"} => closes = 0
    /\ sock = "closed" => closes = 1

Cleared ==
    /\ stop \in Past => ~running
    /\ taken => stop \in Past \ {"taking"}
    /\ listenSocket => stop \in {"idle", "clearing", "taking"}

Owner ==
    /\ thread \in {"none", "binding"} => sock = "none"
    /\ thread \in {"publishing", "sharing"} => sock = "open"
    /\ thread \in {"none", "binding", "publishing", "sharing"} => ~taken
    /\ listenSocket => thread \in {"testing", "accepting", "leaving"} /\ sock = "open"
    /\ thread \in {"testing", "accepting", "leaving"} => listenSocket \/ taken
    /\ thread = "exchanging" /\ ~taken => sock = "open"
    /\ taken /\ stop \in {"shutting", "closing"} => sock \in {"open", "shut"}

\* m_listenerState against where the two threads are.
States ==
    /\ state = "Stopped" <=> stop # "idle"
    /\ state = "NotStarted" => thread = "none"
    /\ state = "Starting" => thread \in {"binding", "publishing", "failed", "failedStarting"}
    /\ state = "Running" => thread \notin {"none", "binding", "publishing", "exited"}
    /\ state = "Failed" => thread \in {"none", "exited"} /\ ~running
    /\ thread = "failedRunning" => state \in {"Running", "Stopped"}

Flag ==
    /\ thread \in {"none", "failedStarting", "failedRunning"} => ~running
    /\ thread = "exited" /\ running => stop = "clearing"
    /\ thread \in {"binding", "publishing", "sharing", "testing", "accepting", "leaving",
                   "exchanging"} /\ ~running => state = "Stopped"

Joined ==
    /\ stop \in {"swapping", "stopped"} => thread \in {"none", "exited"}
    /\ \A c \in RconConnections : connState[c] \notin {"none", "ended"} => c \in connThreads
    /\ stop = "stopped" => connThreads = {}

ListenerIInv == ListenerTypeOK /\ Closed /\ Cleared /\ Owner /\ States /\ Flag /\ Joined

-------------------------------------------------------------------------------
LEMMA ListenerInitIInv == ListenerInit => ListenerIInv
  <1> SUFFICES ASSUME ListenerInit PROVE ListenerIInv
    OBVIOUS
  <1>1. ListenerTypeOK
    <2>1. closes \in Nat /\ starts \in 0..MaxStarts /\ (sock = "closed" <=> closes > 0)
      BY MaxStartsAssumption DEF ListenerInit
    <2> QED
      BY <2>1, Zenon DEF ListenerInit, ListenerTypeOK
  <1>2. Closed /\ Cleared /\ Owner /\ States /\ Flag
    BY DEF ListenerInit, Closed, Cleared, Owner, States, Flag, Past
  <1>3. Joined
    BY DEF ListenerInit, Joined
  <1> QED
    BY <1>1, <1>2, <1>3 DEF ListenerIInv

LEMMA ListenerNextIInv == ListenerIInv /\ [ListenerNext]_listenerVars => ListenerIInv'
  <1> SUFFICES ASSUME ListenerIInv, [ListenerNext]_listenerVars PROVE ListenerIInv'
    OBVIOUS
  <1> USE MaxStartsAssumption DEF ListenerIInv, ListenerTypeOK, Closed, Cleared, Owner, States, Flag,
          Joined, Past
  <1>1. CASE Start
    <2>1. ListenerTypeOK'
      <3>1. closes' \in Nat /\ starts' \in 0..MaxStarts /\ (sock' = "closed" <=> closes' > 0)
        BY <1>1 DEF Start
      <3>2. running' \in BOOLEAN /\ listenSocket' \in BOOLEAN /\ taken' \in BOOLEAN
        BY <1>1, Zenon DEF Start
      <3> QED
        BY <1>1, <3>1, <3>2 DEF Start
    <2>2. Closed' /\ Cleared' /\ Owner'
      BY <1>1 DEF Start
    <2>3. States' /\ Flag'
      BY <1>1 DEF Start
    <2>4. Joined'
      BY <1>1 DEF Start
    <2> QED
      BY <2>1, <2>2, <2>3, <2>4
  <1>2. CASE FailListener
    <2>1. ListenerTypeOK'
      BY <1>2 DEF FailListener, MarkFailed
    <2>2. Closed' /\ Cleared' /\ Owner'
      BY <1>2 DEF FailListener, MarkFailed
    <2>3. States' /\ Flag'
      BY <1>2 DEF FailListener, MarkFailed
    <2>4. Joined'
      BY <1>2 DEF FailListener, MarkFailed
    <2> QED
      BY <2>1, <2>2, <2>3, <2>4
  <1>3. CASE BindFails
    BY <1>3 DEF BindFails
  <1>4. CASE Listen
    BY <1>4 DEF Listen
  <1>5. CASE Publish
    BY <1>5 DEF Publish, CloseSocket
  <1>6. CASE Share
    <2>1. ListenerTypeOK'
      <3>1. closes' \in Nat /\ starts' \in 0..MaxStarts /\ (sock' = "closed" <=> closes' > 0)
        BY <1>6 DEF Share, CloseSocket
      <3>2. running' \in BOOLEAN /\ listenSocket' \in BOOLEAN /\ taken' \in BOOLEAN
        BY <1>6, Zenon DEF Share, CloseSocket
      <3> QED
        BY <1>6, <3>1, <3>2 DEF Share, CloseSocket
    <2>2. Closed' /\ Cleared' /\ Owner'
      BY <1>6 DEF Share, CloseSocket
    <2>3. States' /\ Flag'
      BY <1>6 DEF Share, CloseSocket
    <2>4. Joined'
      BY <1>6 DEF Share, CloseSocket
    <2> QED
      BY <2>1, <2>2, <2>3, <2>4
  <1>7. CASE TestRunning
    BY <1>7 DEF TestRunning
  <1>8. CASE Withdraw
    BY <1>8 DEF Withdraw
  <1>9. CASE ClearRunning
    <2>1. ListenerTypeOK'
      <3>1. closes' \in Nat /\ starts' \in 0..MaxStarts /\ (sock' = "closed" <=> closes' > 0)
        BY <1>9 DEF ClearRunning, CloseSocket
      <3>2. running' \in BOOLEAN /\ listenSocket' \in BOOLEAN /\ taken' \in BOOLEAN
        BY <1>9, Zenon DEF ClearRunning, CloseSocket
      <3> QED
        BY <1>9, <3>1, <3>2 DEF ClearRunning, CloseSocket
    <2>2. Closed' /\ Cleared' /\ Owner'
      BY <1>9 DEF ClearRunning, CloseSocket
    <2>3. States' /\ Flag'
      BY <1>9 DEF ClearRunning, CloseSocket
    <2>4. Joined'
      BY <1>9 DEF ClearRunning, CloseSocket
    <2> QED
      BY <2>1, <2>2, <2>3, <2>4
  <1>10. CASE AcceptFails
    BY <1>10 DEF AcceptFails
  <1>11. ASSUME NEW c \in RconConnections, Accept(c) PROVE ListenerIInv'
    BY <1>11 DEF Accept
  <1>12. ASSUME NEW c \in RconConnections, ConnectionTests(c) \/ Receive(c) \/ Answered(c)
         PROVE  ListenerIInv'
    <2>1. PICK to \in {"testing", "receiving", "answering", "ended"} : ConnectionGoes(c, to)
      BY <1>12 DEF ConnectionTests, Receive, Answered
    <2>2. connState[c] \notin {"none", "ended"}
      BY <1>12 DEF ConnectionTests, Receive, Answered
    <2> QED
      BY <2>1, <2>2 DEF ConnectionGoes
  <1>13. CASE SetStopped
    BY <1>13 DEF SetStopped
  <1>14. CASE StopRunning
    BY <1>14 DEF StopRunning
  <1>15. CASE TakeSocket
    BY <1>15 DEF TakeSocket
  <1>16. CASE ShutdownSocket
    BY <1>16 DEF ShutdownSocket
  <1>17. CASE StopCloses
    BY <1>17 DEF StopCloses, CloseSocket
  <1>18. CASE JoinThread
    BY <1>18 DEF JoinThread
  <1>19. CASE JoinConnectionThreads
    BY <1>19 DEF JoinConnectionThreads
  <1>20. CASE UNCHANGED listenerVars
    BY <1>20 DEF listenerVars
  <1> QED
    BY <1>1, <1>2, <1>3, <1>4, <1>5, <1>6, <1>7, <1>8, <1>9, <1>10, <1>11, <1>12, <1>13,
       <1>14, <1>15, <1>16, <1>17, <1>18, <1>19, <1>20 DEF ListenerNext, ListenerStep, StopStep

LEMMA ListenerInvariance == ListenerSpec => []ListenerIInv
  BY ListenerInitIInv, ListenerNextIInv, PTL DEF ListenerSpec

-------------------------------------------------------------------------------
\* The variables have the values the code gives them (ListenerTypeOK is part of
\* StateTellsTheTruth below).
THEOREM TypeCorrect == ListenerSpec => []ListenerTypeOK
  BY ListenerInvariance, PTL DEF ListenerIInv

\* Nobody closes the listening socket a second time, nor shuts it down after it
\* was closed (rcon_server.cpp:253-261, 375-379, 415-420).
THEOREM OneClose == ListenerSpec => []SocketClosedOnce
  <1>1. ListenerIInv => SocketClosedOnce
    BY DEF ListenerIInv, ListenerTypeOK, Closed, Owner, SocketClosedOnce
  <1> QED
    BY <1>1, ListenerInvariance, PTL

\* A listener thread that is gone is reported as failed or stopped
\* (rcon_server.cpp:424-434).
THEOREM StateIsTrue == ListenerSpec => []StateTellsTheTruth
  <1>1. ListenerIInv => StateTellsTheTruth
    BY DEF ListenerIInv, ListenerTypeOK, Owner, States, Flag, StateTellsTheTruth
  <1> QED
    BY <1>1, ListenerInvariance, PTL

\* No thread of the server survives Stop (rcon_server.cpp:264-268, 622-637).
THEOREM StopJoinsEverything == ListenerSpec => []NothingRunsAfterStop
  <1>1. ListenerIInv => NothingRunsAfterStop
    BY DEF ListenerIInv, ListenerTypeOK, Joined, NothingRunsAfterStop
  <1> QED
    BY <1>1, ListenerInvariance, PTL

\* A listener that failed or was stopped does not listen again in this process
\* (rcon_server.cpp:213-232, 375, 424-434).
THEOREM NeverAgain == ListenerSpec => DisabledForThisProcess
  <1>1. ASSUME ListenerIInv, [ListenerNext]_listenerVars
        PROVE  [/\ state \in {"Failed", "Stopped"} => state' \in {state, "Stopped"}
                /\ thread = "exited" => thread' = "exited"]_listenerVars
    <2>1. CASE UNCHANGED listenerVars
      BY <2>1
    <2>2. CASE ListenerNext
      BY <1>1, <2>2 DEF ListenerIInv, States, ListenerNext, Start, ListenerStep, StopStep, FailListener,
         MarkFailed, BindFails, Listen, Publish, Share, TestRunning, Withdraw, ClearRunning,
         AcceptFails, Accept, ConnectionTests, Receive, Answered, ConnectionGoes, SetStopped, StopRunning, TakeSocket,
         ShutdownSocket, StopCloses, JoinThread, JoinConnectionThreads
    <2> QED
      BY <1>1, <2>1, <2>2
  <1> QED
    BY <1>1, ListenerInvariance, PTL DEF ListenerSpec, DisabledForThisProcess
===============================================================================

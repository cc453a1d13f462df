---------------------------- MODULE ClientLifetime ----------------------------
(***************************************************************************)
(* Who may call into a ClientGC, and when it may be destroyed: the game    *)
(* coordinator proxy of steam_hook.cpp creates the client, registers it    *)
(* with the RCON server and destroys it, while RCON connection threads run *)
(* commands on it.  A connection thread counts itself in                   *)
(* m_activeClientCommands for as long as it uses the client, and           *)
(* UnregisterClient waits for that count before the client is deleted.     *)
(*                                                                         *)
(* The client's event loop is SharedGC, whose contract with its owner      *)
(* (nobody posts once it is being stopped) is what is to be shown here.    *)
(***************************************************************************)
EXTENDS Naturals, Sequences, FiniteSets

CONSTANTS mainThread,   \* the game's main thread
          Connections,  \* RCON connection threads
          MaxLifetimes, \* bound: clients created one after another
          MaxPosts, MaxReplies

ASSUME ClientLifetimeAssumption ==
    /\ mainThread \notin Connections
    /\ IsFiniteSet(Connections)
    /\ MaxLifetimes \in Nat

VARIABLES
    \* the event loop of the present client
    gcEvents, hostEvents, stopping, worker, batch, replies, poster, stopper,
    posted, handled, delivered,
    lifetime,  \* which client is, or was last, in s_clientGC
    owner,     \* where the proxy that owns it is
    client,    \* RconServer::m_client: a lifetime, 0 for null
    active,    \* m_activeClientCommands
    conn,      \* where each connection thread is
    mine,      \* per connection: the m_client its ActiveClientCommand captured
    request,   \* per connection: the event that carries its command
    promises   \* events whose promise has been set

gcVars == <<gcEvents, hostEvents, stopping, worker, batch, replies, poster,
            stopper, posted, handled, delivered>>
rconVars == <<client, active, conn, mine, request>>
vars == <<gcVars, rconVars, lifetime, owner, promises>>

Posters == Connections \cup {mainThread}

GC == INSTANCE SharedGC

Init ==
    /\ GC!Init
    /\ lifetime = 0
    /\ owner = "absent"
    /\ client = 0
    /\ active = 0
    /\ conn = [c \in Connections |-> "idle"]
    /\ mine = [c \in Connections |-> 0]
    /\ request = [c \in Connections |-> 0]
    /\ promises = {}

-------------------------------------------------------------------------------
(* The proxy, on the main thread.                                          *)

\* Constructor: the client and its worker thread.
Create ==
    /\ owner = "absent"
    /\ lifetime < MaxLifetimes
    /\ lifetime' = lifetime + 1
    /\ owner' = "registering"
    /\ gcEvents' = <<>> /\ hostEvents' = <<>> /\ batch' = <<>> /\ replies' = 0
    /\ stopping' = FALSE /\ worker' = "testing" /\ stopper' = "idle"
    /\ poster' = [p \in Posters |-> "idle"]
    /\ posted' = <<>> /\ handled' = <<>> /\ delivered' = <<>>
    /\ promises' = {}
    /\ UNCHANGED rconVars

RegisterClient ==
    /\ owner = "registering"
    /\ client' = lifetime
    /\ owner' = "running"
    /\ UNCHANGED <<gcVars, active, conn, mine, request, lifetime, promises>>

\* The game sends a message, RunCallbacks collects the host events.
MainThreadPosts ==
    /\ owner = "running"
    /\ Len(posted) + Cardinality({c \in Connections : conn[c] = "posting"}) < MaxPosts
    /\ GC!PostToGC(mainThread)
    /\ UNCHANGED <<rconVars, lifetime, owner, promises>>

MainThreadCollects ==
    /\ owner = "running"
    /\ GC!GetHostEvents
    /\ UNCHANGED <<rconVars, lifetime, owner, promises>>

UnregisterClient_LeavesClient ==
    /\ owner = "running"
    /\ poster[mainThread] = "idle"
    /\ owner' = "unregistering"
    /\ UNCHANGED <<gcVars, rconVars, lifetime, promises>>

\* UnregisterClient: nobody can take the client from here on; then wait, with the
\* mutex held whenever the predicate is tested.
UnregisterClient ==
    /\ owner = "running"
    /\ poster[mainThread] = "idle"
    /\ owner' = "unregistering"
    /\ client' = IF client = lifetime THEN 0 ELSE client
    /\ UNCHANGED <<gcVars, active, conn, mine, request, lifetime, promises>>

WaitForIdle ==
    /\ owner = "unregistering"
    /\ active # 0
    /\ owner' = "waiting"
    /\ UNCHANGED <<gcVars, rconVars, lifetime, promises>>

WakesUp ==
    /\ owner = "waiting"
    /\ owner' = "unregistering"
    /\ UNCHANGED <<gcVars, rconVars, lifetime, promises>>

StopThread_AtOnce ==
    /\ owner = "unregistering"
    /\ owner' = "destroying"
    /\ GC!BeginStop
    /\ UNCHANGED <<rconVars, lifetime, promises>>

\* UnregisterClient returns and the destructor of the client stops its thread.
StopThread ==
    /\ owner = "unregistering"
    /\ active = 0
    /\ owner' = "destroying"
    /\ GC!BeginStop
    /\ UNCHANGED <<rconVars, lifetime, promises>>

Destroyed ==
    /\ owner = "destroying"
    /\ stopper = "joined"
    /\ owner' = "absent"
    /\ UNCHANGED <<gcVars, rconVars, lifetime, promises>>

-------------------------------------------------------------------------------
(* A connection thread executes one command.                               *)

\* ActiveClientCommand's constructor: take the client and count, under the mutex.
\* Without a client the command is answered at once.
BeginCommand(c) ==
    /\ conn[c] = "idle"
    /\ mine' = [mine EXCEPT ![c] = client]
    /\ IF client # 0
       THEN /\ Len(posted) + Cardinality({d \in Connections : conn[d] = "posting"}) < MaxPosts
            /\ active' = active + 1
            /\ conn' = [conn EXCEPT ![c] = "posting"]
       ELSE UNCHANGED <<active, conn>>
    /\ UNCHANGED <<gcVars, client, request, lifetime, owner, promises>>

\* RunRconCommand posts the command to the client it was given ...
PostCommand(c) ==
    /\ conn[c] = "posting"
    /\ GC!PostToGC(c)
    /\ conn' = [conn EXCEPT ![c] = "waiting"]
    /\ request' = [request EXCEPT ![c] = Len(posted')]
    /\ UNCHANGED <<client, active, mine, lifetime, owner, promises>>

\* ... and waits for its promise, but not longer than five seconds.
ResponseReady(c) ==
    /\ conn[c] = "waiting"
    /\ poster[c] = "idle"
    /\ <<c, request[c]>> \in promises
    /\ conn' = [conn EXCEPT ![c] = "leaving"]
    /\ UNCHANGED <<gcVars, client, active, mine, request, lifetime, owner, promises>>

Timeout(c) ==
    /\ conn[c] = "waiting"
    /\ poster[c] = "idle"
    /\ <<c, request[c]>> \notin promises
    /\ conn' = [conn EXCEPT ![c] = "leaving"]
    /\ UNCHANGED <<gcVars, client, active, mine, request, lifetime, owner, promises>>

EndCommand_NotifiesNobody(c) ==
    /\ conn[c] = "leaving"
    /\ active' = active - 1
    /\ conn' = [conn EXCEPT ![c] = "idle"]
    /\ UNCHANGED <<gcVars, client, mine, request, lifetime, owner, promises>>

\* The waiting UnregisterClient keeps the mutex.
EndCommand_LockedOut(c) ==
    /\ conn[c] = "leaving"
    /\ owner # "waiting"
    /\ active' = active - 1
    /\ conn' = [conn EXCEPT ![c] = "idle"]
    /\ UNCHANGED <<gcVars, client, mine, request, lifetime, owner, promises>>

\* ActiveClientCommand's destructor: uncount and notify, under the mutex.
EndCommand(c) ==
    /\ conn[c] = "leaving"
    /\ active' = active - 1
    /\ conn' = [conn EXCEPT ![c] = "idle"]
    /\ owner' = IF owner = "waiting" THEN "unregistering" ELSE owner
    /\ UNCHANGED <<gcVars, client, mine, request, lifetime, promises>>

-------------------------------------------------------------------------------
(* The event loop of the client.                                           *)

\* HandleEvent sets the promise of a command, then returns.
SetPromise ==
    /\ worker = "handling"
    /\ Head(batch)[1] \in Connections
    /\ promises' = promises \cup {Head(batch)}
    /\ UNCHANGED <<gcVars, rconVars, lifetime, owner>>

HandlerReturns ==
    /\ worker = "handling"
    /\ Head(batch)[1] \in Connections => Head(batch) \in promises
    /\ GC!HandlerReturns
    /\ UNCHANGED <<rconVars, lifetime, owner, promises>>

WorkerStep ==
    /\ owner # "absent"
    /\ GC!Sleep \/ GC!SpuriousWakeup \/ GC!TakeBatch \/ GC!PostToHost \/ GC!Exit
    /\ UNCHANGED <<rconVars, lifetime, owner, promises>>

Signals ==
    /\ (\E p \in Posters : GC!Notify(p)) \/ GC!StopNotify \/ GC!Join
    /\ UNCHANGED <<rconVars, lifetime, owner, promises>>

-------------------------------------------------------------------------------
ConnectionStep(c) ==
    BeginCommand(c) \/ PostCommand(c) \/ ResponseReady(c) \/ Timeout(c) \/ EndCommand(c)

Next ==
    \/ Create \/ RegisterClient \/ MainThreadPosts \/ MainThreadCollects
    \/ UnregisterClient \/ WaitForIdle \/ WakesUp \/ StopThread \/ Destroyed
    \/ \E c \in Connections : ConnectionStep(c)
    \/ SetPromise \/ HandlerReturns \/ WorkerStep \/ Signals

Spec == Init /\ [][Next]_vars

\* Every thread that can run does; the five seconds of a command pass.  Nobody
\* has to send commands or messages, nor to unload the game's client library,
\* and a condition variable need not wake up by itself.
GCRuns ==
    /\ owner # "absent"
    /\ GC!Sleep \/ GC!TakeBatch \/ GC!Exit
    /\ UNCHANGED <<rconVars, lifetime, owner, promises>>

Fairness ==
    /\ WF_vars(RegisterClient) /\ WF_vars(WaitForIdle)
    /\ WF_vars(StopThread) /\ WF_vars(Destroyed)
    /\ \A c \in Connections :
         /\ WF_vars(PostCommand(c)) /\ WF_vars(EndCommand(c))
         /\ WF_vars(ResponseReady(c) \/ Timeout(c))
    /\ WF_vars(SetPromise /\ Head(batch) \notin promises)
    /\ WF_vars(HandlerReturns) /\ WF_vars(GCRuns) /\ WF_vars(Signals)

FairSpec == Spec /\ Fairness

-------------------------------------------------------------------------------
Using(c) == conn[c] \in {"posting", "waiting", "leaving"}

TypeOK ==
    /\ GC!TypeOK
    /\ lifetime \in 0..MaxLifetimes
    /\ owner \in {"absent", "registering", "running", "unregistering", "waiting", "destroying"}
    /\ client \in 0..MaxLifetimes
    /\ active \in Nat
    /\ conn \in [Connections -> {"idle", "posting", "waiting", "leaving"}]
    /\ mine \in [Connections -> 0..MaxLifetimes]
    /\ request \in [Connections -> Nat]
    /\ promises \subseteq Connections \X Nat

\* While a connection thread is between taking a client and letting it go, that
\* very client exists and has not begun to stop: not an earlier one, and not one
\* whose thread may already have exited (rcon_server.cpp:156-177, 279-287,
\* steam_hook.cpp:626-632).
NoUseAfterDestroy ==
    \A c \in Connections :
        Using(c) => /\ mine[c] = lifetime
                    /\ owner \in {"running", "unregistering", "waiting"}
                    /\ stopper = "idle"

\* Within one lifetime everything the connection threads, the main thread and
\* the owner do to the client's event loop is a step of SharedGC: its contract
\* holds, so all that is proved of SharedGC holds of the client.
UsesGCAsSpecified ==
    [][lifetime' = lifetime => [GC!Next]_gcVars]_vars

\* Every command is answered, and destroying the client ends, whatever commands
\* arrive meanwhile and however long they take: UnregisterClient never sleeps when
\* the last command is gone (rcon_server.cpp:174-176, 285).
NobodyWaitsForEver ==
    /\ \A c \in Connections : conn[c] = "posting" ~> conn[c] = "idle"
    /\ owner = "unregistering" ~> owner = "absent"
===============================================================================

----------------------------- MODULE RconListener -----------------------------
(***************************************************************************)
(* Starting, failing and stopping the RCON listener: RconServer::Start,    *)
(* Stop, ThreadMain, MarkListenerFailed and HandleConnection.              *)
(*                                                                         *)
(* m_lifecycleMutex serialises Start and Stop, m_mutex guards              *)
(* m_listenSocket and m_connectionThreads; m_listenerState and m_running   *)
(* are atomics the listener thread and Stop access without a lock.  The    *)
(* listening socket may be closed by either of them.  Every access to      *)
(* shared state is a step of its own.                                      *)
(***************************************************************************)
EXTENDS Naturals, FiniteSets

CONSTANTS RconConnections, \* connections a peer may open, each with its thread
          MaxStarts        \* bound: calls of Start

ASSUME MaxStartsAssumption == MaxStarts \in Nat

VARIABLES
    state,         \* m_listenerState
    running,       \* m_running
    listenSocket,  \* m_listenSocket holds the listening socket
    sock,          \* the listening socket itself
    closes,        \* history: how often it has been closed
    thread,        \* where m_thread is
    stop,          \* where Stop is
    taken,         \* Stop's local listenSocket holds the listening socket
    connState,     \* where each connection thread is
    connThreads,   \* m_connectionThreads
    starts         \* Start calls so far

listenerVars == <<state, running, listenSocket, sock, closes, thread, stop, taken,
                  connState, connThreads, starts>>

ListenerInit ==
    /\ state = "NotStarted"
    /\ running = FALSE
    /\ listenSocket = FALSE
    /\ sock = "none"
    /\ closes = 0
    /\ thread = "none"
    /\ stop = "idle"
    /\ taken = FALSE
    /\ connState = [c \in RconConnections |-> "none"]
    /\ connThreads = {}
    /\ starts = 0

-------------------------------------------------------------------------------
(* Start.  Nothing else runs while the state is NotStarted, so it is one step. *)

Start ==
    /\ stop \in {"idle", "stopped"}
    /\ starts < MaxStarts
    /\ starts' = starts + 1
    /\ IF state # "NotStarted"
       THEN UNCHANGED <<state, running, thread>>
       ELSE \/ /\ state' = "Starting"
               /\ running' = TRUE
               /\ thread' = "binding"
            \/ \* no thread could be created
               /\ state' = "Failed"
               /\ running' = FALSE
               /\ UNCHANGED thread
    /\ UNCHANGED <<listenSocket, sock, closes, stop, taken, connState, connThreads>>

-------------------------------------------------------------------------------
(* MarkListenerFailed, called by the listener thread: three atomic accesses. *)

MarkFailed_PlainStore ==
    /\ thread = "failed"
    /\ running' = FALSE
    /\ state' = "Failed"
    /\ thread' = "exited"

MarkFailed_WhileStarting ==
    /\ thread = "failed"
    /\ running' = FALSE
    /\ state' = IF state = "Starting" THEN "Failed" ELSE state
    /\ thread' = "exited"

MarkFailed ==
    \/ /\ thread = "failed"
       /\ running' = FALSE
       /\ thread' = "failedStarting"
       /\ UNCHANGED state
    \/ /\ thread = "failedStarting"
       /\ IF state = "Starting"
          THEN state' = "Failed" /\ thread' = "exited"
          ELSE thread' = "failedRunning" /\ UNCHANGED state
       /\ UNCHANGED running
    \/ /\ thread = "failedRunning"
       /\ state' = IF state = "Running" THEN "Failed" ELSE state
       /\ thread' = "exited"
       /\ UNCHANGED running

FailListener ==
    /\ MarkFailed
    /\ UNCHANGED <<listenSocket, sock, closes, stop, taken, connState, connThreads, starts>>

-------------------------------------------------------------------------------
(* ThreadMain.                                                             *)

\* No address can be resolved, bound or listened on ...
BindFails ==
    /\ thread = "binding"
    /\ thread' = "failed"
    /\ UNCHANGED <<state, running, listenSocket, sock, closes, stop, taken, connState,
                   connThreads, starts>>

\* ... or there is a listening socket.
Listen ==
    /\ thread = "binding"
    /\ sock' = "open"
    /\ thread' = "publishing"
    /\ UNCHANGED <<state, running, listenSocket, closes, stop, taken, connState,
                   connThreads, starts>>

CloseSocket == sock' = "closed" /\ closes' = closes + 1

\* compare_exchange: unless Stop was there first, the listener is running.
Publish ==
    /\ thread = "publishing"
    /\ IF state = "Starting"
       THEN /\ state' = "Running"
            /\ thread' = "sharing"
            /\ UNCHANGED <<sock, closes>>
       ELSE /\ CloseSocket
            /\ thread' = "exited"
            /\ UNCHANGED state
    /\ UNCHANGED <<running, listenSocket, stop, taken, connState, connThreads, starts>>

\* Under the mutex: let Stop find the socket, unless it has already looked.
Share ==
    /\ thread = "sharing"
    /\ IF running
       THEN /\ listenSocket' = TRUE
            /\ thread' = "testing"
            /\ UNCHANGED <<sock, closes>>
       ELSE /\ CloseSocket
            /\ thread' = "exited"
            /\ UNCHANGED listenSocket
    /\ UNCHANGED <<state, running, stop, taken, connState, connThreads, starts>>

TestRunning ==
    /\ thread = "testing"
    /\ thread' = IF running THEN "accepting" ELSE "leaving"
    /\ UNCHANGED <<state, running, listenSocket, sock, closes, stop, taken, connState,
                   connThreads, starts>>

\* A peer connects; its thread is created under the mutex.
Accept(c) ==
    /\ thread = "accepting"
    /\ sock = "open"
    /\ connState[c] = "none"
    /\ connState' = [connState EXCEPT ![c] = "testing"]
    /\ connThreads' = connThreads \cup {c}
    /\ thread' = "testing"
    /\ UNCHANGED <<state, running, listenSocket, sock, closes, stop, taken, starts>>

\* accept fails once Stop has shut the socket down, and may fail by itself.
AcceptFails ==
    /\ thread = "accepting"
    /\ thread' = "leaving"
    /\ UNCHANGED <<state, running, listenSocket, sock, closes, stop, taken, connState,
                   connThreads, starts>>

\* Under the mutex: the socket is no longer Stop's to close ...
Withdraw ==
    /\ thread = "leaving"
    /\ listenSocket' = FALSE
    /\ thread' = "exchanging"
    /\ UNCHANGED <<state, running, sock, closes, stop, taken, connState, connThreads, starts>>

ClearRunning_AlwaysCloses ==
    /\ thread = "exchanging"
    /\ running' = FALSE
    /\ CloseSocket
    /\ thread' = IF running THEN "failed" ELSE "exited"
    /\ UNCHANGED <<state, listenSocket, stop, taken, connState, connThreads, starts>>

\* ... and whoever clears m_running first closes it.
ClearRunning ==
    /\ thread = "exchanging"
    /\ running' = FALSE
    /\ IF running
       THEN CloseSocket /\ thread' = "failed"
       ELSE thread' = "exited" /\ UNCHANGED <<sock, closes>>
    /\ UNCHANGED <<state, listenSocket, stop, taken, connState, connThreads, starts>>

-------------------------------------------------------------------------------
(* HandleConnection and HandlePacketBuffer.                                *)

ConnectionGoes(c, to) ==
    /\ connState' = [connState EXCEPT ![c] = to]
    /\ UNCHANGED <<state, running, listenSocket, sock, closes, thread, stop, taken,
                   connThreads, starts>>

ConnectionTests(c) ==
    /\ connState[c] = "testing"
    /\ ConnectionGoes(c, IF running THEN "receiving" ELSE "ended")

\* recv comes back within a second: with nothing or part of a packet, with packets to
\* answer, or with the end of the connection.
Receive(c) ==
    /\ connState[c] = "receiving"
    /\ \E to \in {"testing", "answering", "ended"} : ConnectionGoes(c, to)

\* The packets are answered, or a packet is malformed or cannot be answered.  send
\* blocks for as long as the peer does not read.
Answered(c) ==
    /\ connState[c] = "answering"
    /\ \E to \in {"testing", "ended"} : ConnectionGoes(c, to)

-------------------------------------------------------------------------------
(* Stop.                                                                   *)

SetStopped ==
    /\ stop = "idle"
    /\ state' = "Stopped"
    /\ stop' = "clearing"
    /\ UNCHANGED <<running, listenSocket, sock, closes, thread, taken, connState,
                   connThreads, starts>>

StopRunning_Forgotten ==
    /\ stop = "clearing"
    /\ stop' = "taking"
    /\ UNCHANGED <<state, running, listenSocket, sock, closes, thread, taken, connState,
                   connThreads, starts>>

StopRunning ==
    /\ stop = "clearing"
    /\ running' = FALSE
    /\ stop' = "taking"
    /\ UNCHANGED <<state, listenSocket, sock, closes, thread, taken, connState,
                   connThreads, starts>>

\* Under the mutex.
TakeSocket ==
    /\ stop = "taking"
    /\ taken' = listenSocket
    /\ listenSocket' = FALSE
    /\ stop' = "shutting"
    /\ UNCHANGED <<state, running, sock, closes, thread, connState, connThreads, starts>>

ShutdownSocket ==
    /\ stop = "shutting"
    /\ sock' = IF taken THEN "shut" ELSE sock
    /\ stop' = "closing"
    /\ UNCHANGED <<state, running, listenSocket, closes, thread, taken, connState,
                   connThreads, starts>>

StopCloses ==
    /\ stop = "closing"
    /\ IF taken THEN CloseSocket ELSE UNCHANGED <<sock, closes>>
    /\ stop' = "joining"
    /\ UNCHANGED <<state, running, listenSocket, thread, taken, connState, connThreads,
                   starts>>

JoinThread ==
    /\ stop = "joining"
    /\ thread \in {"none", "exited"}
    /\ stop' = "swapping"
    /\ UNCHANGED <<state, running, listenSocket, sock, closes, thread, taken, connState,
                   connThreads, starts>>

JoinConnectionThreads_Detaches ==
    /\ stop = "swapping"
    /\ connThreads' = {}
    /\ stop' = "stopped"
    /\ UNCHANGED <<state, running, listenSocket, sock, closes, thread, taken, connState,
                   starts>>

\* JoinConnectionThreads: from here on new threads would not be seen.
JoinConnectionThreads ==
    /\ stop = "swapping"
    /\ \A c \in connThreads : connState[c] = "ended"
    /\ connThreads' = {}
    /\ stop' = "stopped"
    /\ UNCHANGED <<state, running, listenSocket, sock, closes, thread, taken, connState,
                   starts>>

-------------------------------------------------------------------------------
ListenerStep ==
    \/ FailListener \/ BindFails \/ Listen \/ Publish \/ Share \/ TestRunning
    \/ Withdraw \/ ClearRunning

StopStep ==
    \/ StopRunning \/ TakeSocket \/ ShutdownSocket \/ StopCloses
    \/ JoinThread \/ JoinConnectionThreads

ListenerNext ==
    \/ Start \/ ListenerStep \/ AcceptFails
    \/ \E c \in RconConnections : Accept(c) \/ ConnectionTests(c) \/ Receive(c) \/ Answered(c)
    \/ SetStopped \/ StopStep

ListenerSpec == ListenerInit /\ [][ListenerNext]_listenerVars

\* The threads run.  accept returns once the socket is shut down or closed, not
\* before; recv has a timeout; send has none, so nothing is said of Answered.
ListenerFairness ==
    /\ WF_listenerVars(ListenerStep)
    /\ WF_listenerVars(AcceptFails /\ sock # "open")
    /\ WF_listenerVars(StopStep)
    /\ \A c \in RconConnections : WF_listenerVars(ConnectionTests(c) \/ Receive(c))

ListenerFairSpec == ListenerSpec /\ ListenerFairness

-------------------------------------------------------------------------------
ListenerTypeOK ==
    /\ state \in {"NotStarted", "Starting", "Running", "Failed", "Stopped"}
    /\ running \in BOOLEAN
    /\ listenSocket \in BOOLEAN
    /\ sock \in {"none", "open", "shut", "closed"}
    /\ closes \in Nat
    /\ thread \in {"none", "binding", "publishing", "sharing", "testing", "accepting",
                   "leaving", "exchanging", "failed", "failedStarting", "failedRunning",
                   "exited"}
    /\ stop \in {"idle", "clearing", "taking", "shutting", "closing", "joining", "swapping",
                 "stopped"}
    /\ taken \in BOOLEAN
    /\ connState \in [RconConnections -> {"none", "testing", "receiving", "answering", "ended"}]
    /\ connThreads \subseteq RconConnections
    /\ starts \in 0..MaxStarts
    /\ sock = "closed" <=> closes > 0

\* Stop and the listener thread both know the descriptor and both may close it; a
\* second close would hit whatever the process has opened under the same number
\* since, and so would Stop's shutdown if the listener had closed it meanwhile
\* (rcon_server.cpp:253-261, 375-379, 415-420).
SocketClosedOnce ==
    /\ closes <= 1
    /\ stop \in {"shutting", "closing"} /\ taken => sock \in {"open", "shut"}

\* "Disabled for this process": a listener that failed or was stopped never
\* listens again, whatever Start, Stop and the listener thread do at the same time
\* (rcon_server.cpp:213-232, 375, 424-434).
DisabledForThisProcess ==
    [][/\ state \in {"Failed", "Stopped"} => state' \in {state, "Stopped"}
       /\ thread = "exited" => thread' = "exited"]_listenerVars

\* When the listener thread is gone the server says so: it is marked as failed or
\* stopped, has no socket, and is no longer running once Stop, if it was Stop that
\* made the thread leave, gets to clear the flag (rcon_server.cpp:424-434).
StateTellsTheTruth ==
    /\ ListenerTypeOK
    /\ thread = "exited" => /\ running => stop = "clearing"
                            /\ ~listenSocket
                            /\ state \in {"Failed", "Stopped"}

\* After Stop, and so after the destructor, no thread of the server runs: neither
\* the listener nor one it started just before it left (rcon_server.cpp:264-268,
\* 622-637).  The port may still be bound: a listener that finds m_running clear
\* withdraws the socket before Stop takes it, and then neither of them closes it.
NothingRunsAfterStop ==
    stop = "stopped" => /\ thread \in {"none", "exited"}
                        /\ \A c \in RconConnections : connState[c] \in {"none", "ended"}

\* Stop returns if the peers read what they are sent: a listener thread blocked in accept
\* is always woken, also when it only begins to listen while Stop runs, and a connection
\* notices that the server is not running.  Without that premise it is false: Stop joins a
\* thread whose send nothing ends (rcon_server.cpp:109-129, 251-269, 622-637).
StopReturns ==
    (\A c \in RconConnections : []<>(connState[c] # "answering"))
        => (stop = "clearing" ~> stop = "stopped")
===============================================================================

------------------------------- MODULE Handshake -------------------------------
(***************************************************************************)
(* How a game server learns a player's inventory: NetworkingServer on the  *)
(* server, NetworkingClient in the player's game, the Steam hooks that     *)
(* drive them (steam_hook.cpp) and the peer-to-peer network between them.  *)
(*                                                                         *)
(* When a player authenticates, the server sends a connect message with    *)
(* the player's auth ticket and repeats it on a doubling delay, at most    *)
(* MaxConnectAttempts times.  The client recognises its own ticket, makes  *)
(* the sender its game server and answers with its socache, the only       *)
(* acknowledgement there is.  A message already sent is lost when the      *)
(* session breaks; the server then hears about it in a callback.           *)
(*                                                                         *)
(* One player, several servers.  Time advances in ticks of one second.     *)
(***************************************************************************)
EXTENDS Integers, Sequences, FiniteSets

CONSTANTS
    Servers,
    Tickets,                \* auth ticket handles; each handle has its own bytes
    none,
    MaxConnectAttempts,
    ConnectRetryBaseDelay,
    ConnectRetryMaxDelay,
    MaxInFlight,            \* bound: messages in one direction of a session
    MaxBreaks,              \* bound: times a session breaks
    MaxSendFailures,        \* bound: sends the SDK refuses
    MaxConnects,            \* bound: BeginAuthSession calls
    MaxUpdates,             \* bound: item updates the client sends
    Timely,                 \* whether messages are delivered within a second
    Oversized               \* whether a player may have more items than a ServerGC takes

ASSUME HandshakeAssumption ==
    /\ none \notin Servers
    /\ none \notin Tickets
    /\ MaxConnectAttempts \in Nat \ {0}
    /\ ConnectRetryBaseDelay \in Nat \ {0}
    /\ ConnectRetryMaxDelay \in Nat \ {0}
    /\ {Timely, Oversized} \subseteq BOOLEAN

VARIABLES
    clients,       \* per server: the player's ClientSession in m_clients, or none
    serverEvents,  \* per server: the ServerGC's event queue for this player
    subscribed,    \* per server: the ServerGC published the player's socache
    tickets,       \* m_tickets: handle -> the server that presented it, or none
    serverSteamId, \* m_serverSteamId
    outbox,        \* network messages on their way through the ClientGC
    toClient,      \* per server: the tickets of the connect messages in flight
    toServer,      \* per server: messages in flight from the client
    open,          \* per server: its end of the session accepts messages
    request,       \* per server: a session request callback is due
    failed,        \* per server: a session failed callback is due
    used,          \* tickets the client has been issued so far
    count          \* events of the environment so far, for the bounds

serverVars == <<clients, serverEvents, subscribed>>
clientVars == <<tickets, serverSteamId, outbox, used>>
netVars == <<toClient, toServer, open, request, failed>>
vars == <<serverVars, clientVars, netVars, count>>

Session == [ticket : Tickets, connectAttempts : 0..MaxConnectAttempts,
            wait : 0..ConnectRetryMaxDelay, hasSOCache : BOOLEAN]

NetMessage == {"socache", "update"}

\* No session is the value that stands for none.
ASSUME NoneAssumption == none \notin Session

Init ==
    /\ clients = [s \in Servers |-> none]
    /\ serverEvents = [s \in Servers |-> <<>>]
    /\ subscribed = [s \in Servers |-> FALSE]
    /\ tickets = <<>>
    /\ serverSteamId = none
    /\ outbox = <<>>
    /\ toClient = [s \in Servers |-> <<>>]
    /\ toServer = [s \in Servers |-> <<>>]
    /\ open = [s \in Servers |-> FALSE]
    /\ request = [s \in Servers |-> FALSE]
    /\ failed = [s \in Servers |-> FALSE]
    /\ used = {}
    /\ count = [breaks |-> 0, refused |-> 0, connects |-> 0, updates |-> 0]

-------------------------------------------------------------------------------
(* The retry schedule.                                                     *)

\* The delay after the given number of connect messages.
ConnectRetryDelay(attempts) ==
    LET doubled[i \in Nat] ==
          IF i <= 1 THEN ConnectRetryBaseDelay
          ELSE IF doubled[i - 1] < ConnectRetryMaxDelay
               THEN 2 * doubled[i - 1] ELSE doubled[i - 1]
    IN  IF doubled[attempts] < ConnectRetryMaxDelay
        THEN doubled[attempts] ELSE ConnectRetryMaxDelay

-------------------------------------------------------------------------------
(* NetworkingServer.  The whole class runs on the game server's main       *)
(* thread, from Steam callbacks and from Hk_SteamGameServer_RunCallbacks.  *)

\* SendMessageToUser with the message m: queued, which also opens the session on
\* this side, or refused by the SDK.  c: the environment's counters so far; up:
\* whether this side of the session is open whatever the result.
Deliver(s, m, c, up) ==
    \/ /\ Len(toClient[s]) < MaxInFlight
       /\ toClient' = [toClient EXCEPT ![s] = Append(@, m)]
       /\ open' = [open EXCEPT ![s] = TRUE]
       /\ count' = c
    \/ /\ c.refused < MaxSendFailures
       /\ count' = [c EXCEPT !.refused = @ + 1]
       /\ open' = [open EXCEPT ![s] = up]
       /\ UNCHANGED toClient

\* The attempt counts, and the next is scheduled, whatever the result.
SendConnectMessage(s, session, c, up) ==
    LET attempts == session.connectAttempts + 1 IN
    /\ clients' = [clients EXCEPT ![s] =
         [session EXCEPT !.connectAttempts = attempts,
                         !.wait = ConnectRetryDelay(attempts)]]
    /\ Deliver(s, session.ticket, c, up)

Pending(s) ==
    /\ clients[s] # none
    /\ ~clients[s].hasSOCache
    /\ clients[s].connectAttempts < MaxConnectAttempts

\* BeginAuthSession succeeded: a new session, or the ticket of the present one
\* is replaced and its handshake starts over.
ClientConnected(s, t) ==
    /\ t \in used
    /\ count.connects < MaxConnects
    /\ SendConnectMessage(s,
         [ticket |-> t, connectAttempts |-> 0, wait |-> 0, hasSOCache |-> FALSE],
         [count EXCEPT !.connects = @ + 1], open[s])
    /\ UNCHANGED <<serverEvents, subscribed, clientVars, toServer, request, failed>>

ClientDisconnected_Overtakes(s) ==
    /\ clients[s] # none
    /\ clients' = [clients EXCEPT ![s] = none]
    /\ serverEvents' = [serverEvents EXCEPT ![s] = <<"unsubscribe">> \o @]
    /\ toServer' = [toServer EXCEPT ![s] = <<>>]
    /\ open' = [open EXCEPT ![s] = FALSE]
    /\ request' = [request EXCEPT ![s] = FALSE]
    /\ UNCHANGED <<subscribed, clientVars, toClient, failed, count>>

\* EndAuthSession, for a player the game began a session with: forget the session
\* and close the channel, then tell the ServerGC to unsubscribe.
ClientDisconnected(s) ==
    /\ clients[s] # none
    /\ clients' = [clients EXCEPT ![s] = none]
    /\ serverEvents' = [serverEvents EXCEPT ![s] = Append(@, "unsubscribe")]
    /\ toServer' = [toServer EXCEPT ![s] = <<>>]
    /\ open' = [open EXCEPT ![s] = FALSE]
    /\ request' = [request EXCEPT ![s] = FALSE]
    /\ UNCHANGED <<subscribed, clientVars, toClient, failed, count>>

\* Update: the next connect message is due.
Retry(s) ==
    /\ Pending(s)
    /\ clients[s].wait = 0
    /\ SendConnectMessage(s, clients[s], count, open[s])
    /\ UNCHANGED <<serverEvents, subscribed, clientVars, toServer, request, failed>>

\* ReceiveMessage and HandleIncomingMessage: a message of a player without a
\* session is dropped; a socache acknowledges the handshake; everything of a
\* player with a session goes to the ServerGC.
ReceiveMessage(s) ==
    /\ toServer[s] # <<>>
    /\ ~request[s]
    /\ toServer' = [toServer EXCEPT ![s] = Tail(@)]
    /\ LET m == Head(toServer[s]) IN
         IF clients[s] = none
         THEN UNCHANGED <<clients, serverEvents>>
         ELSE /\ clients' = [clients EXCEPT ![s].hasSOCache = @ \/ m = "socache"]
              /\ serverEvents' = [serverEvents EXCEPT ![s] = Append(@, m)]
    /\ UNCHANGED <<subscribed, clientVars, toClient, open, request, failed, count>>

\* Accept, and use the occasion to send the connect message at once.
HandleSessionRequest(s) ==
    /\ request[s]
    /\ IF clients[s] = none
       THEN \* not accepted: what the client queued is never delivered
            /\ toServer' = [toServer EXCEPT ![s] = <<>>]
            /\ UNCHANGED <<clients, toClient, open, count>>
       ELSE /\ UNCHANGED toServer
            /\ IF Pending(s)
               THEN SendConnectMessage(s, clients[s], count, TRUE)
               ELSE /\ open' = [open EXCEPT ![s] = TRUE]
                    /\ UNCHANGED <<clients, toClient, count>>
    /\ request' = [request EXCEPT ![s] = FALSE]
    /\ UNCHANGED <<serverEvents, subscribed, clientVars, failed>>

Restarted_AlwaysRenewed(session) ==
    [session EXCEPT !.connectAttempts = 0, !.hasSOCache = FALSE, !.wait = 0]

\* An acknowledged session gets a fresh budget, any session is due at once.
Restarted(session) ==
    [session EXCEPT !.connectAttempts = IF session.hasSOCache THEN 0 ELSE @,
                    !.hasSOCache = FALSE, !.wait = 0]

HandleSessionFailed(s) ==
    /\ failed[s]
    /\ failed' = [failed EXCEPT ![s] = FALSE]
    /\ IF clients[s] = none
       THEN UNCHANGED clients
       ELSE /\ clients' = [clients EXCEPT ![s] = Restarted(@)]
    /\ UNCHANGED <<serverEvents, subscribed, clientVars, toClient, toServer, open, request, count>>

\* The ServerGC's worker handles one event: a socache is published to the game, unless
\* it has more than MaxServerSOCacheItems items (the handshake it acknowledged is over all
\* the same); an unsubscription withdraws it, an item update is forwarded.
HandleServerEvent(s) ==
    /\ serverEvents[s] # <<>>
    /\ serverEvents' = [serverEvents EXCEPT ![s] = Tail(@)]
    /\ \E ignored \in {FALSE, Oversized} :
         subscribed' = [subscribed EXCEPT ![s] =
           CASE Head(serverEvents[s]) = "socache" -> @ \/ ~ignored
             [] Head(serverEvents[s]) = "unsubscribe" -> FALSE
             [] OTHER -> @]
    /\ UNCHANGED <<clients, clientVars, netVars, count>>

-------------------------------------------------------------------------------
(* NetworkingClient, on the main thread of the player's game.              *)

Held == DOMAIN tickets

\* GetAuthSessionTicket returned a new handle.
SetAuthTicket(t) ==
    /\ t \notin used
    /\ used' = used \cup {t}
    /\ tickets' = [h \in Held \cup {t} |-> IF h = t THEN none ELSE tickets[h]]
    /\ UNCHANGED <<serverVars, serverSteamId, outbox, netVars, count>>

ClearAuthTicket_KeepsServer(t) ==
    /\ t \in Held
    /\ tickets' = [h \in Held \ {t} |-> tickets[h]]
    /\ UNCHANGED <<serverVars, serverSteamId, outbox, used, netVars, count>>

\* CancelAuthTicket: if a server presented this ticket the channel to it is
\* closed, and if it is the current server there is none any more.
ClearAuthTicket(t) ==
    /\ t \in Held
    /\ LET s == tickets[t] IN
         /\ serverSteamId' = IF s # none /\ s = serverSteamId THEN none ELSE serverSteamId
         /\ toClient' = [x \in Servers |-> IF x = s THEN <<>> ELSE toClient[x]]
    /\ tickets' = [h \in Held \ {t} |-> tickets[h]]
    /\ UNCHANGED <<serverVars, outbox, used, toServer, open, request, failed, count>>

ReceiveConnect_AnswersOnce(s) ==
    /\ Held # {} \/ serverSteamId # none
    /\ toClient[s] # <<>>
    /\ toClient' = [toClient EXCEPT ![s] = Tail(@)]
    /\ LET t == Head(toClient[s]) IN
         IF t \in Held /\ tickets[t] = none
         THEN /\ tickets' = [tickets EXCEPT ![t] = s]
              /\ serverSteamId' = s
              /\ outbox' = Append(outbox, "socache")
         ELSE UNCHANGED <<tickets, serverSteamId, outbox>>
    /\ UNCHANGED <<serverVars, used, toServer, open, request, failed, count>>

\* Update takes the next connect message of server s.  A ticket of ours makes s
\* the game server and asks the ClientGC for the socache.  Without tickets and
\* server the client does not even look.
ReceiveConnect(s) ==
    /\ Held # {} \/ serverSteamId # none
    /\ toClient[s] # <<>>
    /\ toClient' = [toClient EXCEPT ![s] = Tail(@)]
    /\ LET t == Head(toClient[s]) IN
         IF t \in Held
         THEN /\ tickets' = [tickets EXCEPT ![t] = s]
              /\ serverSteamId' = s
              /\ outbox' = Append(outbox, "socache")
         ELSE UNCHANGED <<tickets, serverSteamId, outbox>>
    /\ UNCHANGED <<serverVars, used, toServer, open, request, failed, count>>

\* The game changes an equipped item: the ClientGC has an update for the server.
ItemUpdate ==
    /\ count.updates < MaxUpdates
    /\ count' = [count EXCEPT !.updates = @ + 1]
    /\ outbox' = Append(outbox, "update")
    /\ UNCHANGED <<serverVars, tickets, serverSteamId, used, netVars>>

\* The main thread takes a network message of the ClientGC and sends it to
\* whatever server is current by now; the first message into a session that the
\* server has not opened raises a session request there.
DrainOutbox ==
    /\ outbox # <<>>
    /\ outbox' = Tail(outbox)
    /\ IF serverSteamId = none
       THEN UNCHANGED <<toServer, request, count>>
       ELSE LET s == serverSteamId IN
            \/ /\ Len(toServer[s]) < MaxInFlight
               /\ toServer' = [toServer EXCEPT ![s] = Append(@, Head(outbox))]
               /\ request' = [request EXCEPT ![s] = ~open[s]]
               /\ UNCHANGED count
            \/ /\ count.refused < MaxSendFailures
               /\ count' = [count EXCEPT !.refused = @ + 1]
               /\ UNCHANGED <<toServer, request>>
    /\ UNCHANGED <<serverVars, tickets, serverSteamId, used, toClient,
                   open, failed>>

-------------------------------------------------------------------------------
(* The network and the clock.                                              *)

\* The session with server s breaks: what is in flight is lost, and the server
\* gets a session failed callback (the client's handler only logs).
SessionBreaks(s) ==
    /\ count.breaks < MaxBreaks
    /\ count' = [count EXCEPT !.breaks = @ + 1]
    /\ toClient' = [toClient EXCEPT ![s] = <<>>]
    /\ toServer' = [toServer EXCEPT ![s] = <<>>]
    /\ open' = [open EXCEPT ![s] = FALSE]
    /\ request' = [request EXCEPT ![s] = FALSE]
    /\ failed' = [failed EXCEPT ![s] = TRUE]
    /\ UNCHANGED <<serverVars, clientVars>>

Waiting == {s \in Servers : Pending(s) /\ clients[s].wait > 0}

\* A second passes for the sessions that wait for their next attempt; with Timely
\* only when no message is on its way.
Tick ==
    /\ Waiting # {}
    /\ Timely => outbox = <<>> /\ \A s \in Servers : toClient[s] = <<>> /\ toServer[s] = <<>>
    /\ clients' = [s \in Servers |->
         IF s \in Waiting THEN [clients[s] EXCEPT !.wait = @ - 1] ELSE clients[s]]
    /\ UNCHANGED <<serverEvents, subscribed, clientVars, netVars, count>>

-------------------------------------------------------------------------------
ServerStep(s) ==
    \/ Retry(s) \/ ReceiveMessage(s) \/ HandleSessionRequest(s)
    \/ HandleSessionFailed(s) \/ HandleServerEvent(s)

Next ==
    \/ \E s \in Servers :
         \/ ServerStep(s)
         \/ \E t \in Tickets : ClientConnected(s, t)
         \/ ClientDisconnected(s)
         \/ ReceiveConnect(s)
         \/ SessionBreaks(s)
    \/ \E t \in Tickets : SetAuthTicket(t) \/ ClearAuthTicket(t)
    \/ ItemUpdate \/ DrainOutbox \/ Tick

Spec == Init /\ [][Next]_vars

\* Both main threads run a frame again and again, and both worker threads run;
\* players, servers and the network do as they please.
Fairness ==
    /\ \A s \in Servers :
         /\ WF_vars(Retry(s)) /\ WF_vars(ReceiveMessage(s))
         /\ WF_vars(HandleSessionRequest(s)) /\ WF_vars(HandleSessionFailed(s))
         /\ WF_vars(HandleServerEvent(s)) /\ WF_vars(ReceiveConnect(s))
    /\ WF_vars(DrainOutbox)
    /\ WF_vars(Tick)

FairSpec == Spec /\ Fairness

-------------------------------------------------------------------------------
TypeOK ==
    /\ clients \in [Servers -> Session \cup {none}]
    /\ serverEvents \in [Servers -> Seq(NetMessage \cup {"unsubscribe"})]
    /\ subscribed \in [Servers -> BOOLEAN]
    /\ Held \subseteq used
    /\ tickets \in [Held -> Servers \cup {none}]
    /\ serverSteamId \in Servers \cup {none}
    /\ outbox \in Seq(NetMessage)
    /\ toClient \in [Servers -> Seq(Tickets)]
    /\ toServer \in [Servers -> Seq(NetMessage)]
    /\ open \in [Servers -> BOOLEAN]
    /\ request \in [Servers -> BOOLEAN]
    /\ failed \in [Servers -> BOOLEAN]
    /\ used \subseteq Tickets
    /\ count \in [breaks : Nat, refused : Nat, connects : Nat, updates : Nat]

\* The player's items are sent only to a server that presented a ticket which the
\* game has not cancelled since, whatever the order in which tickets are issued,
\* presented and cancelled (networking_client.cpp:61-73, 101, 160-177).
CurrentServerPresentedTicket ==
    serverSteamId # none => \E t \in Held : tickets[t] = serverSteamId

\* After a disconnect the ServerGC keeps nothing of the player once its queue is
\* empty: no message that was received earlier, or that is still in flight,
\* resurrects the subscription (networking_server.cpp:41-47, steam_hook.cpp:1202-1205).
NoGhostSubscription ==
    /\ TypeOK
    /\ \A s \in Servers :
         clients[s] = none /\ serverEvents[s] = <<>> => ~subscribed[s]

\* "A broken path does not buy extra attempts": the attempts already made are
\* forgotten only when the game begins a new auth session or when the handshake
\* they belong to succeeded (networking_server.cpp:282-289, 166-175).
BudgetRenewal ==
    [][\A s \in Servers :
         /\ clients[s] # none /\ clients'[s] # none
         /\ clients'[s].connectAttempts < clients[s].connectAttempts
         => clients[s].hasSOCache \/ count'.connects > count.connects]_vars

\* If a server keeps its session with the player, and the player the ticket of
\* that session, then in the end the server has the socache and has published
\* it for good: with fewer failures than attempts no sequence of lost connect
\* messages, lost replies, broken sessions and refreshed tickets defeats the
\* retries (networking_server.cpp:6-8, 166-175, 280-292).  With Timely, as a network
\* that keeps every message longer than the retry delay can exhaust the budget, and
\* without Oversized, as a socache the ServerGC ignores is acknowledged but not published.
HandshakeCompletes ==
    \A s \in Servers :
        <>[](clients[s] # none /\ clients[s].ticket \in Held)
            => <>[](clients[s] # none /\ clients[s].hasSOCache /\ subscribed[s])
===============================================================================

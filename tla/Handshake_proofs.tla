--------------------------- MODULE Handshake_proofs ---------------------------
(***************************************************************************)
(* For any number of servers and tickets, any number of attempts and any   *)
(* losses: a player's items go only to a server that presented a ticket    *)
(* the game holds, nothing is left of a player who is gone, and a broken   *)
(* path renews no attempts; an attempt waits twice as long as the last one *)
(* did, up to the maximum.                                                 *)
(*                                                                         *)
(* The argument: what a server's queue holds for a player without session  *)
(* ends in the unsubscription, because from the disconnect on everything   *)
(* that arrives is dropped (LastIsUnsubscribe).                            *)
(***************************************************************************)
EXTENDS Handshake, WellFoundedInduction, TLAPS

-------------------------------------------------------------------------------
(* The retry schedule.  The delay is a recursive function of the attempts; *)
(* that there is one is an induction, which is a least counterexample: for *)
(* the first n attempts there is exactly one, and the function is made of  *)
(* those.                                                                  *)

Doubled(d) == IF d < ConnectRetryMaxDelay THEN 2 * d ELSE d

Schedule(f, n) ==
    f = [i \in 0..n |-> IF i <= 1 THEN ConnectRetryBaseDelay ELSE Doubled(f[i - 1])]

Scheduled(n) == \E f : Schedule(f, n) /\ \A g : Schedule(g, n) => g = f

LEMMA SchedulePart ==
    ASSUME NEW n \in Nat, NEW f, Schedule(f, n + 1) PROVE Schedule([i \in 0..n |-> f[i]], n)
  <1> DEFINE g == [i \in 0..n |-> f[i]]
  <1>1. ASSUME NEW i \in 0..n
        PROVE  g[i] = IF i <= 1 THEN ConnectRetryBaseDelay ELSE Doubled(g[i - 1])
    <2>1. i \in 0 .. n + 1
      OBVIOUS
    <2>2. f[i] = IF i <= 1 THEN ConnectRetryBaseDelay ELSE Doubled(f[i - 1])
      BY <2>1 DEF Schedule
    <2>3. i > 1 => i - 1 \in 0..n
      OBVIOUS
    <2> QED
      BY <2>2, <2>3
  <1>2. g = [i \in 0..n |-> g[i]]
    OBVIOUS
  <1> HIDE DEF g
  <1>3. g = [i \in 0..n |-> IF i <= 1 THEN ConnectRetryBaseDelay ELSE Doubled(g[i - 1])]
    BY <1>1, <1>2
  <1> QED
    BY <1>3 DEF Schedule, g

LEMMA ScheduleMore == ASSUME NEW n \in Nat, Scheduled(n) PROVE Scheduled(n + 1)
  <1>1. PICK f : Schedule(f, n) /\ \A g : Schedule(g, n) => g = f
    BY DEF Scheduled
  <1> DEFINE h == [i \in 0 .. n + 1 |->
                     IF i <= 1 THEN ConnectRetryBaseDelay
                     ELSE IF i = n + 1 THEN Doubled(f[n]) ELSE f[i]]
  <1>2. ASSUME NEW i \in 0..n PROVE h[i] = f[i]
    <2>1. i \in 0 .. n + 1 /\ i # n + 1
      OBVIOUS
    <2>2. f[i] = IF i <= 1 THEN ConnectRetryBaseDelay ELSE Doubled(f[i - 1])
      BY <1>1 DEF Schedule
    <2> QED
      BY <2>1, <2>2
  <1>3. ASSUME NEW i \in 0 .. n + 1
        PROVE  h[i] = IF i <= 1 THEN ConnectRetryBaseDelay ELSE Doubled(h[i - 1])
    <2>1. CASE i <= 1
      BY <2>1
    <2>2. CASE i > 1 /\ i = n + 1
      <3>1. h[i] = Doubled(f[n]) /\ n \in 0..n /\ i - 1 = n
        BY <2>2
      <3> QED
        BY <1>2, <2>2, <3>1
    <2>3. CASE i > 1 /\ i # n + 1
      <3>1. i \in 0..n /\ i - 1 \in 0..n
        BY <2>3
      <3>2. f[i] = Doubled(f[i - 1])
        BY <1>1, <2>3, <3>1 DEF Schedule
      <3> QED
        BY <1>2, <2>3, <3>1, <3>2
    <2> QED
      BY <2>1, <2>2, <2>3
  <1>4. h = [i \in 0 .. n + 1 |-> h[i]]
    OBVIOUS
  <1> HIDE DEF h
  <1>5. Schedule(h, n + 1)
    BY <1>3, <1>4 DEF Schedule
  <1>6. ASSUME NEW g, Schedule(g, n + 1) PROVE g = h
    <2>1. [i \in 0..n |-> g[i]] = f
      BY <1>1, <1>6, SchedulePart
    <2>2. \A i \in 0..n : g[i] = h[i]
      BY <1>2, <2>1
    <2>3. g = [i \in 0 .. n + 1 |-> g[i]]
      BY <1>6 DEF Schedule
    <2>4. g[n + 1] = IF n + 1 <= 1 THEN ConnectRetryBaseDelay ELSE Doubled(g[n])
      BY <1>6 DEF Schedule
    <2>5. h[n + 1] = IF n + 1 <= 1 THEN ConnectRetryBaseDelay ELSE Doubled(h[n])
      BY <1>3
    <2>6. g[n] = h[n]
      BY <2>2
    <2>7. ASSUME NEW i \in 0 .. n + 1 PROVE g[i] = h[i]
      <3>1. i \in 0..n \/ i = n + 1
        OBVIOUS
      <3> QED
        BY <2>2, <2>4, <2>5, <2>6, <3>1
    <2> QED
      BY <1>4, <2>3, <2>7
  <1> QED
    BY <1>5, <1>6 DEF Scheduled

LEMMA ScheduledAll == \A n \in Nat : Scheduled(n)
  <1>1. Scheduled(0)
    <2> DEFINE f == [i \in 0..0 |-> ConnectRetryBaseDelay]
    <2>1. \A g : Schedule(g, 0) <=> g = f
      <3>1. \A i \in 0..0 : i <= 1
        OBVIOUS
      <3> QED
        BY <3>1 DEF Schedule
    <2> HIDE DEF f
    <2> QED
      BY <2>1 DEF Scheduled
  <1> DEFINE bad == {n \in Nat : ~Scheduled(n)}
  <1> SUFFICES ASSUME bad # {} PROVE FALSE
    OBVIOUS
  <1>2. PICK n \in bad : \A m \in bad : <<m, n>> \notin OpToRel(<, Nat)
    BY NatLessThanWellFounded, WFMin
  <1>3. n # 0
    BY <1>1
  <1>4. n - 1 \in Nat /\ (n - 1) + 1 = n /\ <<n - 1, n>> \in OpToRel(<, Nat)
    BY <1>3 DEF OpToRel
  <1>5. Scheduled(n - 1)
    BY <1>2, <1>4
  <1>6. Scheduled((n - 1) + 1)
    BY <1>4, <1>5, ScheduleMore
  <1> QED
    BY <1>4, <1>6

\* The first attempt is followed by the base delay, every other by twice the delay before
\* it, and none by more than the maximum.
IsDoubling(f) ==
    f = [i \in Nat |-> IF i <= 1 THEN ConnectRetryBaseDelay
                       ELSE IF f[i - 1] < ConnectRetryMaxDelay THEN 2 * f[i - 1] ELSE f[i - 1]]

LEMMA DoublingExists == \E f : IsDoubling(f)
  <1> DEFINE Part(n) == CHOOSE f : Schedule(f, n)
             d == [n \in Nat |-> Part(n)[n]]
  <1>1. ASSUME NEW n \in Nat PROVE Schedule(Part(n), n) /\ \A g : Schedule(g, n) => g = Part(n)
    BY ScheduledAll DEF Scheduled
  <1> HIDE DEF Part
  <1>2. ASSUME NEW i \in Nat
        PROVE  d[i] = IF i <= 1 THEN ConnectRetryBaseDelay ELSE Doubled(d[i - 1])
    <2>1. Part(i)[i] = IF i <= 1 THEN ConnectRetryBaseDelay ELSE Doubled(Part(i)[i - 1])
      BY <1>1 DEF Schedule
    <2>2. ASSUME i > 1 PROVE d[i - 1] = Part(i)[i - 1]
      <3>1. PICK n \in Nat : i = n + 1
        <4>1. i - 1 \in Nat /\ i = (i - 1) + 1
          BY <2>2
        <4> QED
          BY <4>1
      <3>2. Schedule(Part(n + 1), n + 1)
        BY <1>1
      <3>3. Part(n) = [j \in 0..n |-> Part(n + 1)[j]]
        BY <1>1, <3>2, SchedulePart
      <3>4. Part(n)[n] = Part(n + 1)[n]
        BY <3>3
      <3>5. i - 1 = n /\ d[n] = Part(n)[n]
        BY <3>1
      <3> QED
        BY <3>1, <3>4, <3>5
    <2> QED
      BY <2>1, <2>2
  <1>3. d = [i \in Nat |-> d[i]]
    OBVIOUS
  <1> HIDE DEF d
  <1>4. IsDoubling(d)
    BY <1>2, <1>3 DEF IsDoubling, Doubled
  <1> QED
    BY <1>4

\* ConnectRetryDelay: the delays start with the base delay and double, up to the maximum
\* (networking_server.cpp:13-23).
THEOREM RetryDelays ==
    \A n \in Nat \ {0} :
        /\ ConnectRetryDelay(n) \in 1..ConnectRetryMaxDelay
        /\ ConnectRetryDelay(1) = IF ConnectRetryBaseDelay < ConnectRetryMaxDelay
                                  THEN ConnectRetryBaseDelay ELSE ConnectRetryMaxDelay
        /\ ConnectRetryDelay(n + 1) = IF 2 * ConnectRetryDelay(n) < ConnectRetryMaxDelay
                                      THEN 2 * ConnectRetryDelay(n) ELSE ConnectRetryMaxDelay
  <1> DEFINE d == CHOOSE f : IsDoubling(f)
  <1>1. IsDoubling(d)
    BY DoublingExists
  <1>2. \A n : ConnectRetryDelay(n) = IF d[n] < ConnectRetryMaxDelay
                                      THEN d[n] ELSE ConnectRetryMaxDelay
    BY DEF ConnectRetryDelay, IsDoubling
  <1> HIDE DEF d
  <1>3. \A i \in Nat : d[i] = IF i <= 1 THEN ConnectRetryBaseDelay ELSE Doubled(d[i - 1])
    BY <1>1 DEF IsDoubling, Doubled
  <1>4. /\ ConnectRetryBaseDelay \in Nat /\ ConnectRetryBaseDelay > 0
        /\ ConnectRetryMaxDelay \in Nat /\ ConnectRetryMaxDelay > 0
    BY HandshakeAssumption
  <1>5. \A i \in Nat : d[i] \in Nat /\ d[i] > 0
    <2> DEFINE bad == {i \in Nat : ~(d[i] \in Nat /\ d[i] > 0)}
    <2> SUFFICES ASSUME bad # {} PROVE FALSE
      OBVIOUS
    <2>1. PICK i \in bad : \A j \in bad : <<j, i>> \notin OpToRel(<, Nat)
      BY NatLessThanWellFounded, WFMin
    <2>2. i > 1
      BY <1>3, <1>4
    <2>3. PICK n \in Nat : i = n + 1
      <3>1. i - 1 \in Nat /\ i = (i - 1) + 1
        BY <2>2
      <3> QED
        BY <3>1
    <2>4. <<n, i>> \in OpToRel(<, Nat)
      BY <2>3 DEF OpToRel
    <2>5. d[n] \in Nat /\ d[n] > 0
      BY <2>1, <2>4
    <2>6. d[i] = Doubled(d[i - 1]) /\ i - 1 = n
      BY <1>3, <2>2, <2>3
    <2>7. d[i] \in Nat /\ d[i] > 0
      BY <1>4, <2>5, <2>6 DEF Doubled
    <2> QED
      BY <2>7
  <1>6. d[1] = ConnectRetryBaseDelay
    BY <1>3
  <1>7. ASSUME NEW n \in Nat \ {0} PROVE d[n + 1] = Doubled(d[n])
    <2>1. n + 1 \in Nat /\ ~(n + 1 <= 1) /\ (n + 1) - 1 = n
      OBVIOUS
    <2> QED
      BY <1>3, <2>1
  <1> QED
    BY <1>2, <1>4, <1>5, <1>6, <1>7 DEF Doubled

-------------------------------------------------------------------------------
(* The invariant, and what the handlers do to a session.                   *)

Event == NetMessage \cup {"unsubscribe"}

\* The last the ServerGC will hear of a player who is gone is that he is gone.
LastIsUnsubscribe ==
    \A s \in Servers : clients[s] = none =>
        IF serverEvents[s] = <<>> THEN ~subscribed[s]
        ELSE serverEvents[s][Len(serverEvents[s])] = "unsubscribe"

IInv == TypeOK /\ LastIsUnsubscribe /\ CurrentServerPresentedTicket

\* TypeOK in four parts.
ServerTypes ==
    /\ clients \in [Servers -> Session \cup {none}]
    /\ serverEvents \in [Servers -> Seq(NetMessage \cup {"unsubscribe"})]
    /\ subscribed \in [Servers -> BOOLEAN]

ClientTypes ==
    /\ Held \subseteq used
    /\ tickets \in [Held -> Servers \cup {none}]
    /\ serverSteamId \in Servers \cup {none}
    /\ outbox \in Seq(NetMessage)
    /\ used \subseteq Tickets

NetTypes ==
    /\ toClient \in [Servers -> Seq(Tickets)]
    /\ toServer \in [Servers -> Seq(NetMessage)]
    /\ open \in [Servers -> BOOLEAN]
    /\ request \in [Servers -> BOOLEAN]
    /\ failed \in [Servers -> BOOLEAN]

CountTypes == count \in [breaks : Nat, refused : Nat, connects : Nat, updates : Nat]

LEMMA Parts == TypeOK <=> ServerTypes /\ ClientTypes /\ NetTypes /\ CountTypes
  BY DEF TypeOK, ServerTypes, ClientTypes, NetTypes, CountTypes

\* Sequences.
LEMMA QueueTypes ==
    ASSUME NEW S, NEW q \in Seq(S)
    PROVE  /\ \A e \in S : Append(q, e) \in Seq(S)
           /\ q # <<>> => Head(q) \in S /\ Tail(q) \in Seq(S)
           /\ <<>> \in Seq(S)
  OBVIOUS

LEMMA QueueEnds ==
    ASSUME NEW S, NEW q \in Seq(S)
    PROVE  /\ \A e \in S : Append(q, e) # <<>> /\ Append(q, e)[Len(Append(q, e))] = e
           /\ q # <<>> /\ Tail(q) = <<>> => q[Len(q)] = Head(q)
           /\ q # <<>> /\ Tail(q) # <<>> => Tail(q)[Len(Tail(q))] = q[Len(q)]
  OBVIOUS

\* What the handlers do to a session leaves a session.
LEMMA SessionFields ==
    ASSUME NEW session \in Session, NEW n \in 0..MaxConnectAttempts,
           NEW w \in 0..ConnectRetryMaxDelay
    PROVE  /\ [session EXCEPT !.connectAttempts = n, !.wait = w] \in Session
           /\ [session EXCEPT !.connectAttempts = n, !.wait = w].connectAttempts = n
  BY DEF Session

LEMMA SessionAcknowledged ==
    ASSUME NEW session \in Session, NEW has \in BOOLEAN
    PROVE  [session EXCEPT !.hasSOCache = has] \in Session
  BY DEF Session

LEMMA SessionWaits ==
    ASSUME NEW session \in Session, session.wait > 0
    PROVE  /\ [session EXCEPT !.wait = @ - 1] \in Session
           /\ [session EXCEPT !.wait = @ - 1].connectAttempts = session.connectAttempts
  <1> DEFINE less == session.wait - 1
  <1>1. less \in 0..ConnectRetryMaxDelay
    BY HandshakeAssumption DEF Session
  <1> HIDE DEF less
  <1>2. /\ [session EXCEPT !.wait = less] \in Session
        /\ [session EXCEPT !.wait = less].connectAttempts = session.connectAttempts
    BY <1>1 DEF Session
  <1> QED
    BY <1>2 DEF less

LEMMA SessionRestarted ==
    ASSUME NEW session \in Session
    PROVE  /\ Restarted(session) \in Session
           /\ Restarted(session).connectAttempts < session.connectAttempts => session.hasSOCache
  <1> DEFINE left == IF session.hasSOCache THEN 0 ELSE session.connectAttempts
  <1>1. left \in 0..MaxConnectAttempts /\ 0 \in 0..ConnectRetryMaxDelay
    BY HandshakeAssumption DEF Session
  <1>2. /\ Restarted(session) = [session EXCEPT !.connectAttempts = left, !.hasSOCache = FALSE,
                                                !.wait = 0]
        /\ left < session.connectAttempts => session.hasSOCache
    BY DEF Restarted, Session
  <1> HIDE DEF left
  <1> QED
    BY <1>1, <1>2 DEF Session

Counts == [breaks : Nat, refused : Nat, connects : Nat, updates : Nat]

LEMMA CountsGrow ==
    ASSUME NEW n \in Counts
    PROVE  /\ [n EXCEPT !.breaks = @ + 1] \in Counts
           /\ [n EXCEPT !.refused = @ + 1] \in Counts
           /\ [n EXCEPT !.connects = @ + 1] \in Counts
           /\ [n EXCEPT !.updates = @ + 1] \in Counts
  BY DEF Counts

\* An attempt leaves a session whose attempts have grown by one, and the network
\* and the counters as they should be.
LEMMA Attempt ==
    ASSUME TypeOK, NEW s \in Servers, NEW session \in Session,
           session.connectAttempts < MaxConnectAttempts,
           NEW c \in Counts, NEW up \in BOOLEAN,
           SendConnectMessage(s, session, c, up)
    PROVE  /\ clients' \in [Servers -> Session \cup {none}]
           /\ clients'[s] \in Session
           /\ clients'[s].connectAttempts = session.connectAttempts + 1
           /\ \A x \in Servers \ {s} : clients'[x] = clients[x]
           /\ toClient' \in [Servers -> Seq(Tickets)]
           /\ open' \in [Servers -> BOOLEAN]
           /\ count' \in Counts
           /\ count'.connects = c.connects
  <1> DEFINE n == session.connectAttempts + 1
             next == [session EXCEPT !.connectAttempts = n, !.wait = ConnectRetryDelay(n)]
  <1>1. n \in 1..MaxConnectAttempts
    BY HandshakeAssumption DEF Session
  <1>2. ConnectRetryDelay(n) \in 0..ConnectRetryMaxDelay
    BY <1>1, RetryDelays, HandshakeAssumption
  <1>3. next \in Session /\ next.connectAttempts = n
    <2>1. n \in 0..MaxConnectAttempts
      BY <1>1
    <2> HIDE DEF n
    <2> QED
      BY <1>2, <2>1, SessionFields
  <1>4. clients' = [clients EXCEPT ![s] = next]
    BY DEF SendConnectMessage
  <1>5. clients \in [Servers -> Session \cup {none}]
    BY DEF TypeOK
  <1>6. /\ clients' \in [Servers -> Session \cup {none}]
        /\ clients'[s] = next
        /\ \A x \in Servers \ {s} : clients'[x] = clients[x]
    <2> HIDE DEF next, n
    <2> QED
      BY <1>3, <1>4, <1>5
  <1>7. Deliver(s, session.ticket, c, up) /\ session.ticket \in Tickets
    BY DEF SendConnectMessage, Session
  <1>8. toClient' \in [Servers -> Seq(Tickets)]
    <2>1. Append(toClient[s], session.ticket) \in Seq(Tickets)
      BY <1>7, QueueTypes DEF TypeOK
    <2> QED
      BY <2>1, <1>7 DEF Deliver, TypeOK
  <1>9. open' \in [Servers -> BOOLEAN]
    BY <1>7 DEF Deliver, TypeOK
  <1>10. count' \in Counts /\ count'.connects = c.connects
    BY <1>7 DEF Deliver, Counts
  <1> HIDE DEF next
  <1> QED
    BY <1>3, <1>6, <1>8, <1>9, <1>10

-------------------------------------------------------------------------------
LEMMA InitIInv == Init => IInv
  <1> SUFFICES ASSUME Init PROVE IInv
    OBVIOUS
  <1>1. TypeOK
    <2>1. ServerTypes
      BY DEF Init, ServerTypes
    <2>2. ClientTypes
      BY DEF Init, ClientTypes, Held
    <2>3. NetTypes
      BY DEF Init, NetTypes
    <2>4. CountTypes
      BY DEF Init, CountTypes
    <2> QED
      BY <2>1, <2>2, <2>3, <2>4, Parts
  <1> QED
    BY <1>1 DEF Init, IInv, LastIsUnsubscribe, CurrentServerPresentedTicket

\* What the invariant says of the server is kept by a step that leaves its queue
\* and its publications alone and takes no session away.
LEMMA ServerKept ==
    ASSUME LastIsUnsubscribe, UNCHANGED <<serverEvents, subscribed>>,
           \A s \in Servers : clients'[s] = none => clients[s] = none
    PROVE  LastIsUnsubscribe'
  BY DEF LastIsUnsubscribe

LEMMA ClientKept ==
    ASSUME CurrentServerPresentedTicket, UNCHANGED <<tickets, serverSteamId>>
    PROVE  CurrentServerPresentedTicket'
  BY DEF CurrentServerPresentedTicket, Held

LEMMA ConnectedKeeps ==
    ASSUME IInv, NEW s \in Servers, NEW t \in Tickets, ClientConnected(s, t)
    PROVE  IInv'
  <1> DEFINE session == [ticket |-> t, connectAttempts |-> 0, wait |-> 0, hasSOCache |-> FALSE]
             c == [count EXCEPT !.connects = @ + 1]
  <1>1. session \in Session /\ session.connectAttempts < MaxConnectAttempts
    BY HandshakeAssumption DEF Session
  <1>2. c \in Counts /\ open[s] \in BOOLEAN /\ TypeOK
    <2>1. TypeOK /\ count \in Counts
      BY DEF IInv, TypeOK, Counts
    <2>2. c \in Counts
      BY <2>1, CountsGrow
    <2>3. open[s] \in BOOLEAN
      BY <2>1, Zenon DEF TypeOK
    <2> QED
      BY <2>1, <2>2, <2>3
  <1>3. SendConnectMessage(s, session, c, open[s])
    BY DEF ClientConnected
  <1>4. /\ clients' \in [Servers -> Session \cup {none}]
        /\ clients'[s] \in Session
        /\ \A x \in Servers \ {s} : clients'[x] = clients[x]
        /\ toClient' \in [Servers -> Seq(Tickets)]
        /\ open' \in [Servers -> BOOLEAN]
        /\ count' \in Counts
    <2> HIDE DEF session, c
    <2> QED
      BY <1>1, <1>2, <1>3, Attempt
  <1>5. UNCHANGED <<serverEvents, subscribed, clientVars, toServer, request, failed>>
    BY DEF ClientConnected
  <1>6. TypeOK'
    BY <1>4, <1>5 DEF IInv, TypeOK, Counts, clientVars, Held
  <1>7. LastIsUnsubscribe'
    BY <1>4, <1>5, NoneAssumption, ServerKept DEF IInv
  <1> QED
    BY <1>5, <1>6, <1>7, ClientKept DEF IInv, clientVars

LEMMA RetryKeeps ==
    ASSUME IInv, NEW s \in Servers, Retry(s)
    PROVE  IInv'
  <1>1. clients[s] \in Session /\ clients[s].connectAttempts < MaxConnectAttempts
    BY DEF IInv, TypeOK, Retry, Pending
  <1>2. count \in Counts /\ open[s] \in BOOLEAN /\ TypeOK
    BY DEF IInv, TypeOK, Counts
  <1>3. SendConnectMessage(s, clients[s], count, open[s])
    BY DEF Retry
  <1>4. /\ clients' \in [Servers -> Session \cup {none}]
        /\ clients'[s] \in Session
        /\ \A x \in Servers \ {s} : clients'[x] = clients[x]
        /\ toClient' \in [Servers -> Seq(Tickets)]
        /\ open' \in [Servers -> BOOLEAN]
        /\ count' \in Counts
    BY <1>1, <1>2, <1>3, Attempt
  <1>5. UNCHANGED <<serverEvents, subscribed, clientVars, toServer, request, failed>>
    BY DEF Retry
  <1>6. TypeOK'
    BY <1>4, <1>5 DEF IInv, TypeOK, Counts, clientVars, Held
  <1>7. LastIsUnsubscribe'
    BY <1>4, <1>5, NoneAssumption, ServerKept DEF IInv
  <1> QED
    BY <1>5, <1>6, <1>7, ClientKept DEF IInv, clientVars

LEMMA DisconnectedKeeps ==
    ASSUME IInv, NEW s \in Servers, ClientDisconnected(s)
    PROVE  IInv'
  <1>1. Append(serverEvents[s], "unsubscribe") \in Seq(Event)
    BY QueueTypes DEF IInv, TypeOK, Event
  <1>2. TypeOK'
    <2>1. serverEvents' \in [Servers -> Seq(Event)]
      BY <1>1 DEF ClientDisconnected, IInv, TypeOK, Event
    <2>2. clients' \in [Servers -> Session \cup {none}]
      BY DEF ClientDisconnected, IInv, TypeOK
    <2>3. toServer' \in [Servers -> Seq(NetMessage)]
      BY DEF ClientDisconnected, IInv, TypeOK
    <2>4. open' \in [Servers -> BOOLEAN] /\ request' \in [Servers -> BOOLEAN]
      BY DEF ClientDisconnected, IInv, TypeOK
    <2> QED
      BY <2>1, <2>2, <2>3, <2>4 DEF ClientDisconnected, IInv, TypeOK, clientVars, Held, Event
  <1>3. LastIsUnsubscribe'
    <2> SUFFICES ASSUME NEW x \in Servers, clients'[x] = none
                 PROVE  IF serverEvents'[x] = <<>> THEN ~subscribed'[x]
                        ELSE serverEvents'[x][Len(serverEvents'[x])] = "unsubscribe"
      BY DEF LastIsUnsubscribe
    <2>1. CASE x = s
      <3>1. serverEvents'[x] = Append(serverEvents[s], "unsubscribe")
        BY <2>1 DEF ClientDisconnected, IInv, TypeOK
      <3>2. serverEvents[s] \in Seq(Event) /\ "unsubscribe" \in Event
        BY DEF IInv, TypeOK, Event
      <3> QED
        BY <3>1, <3>2, QueueEnds
    <2>2. CASE x # s
      BY <2>2 DEF ClientDisconnected, IInv, TypeOK, LastIsUnsubscribe
    <2> QED
      BY <2>1, <2>2
  <1> QED
    BY <1>2, <1>3, ClientKept DEF ClientDisconnected, IInv, clientVars

LEMMA ReceiveMessageKeeps ==
    ASSUME IInv, NEW s \in Servers, ReceiveMessage(s)
    PROVE  IInv'
  <1> DEFINE m == Head(toServer[s])
  <1>1. m \in NetMessage /\ Tail(toServer[s]) \in Seq(NetMessage)
    BY QueueTypes DEF IInv, TypeOK, ReceiveMessage
  <1>2. Append(serverEvents[s], m) \in Seq(Event)
    BY <1>1, QueueTypes DEF IInv, TypeOK, Event
  <1>3. toServer' \in [Servers -> Seq(NetMessage)]
    BY <1>1 DEF ReceiveMessage, IInv, TypeOK
  <1>4. /\ clients' \in [Servers -> Session \cup {none}]
        /\ \A x \in Servers : clients'[x] = none => clients[x] = none
        /\ \A x \in Servers : clients[x] = none => UNCHANGED <<serverEvents[x], subscribed[x]>>
        /\ serverEvents' \in [Servers -> Seq(Event)]
    <2>1. CASE clients[s] = none
      BY <2>1 DEF ReceiveMessage, IInv, TypeOK, Event
    <2>2. CASE clients[s] # none
      <3> DEFINE has == clients[s].hasSOCache \/ m = "socache"
      <3>1. clients' = [clients EXCEPT ![s] = [clients[s] EXCEPT !.hasSOCache = has]]
        BY <2>2 DEF ReceiveMessage, IInv, TypeOK
      <3>2. [clients[s] EXCEPT !.hasSOCache = has] \in Session
        BY <2>2, SessionAcknowledged DEF IInv, TypeOK
      <3>3. serverEvents' = [serverEvents EXCEPT ![s] = Append(@, m)]
        BY <2>2 DEF ReceiveMessage
      <3>4. subscribed' = subscribed
        BY DEF ReceiveMessage
      <3> DEFINE next == [clients[s] EXCEPT !.hasSOCache = has]
      <3> HIDE DEF m, has, next
      <3>5. clients' = [clients EXCEPT ![s] = next] /\ next \in Session
        BY <3>1, <3>2 DEF next
      <3> QED
        BY <1>2, <2>2, <3>3, <3>4, <3>5, NoneAssumption DEF IInv, TypeOK, Event
    <2> QED
      BY <2>1, <2>2
  <1>5. TypeOK'
    BY <1>3, <1>4 DEF ReceiveMessage, IInv, TypeOK, clientVars, Held, Event
  <1>6. LastIsUnsubscribe'
    BY <1>4 DEF IInv, LastIsUnsubscribe
  <1> QED
    BY <1>5, <1>6, ClientKept DEF ReceiveMessage, IInv, clientVars

LEMMA SessionRequestKeeps ==
    ASSUME IInv, NEW s \in Servers, HandleSessionRequest(s)
    PROVE  IInv'
  <1>1. /\ UNCHANGED <<serverEvents, subscribed, tickets, serverSteamId, outbox, used, failed>>
        /\ request' \in [Servers -> BOOLEAN]
    BY DEF HandleSessionRequest, IInv, TypeOK, clientVars
  <1>2. /\ clients' \in [Servers -> Session \cup {none}]
        /\ \A x \in Servers : clients'[x] = none => clients[x] = none
        /\ toClient' \in [Servers -> Seq(Tickets)]
        /\ toServer' \in [Servers -> Seq(NetMessage)]
        /\ open' \in [Servers -> BOOLEAN]
        /\ count' \in Counts
    <2>1. CASE clients[s] = none
      <3>1. /\ toServer' = [toServer EXCEPT ![s] = <<>>]
            /\ UNCHANGED <<clients, toClient, open, count>>
        BY <2>1 DEF HandleSessionRequest
      <3>2. toServer' \in [Servers -> Seq(NetMessage)]
        BY <3>1 DEF IInv, TypeOK
      <3> QED
        BY <3>1, <3>2 DEF IInv, TypeOK, Counts
    <2>2. CASE clients[s] # none /\ Pending(s)
      <3>1. clients[s] \in Session /\ clients[s].connectAttempts < MaxConnectAttempts
        BY <2>2 DEF IInv, TypeOK, Pending
      <3>2. count \in Counts /\ TRUE \in BOOLEAN /\ TypeOK
        BY DEF IInv, TypeOK, Counts
      <3>3. SendConnectMessage(s, clients[s], count, TRUE) /\ toServer' = toServer
        BY <2>2 DEF HandleSessionRequest
      <3>4. /\ clients' \in [Servers -> Session \cup {none}]
            /\ clients'[s] \in Session
            /\ \A x \in Servers \ {s} : clients'[x] = clients[x]
            /\ toClient' \in [Servers -> Seq(Tickets)]
            /\ open' \in [Servers -> BOOLEAN]
            /\ count' \in Counts
        BY <3>1, <3>2, <3>3, Attempt
      <3> QED
        BY <3>3, <3>4, NoneAssumption DEF IInv, TypeOK
    <2>3. CASE clients[s] # none /\ ~Pending(s)
      BY <2>3 DEF HandleSessionRequest, IInv, TypeOK, Counts
    <2> QED
      BY <2>1, <2>2, <2>3
  <1>3. TypeOK'
    BY <1>1, <1>2 DEF IInv, TypeOK, Counts, Held
  <1> QED
    BY <1>1, <1>2, <1>3, ServerKept, ClientKept DEF IInv

LEMMA SessionFailedKeeps ==
    ASSUME IInv, NEW s \in Servers, HandleSessionFailed(s)
    PROVE  IInv'
  <1>1. /\ UNCHANGED <<serverEvents, subscribed, clientVars, toClient, toServer, open, request, count>>
        /\ failed' \in [Servers -> BOOLEAN]
    BY DEF HandleSessionFailed, IInv, TypeOK
  <1>2. /\ clients' \in [Servers -> Session \cup {none}]
        /\ \A x \in Servers : clients'[x] = none => clients[x] = none
    <2>1. CASE clients[s] = none
      BY <2>1 DEF HandleSessionFailed, IInv, TypeOK
    <2>2. CASE clients[s] # none
      <3>1. clients' = [clients EXCEPT ![s] = Restarted(clients[s])]
        BY <2>2 DEF HandleSessionFailed, IInv, TypeOK
      <3>2. Restarted(clients[s]) \in Session
        BY <2>2, SessionRestarted DEF IInv, TypeOK
      <3> QED
        BY <3>1, <3>2, <2>2, NoneAssumption DEF IInv, TypeOK
    <2> QED
      BY <2>1, <2>2
  <1>3. TypeOK'
    BY <1>1, <1>2 DEF IInv, TypeOK, clientVars, Held
  <1> QED
    BY <1>1, <1>2, <1>3, ServerKept, ClientKept DEF IInv, clientVars

LEMMA ServerEventKeeps ==
    ASSUME IInv, NEW s \in Servers, HandleServerEvent(s)
    PROVE  IInv'
  <1> DEFINE q == serverEvents[s]
  <1>0. PICK ignored \in {FALSE, Oversized} :
          subscribed' = [subscribed EXCEPT ![s] =
            CASE Head(q) = "socache" -> @ \/ ~ignored
              [] Head(q) = "unsubscribe" -> FALSE
              [] OTHER -> @]
    BY DEF HandleServerEvent
  <1> DEFINE now == CASE Head(q) = "socache" -> subscribed[s] \/ ~ignored
                      [] Head(q) = "unsubscribe" -> FALSE
                      [] OTHER -> subscribed[s]
  <1>1. q \in Seq(Event) /\ q # <<>> /\ subscribed[s] \in BOOLEAN
    BY DEF HandleServerEvent, IInv, TypeOK, Event
  <1>2. now \in BOOLEAN /\ (Head(q) = "unsubscribe" => now = FALSE)
    <2>1. CASE Head(q) = "socache"
      BY <2>1
    <2>2. CASE Head(q) = "unsubscribe"
      BY <2>2
    <2>3. CASE Head(q) # "socache" /\ Head(q) # "unsubscribe"
      <3>1. now = subscribed[s]
        BY <2>3
      <3> QED
        BY <1>1, <2>3, <3>1
    <2> QED
      BY <2>1, <2>2, <2>3
  <1>3. Tail(q) \in Seq(Event)
    BY <1>1, QueueTypes
  <1>4. /\ serverEvents' = [serverEvents EXCEPT ![s] = Tail(q)]
        /\ subscribed' = [subscribed EXCEPT ![s] = now]
        /\ UNCHANGED <<clients, clientVars, netVars, count>>
    <2>1. subscribed' = [subscribed EXCEPT ![s] = now]
      BY <1>0 DEF IInv, TypeOK
    <2> QED
      BY <2>1 DEF HandleServerEvent
  <1>5. TypeOK'
    <2> HIDE DEF q, now
    <2>1. serverEvents' \in [Servers -> Seq(Event)]
      BY <1>3, <1>4 DEF IInv, TypeOK, Event
    <2>2. subscribed' \in [Servers -> BOOLEAN]
      BY <1>2, <1>4 DEF IInv, TypeOK
    <2> QED
      BY <1>4, <2>1, <2>2 DEF IInv, TypeOK, Event, clientVars, netVars, Held
  <1>6. LastIsUnsubscribe'
    <2> SUFFICES ASSUME NEW x \in Servers, clients'[x] = none
                 PROVE  IF serverEvents'[x] = <<>> THEN ~subscribed'[x]
                        ELSE serverEvents'[x][Len(serverEvents'[x])] = "unsubscribe"
      BY DEF LastIsUnsubscribe
    <2>1. CASE x = s
      <3>1. q[Len(q)] = "unsubscribe"
        BY <1>1, <1>4, <2>1 DEF IInv, LastIsUnsubscribe
      <3>2. serverEvents'[x] = Tail(q) /\ subscribed'[x] = now
        <4> HIDE DEF q, now
        <4> QED
          BY <1>4, <2>1 DEF IInv, TypeOK
      <3>3. CASE Tail(q) = <<>>
        <4>1. Head(q) = "unsubscribe"
          BY <1>1, <3>1, <3>3, QueueEnds
        <4> HIDE DEF q, now
        <4> QED
          BY <1>2, <3>2, <3>3, <4>1
      <3>4. CASE Tail(q) # <<>>
        <4>1. Tail(q)[Len(Tail(q))] = "unsubscribe"
          BY <1>1, <3>1, <3>4, QueueEnds
        <4> HIDE DEF q, now
        <4> QED
          BY <3>2, <3>4, <4>1
      <3> QED
        BY <3>3, <3>4
    <2>2. CASE x # s
      <3>1. serverEvents'[x] = serverEvents[x] /\ subscribed'[x] = subscribed[x]
        <4> HIDE DEF q, now
        <4> QED
          BY <1>4, <2>2 DEF IInv, TypeOK
      <3> QED
        BY <1>4, <3>1 DEF IInv, LastIsUnsubscribe
    <2> QED
      BY <2>1, <2>2
  <1> QED
    BY <1>4, <1>5, <1>6, ClientKept DEF IInv, clientVars

-------------------------------------------------------------------------------
LEMMA SetAuthTicketKeeps ==
    ASSUME IInv, NEW t \in Tickets, SetAuthTicket(t)
    PROVE  IInv'
  <1>1. /\ t \notin Held
        /\ used' = used \cup {t}
        /\ UNCHANGED <<serverVars, serverSteamId, outbox, netVars, count>>
    BY DEF SetAuthTicket, IInv, TypeOK
  <1>2. /\ Held' = Held \cup {t}
        /\ \A h \in Held : tickets'[h] = tickets[h]
        /\ tickets'[t] = none
        /\ tickets' = [h \in Held' |-> tickets'[h]]
    BY <1>1 DEF SetAuthTicket, Held
  <1>3. ClientTypes'
    BY <1>1, <1>2 DEF IInv, TypeOK, ClientTypes
  <1>4. TypeOK'
    BY <1>1, <1>3 DEF IInv, TypeOK, ClientTypes, serverVars, netVars
  <1>5. CurrentServerPresentedTicket'
    BY <1>1, <1>2 DEF IInv, CurrentServerPresentedTicket
  <1> QED
    BY <1>1, <1>4, <1>5, ServerKept DEF IInv, serverVars

LEMMA ClearAuthTicketKeeps ==
    ASSUME IInv, NEW t \in Tickets, ClearAuthTicket(t)
    PROVE  IInv'
  <1>1. /\ UNCHANGED <<serverVars, outbox, used, toServer, open, request, failed, count>>
        /\ serverSteamId' = IF tickets[t] # none /\ tickets[t] = serverSteamId
                            THEN none ELSE serverSteamId
        /\ toClient' = [x \in Servers |-> IF x = tickets[t] THEN <<>> ELSE toClient[x]]
        /\ t \in Held
    BY DEF ClearAuthTicket
  <1>2. /\ Held' = Held \ {t}
        /\ \A h \in Held \ {t} : tickets'[h] = tickets[h]
        /\ tickets' = [h \in Held' |-> tickets'[h]]
    BY DEF ClearAuthTicket, Held
  <1>3. ClientTypes'
    BY <1>1, <1>2 DEF IInv, TypeOK, ClientTypes
  <1>4. toClient' \in [Servers -> Seq(Tickets)]
    BY <1>1 DEF IInv, TypeOK
  <1>5. TypeOK'
    BY <1>1, <1>3, <1>4 DEF IInv, TypeOK, ClientTypes, serverVars
  <1>6. CurrentServerPresentedTicket'
    BY <1>1, <1>2 DEF IInv, CurrentServerPresentedTicket
  <1> QED
    BY <1>1, <1>5, <1>6, ServerKept DEF IInv, serverVars

LEMMA ReceiveConnectKeeps ==
    ASSUME IInv, NEW s \in Servers, ReceiveConnect(s)
    PROVE  IInv'
  <1> DEFINE t == Head(toClient[s])
  <1>1. t \in Tickets /\ Tail(toClient[s]) \in Seq(Tickets)
    BY QueueTypes DEF IInv, TypeOK, ReceiveConnect
  <1>2. toClient' \in [Servers -> Seq(Tickets)]
    BY <1>1 DEF ReceiveConnect, IInv, TypeOK
  <1>3. UNCHANGED <<serverVars, used, toServer, open, request, failed, count>>
    BY DEF ReceiveConnect
  <1>4. CASE t \in Held
    <2>1. /\ tickets' = [tickets EXCEPT ![t] = s]
          /\ serverSteamId' = s
          /\ outbox' = Append(outbox, "socache")
      BY <1>4 DEF ReceiveConnect
    <2>2. outbox' \in Seq(NetMessage)
      BY <2>1, QueueTypes DEF IInv, TypeOK, NetMessage
    <2> HIDE DEF t
    <2>3. Held' = Held /\ tickets' \in [Held' -> Servers \cup {none}] /\ tickets'[t] = s
      BY <1>4, <2>1 DEF IInv, TypeOK, Held
    <2>4. ClientTypes'
      BY <1>3, <2>1, <2>2, <2>3 DEF IInv, TypeOK, ClientTypes
    <2>5. CurrentServerPresentedTicket'
      BY <1>4, <2>1, <2>3 DEF CurrentServerPresentedTicket
    <2> QED
      BY <1>2, <1>3, <2>4, <2>5, ServerKept DEF IInv, TypeOK, ClientTypes, serverVars
  <1>5. CASE t \notin Held
    <2>1. UNCHANGED <<tickets, serverSteamId, outbox>>
      BY <1>5 DEF ReceiveConnect
    <2> QED
      BY <1>2, <1>3, <2>1, ServerKept, ClientKept DEF IInv, TypeOK, serverVars, Held
  <1> QED
    BY <1>4, <1>5

LEMMA ItemUpdateKeeps ==
    ASSUME IInv, ItemUpdate
    PROVE  IInv'
  <1>1. outbox' \in Seq(NetMessage)
    BY QueueTypes DEF IInv, TypeOK, ItemUpdate, NetMessage
  <1>2. count' \in Counts
    BY CountsGrow DEF IInv, TypeOK, ItemUpdate, Counts
  <1>3. UNCHANGED <<serverVars, tickets, serverSteamId, used, netVars>>
    BY DEF ItemUpdate
  <1> QED
    BY <1>1, <1>2, <1>3, ServerKept, ClientKept DEF IInv, TypeOK, Counts, Held, serverVars, netVars

LEMMA DrainOutboxKeeps ==
    ASSUME IInv, DrainOutbox
    PROVE  IInv'
  <1>1. /\ outbox' = Tail(outbox)
        /\ UNCHANGED <<serverVars, tickets, serverSteamId, used, toClient, open, failed>>
    BY DEF DrainOutbox
  <1>2. outbox' \in Seq(NetMessage) /\ Head(outbox) \in NetMessage
    BY QueueTypes DEF IInv, TypeOK, DrainOutbox
  <1>3. /\ toServer' \in [Servers -> Seq(NetMessage)]
        /\ request' \in [Servers -> BOOLEAN]
        /\ count' \in Counts
    <2> DEFINE s == serverSteamId
    <2>1. CASE \/ s = none
               \/ s # none /\ UNCHANGED <<toServer, request, count>>
      BY <2>1 DEF DrainOutbox, IInv, TypeOK, Counts
    <2>2. CASE /\ s # none
               /\ toServer' = [toServer EXCEPT ![s] = Append(@, Head(outbox))]
               /\ request' = [request EXCEPT ![s] = ~open[s]]
               /\ UNCHANGED count
      <3>1. s \in Servers
        BY <2>2 DEF IInv, TypeOK
      <3>2. Append(toServer[s], Head(outbox)) \in Seq(NetMessage)
        BY <1>2, <3>1, QueueTypes DEF IInv, TypeOK
      <3> QED
        BY <2>2, <3>1, <3>2 DEF IInv, TypeOK, Counts
    <2>3. CASE /\ s # none
               /\ count' = [count EXCEPT !.refused = @ + 1]
               /\ UNCHANGED <<toServer, request>>
      BY <2>3, CountsGrow DEF IInv, TypeOK, Counts
    <2> QED
      BY <2>1, <2>2, <2>3 DEF DrainOutbox
  <1> QED
    BY <1>1, <1>2, <1>3, ServerKept, ClientKept DEF IInv, TypeOK, Counts, Held, serverVars

LEMMA SessionBreaksKeeps ==
    ASSUME IInv, NEW s \in Servers, SessionBreaks(s)
    PROVE  IInv'
  <1>1. count' \in Counts
    BY CountsGrow DEF IInv, TypeOK, SessionBreaks, Counts
  <1>2. NetTypes'
    BY DEF IInv, TypeOK, SessionBreaks, NetTypes
  <1>3. UNCHANGED <<serverVars, clientVars>>
    BY DEF SessionBreaks
  <1> QED
    BY <1>1, <1>2, <1>3, ServerKept, ClientKept DEF IInv, TypeOK, NetTypes, Counts, Held,
       serverVars, clientVars

LEMMA TickKeeps ==
    ASSUME IInv, Tick
    PROVE  IInv'
  <1>1. UNCHANGED <<serverEvents, subscribed, clientVars, netVars, count>>
    BY DEF Tick
  <1>2. \A s \in Servers :
          /\ clients'[s] \in Session \cup {none}
          /\ clients'[s] = none => clients[s] = none
    <2> SUFFICES ASSUME NEW s \in Servers
                 PROVE  /\ clients'[s] \in Session \cup {none}
                        /\ clients'[s] = none => clients[s] = none
      OBVIOUS
    <2>1. CASE s \in Waiting
      <3>1. clients[s] \in Session /\ clients[s].wait > 0
        BY <2>1 DEF Waiting, Pending, IInv, TypeOK
      <3>2. clients'[s] = [clients[s] EXCEPT !.wait = @ - 1]
        BY <2>1 DEF Tick
      <3> QED
        BY <3>1, <3>2, SessionWaits, NoneAssumption
    <2>2. CASE s \notin Waiting
      BY <2>2 DEF Tick, IInv, TypeOK
    <2> QED
      BY <2>1, <2>2
  <1>3. clients' \in [Servers -> Session \cup {none}]
    <2>1. clients' = [s \in Servers |-> clients'[s]]
      BY DEF Tick
    <2> QED
      BY <1>2, <2>1
  <1> QED
    BY <1>1, <1>2, <1>3, ServerKept, ClientKept DEF IInv, TypeOK, Held, clientVars, netVars

LEMMA NextIInv == IInv /\ [Next]_vars => IInv'
  <1> SUFFICES ASSUME IInv, [Next]_vars PROVE IInv'
    OBVIOUS
  <1>1. CASE UNCHANGED vars
    BY <1>1, ServerKept, ClientKept DEF IInv, TypeOK, Held, vars, serverVars, clientVars, netVars
  <1>2. CASE Next
    BY <1>2, ConnectedKeeps, DisconnectedKeeps, RetryKeeps, ReceiveMessageKeeps,
       SessionRequestKeeps, SessionFailedKeeps, ServerEventKeeps, SetAuthTicketKeeps,
       ClearAuthTicketKeeps, ReceiveConnectKeeps, ItemUpdateKeeps, DrainOutboxKeeps,
       SessionBreaksKeeps, TickKeeps DEF Next, ServerStep
  <1> QED
    BY <1>1, <1>2

LEMMA Invariance == Spec => []IInv
  BY InitIInv, NextIInv, PTL DEF Spec

-------------------------------------------------------------------------------
\* The player's items go only to a server that presented a ticket the game still
\* holds (networking_client.cpp:61-73, 101, 160-177).
THEOREM ItemsGoToTicketHolder == Spec => []CurrentServerPresentedTicket
  <1>1. IInv => CurrentServerPresentedTicket
    BY DEF IInv
  <1> QED
    BY <1>1, Invariance, PTL

\* Nothing is left of a player who is gone once the ServerGC has handled what it
\* was told (networking_server.cpp:41-47, steam_hook.cpp:1202-1205).
THEOREM NoGhost == Spec => []NoGhostSubscription
  <1>1. IInv => NoGhostSubscription
    BY DEF IInv, LastIsUnsubscribe, NoGhostSubscription
  <1> QED
    BY <1>1, Invariance, PTL

-------------------------------------------------------------------------------
\* One step's part of BudgetRenewal, for one server.
Renewal(s) ==
    /\ clients[s] # none /\ clients'[s] # none
    /\ clients'[s].connectAttempts < clients[s].connectAttempts
    => clients[s].hasSOCache \/ count'.connects > count.connects

\* A step that does not touch the sessions, or leaves their attempts alone.
LEMMA SameAttempts ==
    ASSUME TypeOK,
           NEW s \in Servers,
           clients[s] # none => clients'[s].connectAttempts = clients[s].connectAttempts
    PROVE  Renewal(s)
  <1>1. CASE clients[s] = none
    BY <1>1 DEF Renewal
  <1>2. CASE clients[s] # none
    <2>1. clients[s].connectAttempts \in Nat
      BY <1>2 DEF TypeOK, Session
    <2> QED
      BY <1>2, <2>1 DEF Renewal
  <1> QED
    BY <1>1, <1>2

\* An attempt for server s renews nothing, for s or another server, unless it
\* begins a new session.
LEMMA AttemptRenews ==
    ASSUME TypeOK, NEW s \in Servers, NEW session \in Session,
           session.connectAttempts < MaxConnectAttempts,
           NEW c \in Counts, NEW up \in BOOLEAN,
           SendConnectMessage(s, session, c, up),
           session = clients[s] \/ c.connects > count.connects
    PROVE  \A x \in Servers : Renewal(x)
  <1>1. /\ clients'[s].connectAttempts = session.connectAttempts + 1
        /\ \A x \in Servers \ {s} : clients'[x] = clients[x]
        /\ count'.connects = c.connects
    BY Attempt
  <1> SUFFICES ASSUME NEW x \in Servers PROVE Renewal(x)
    OBVIOUS
  <1>2. CASE x # s
    BY <1>1, <1>2, SameAttempts
  <1>3. CASE x = s /\ c.connects > count.connects
    BY <1>1, <1>3 DEF Renewal
  <1>4. CASE x = s /\ session = clients[s]
    <2>1. session.connectAttempts \in Nat
      BY DEF Session
    <2> QED
      BY <1>1, <1>4, <2>1 DEF Renewal
  <1> QED
    BY <1>2, <1>3, <1>4

\* The attempts already made are forgotten only by a new auth session or after the
\* handshake succeeded (networking_server.cpp:282-289, 166-175).
THEOREM BudgetKept == Spec => BudgetRenewal
  <1>1. ASSUME IInv, [Next]_vars PROVE [\A s \in Servers : Renewal(s)]_vars
    <2>1. TypeOK
      BY <1>1 DEF IInv
    <2>2. ASSUME UNCHANGED clients PROVE \A s \in Servers : Renewal(s)
      BY <2>1, <2>2, SameAttempts
    <2>3. ASSUME NEW s \in Servers, NEW t \in Tickets, ClientConnected(s, t)
          PROVE  \A x \in Servers : Renewal(x)
      <3> DEFINE session == [ticket |-> t, connectAttempts |-> 0, wait |-> 0,
                             hasSOCache |-> FALSE]
                 c == [count EXCEPT !.connects = @ + 1]
      <3>1. session \in Session /\ session.connectAttempts < MaxConnectAttempts
        BY HandshakeAssumption DEF Session
      <3>2. c \in Counts /\ c.connects > count.connects
        <4>1. count \in Counts
          BY <2>1 DEF TypeOK, Counts
        <4> QED
          BY <4>1, CountsGrow DEF Counts
      <3>3. open[s] \in BOOLEAN
        BY <2>1, Zenon DEF TypeOK
      <3>4. SendConnectMessage(s, session, c, open[s])
        BY <2>3 DEF ClientConnected
      <3> HIDE DEF session, c
      <3> QED
        BY <2>1, <3>1, <3>2, <3>3, <3>4, AttemptRenews
    <2>4. ASSUME NEW s \in Servers, NEW up \in BOOLEAN, clients[s] # none, Pending(s),
                 SendConnectMessage(s, clients[s], count, up)
          PROVE  \A x \in Servers : Renewal(x)
      <3>1. clients[s] \in Session /\ clients[s].connectAttempts < MaxConnectAttempts
        BY <2>1, <2>4 DEF TypeOK, Pending
      <3>2. count \in Counts
        BY <2>1 DEF TypeOK, Counts
      <3> QED
        BY <2>1, <2>4, <3>1, <3>2, AttemptRenews
    <2>5. ASSUME NEW s \in Servers, Retry(s) PROVE \A x \in Servers : Renewal(x)
      <3>1. open[s] \in BOOLEAN
        BY <2>1, Zenon DEF TypeOK
      <3> QED
        BY <2>4, <2>5, <3>1 DEF Retry, Pending
    <2>6. ASSUME NEW s \in Servers, HandleSessionRequest(s)
          PROVE  \A x \in Servers : Renewal(x)
      <3>1. CASE clients[s] # none /\ Pending(s)
        BY <2>4, <2>6, <3>1 DEF HandleSessionRequest
      <3>2. CASE clients[s] = none \/ ~Pending(s)
        BY <2>2, <2>6, <3>2 DEF HandleSessionRequest
      <3> QED
        BY <3>1, <3>2
    <2>7. ASSUME NEW s \in Servers, HandleSessionFailed(s)
          PROVE  \A x \in Servers : Renewal(x)
      <3>1. CASE clients[s] = none
        BY <2>2, <2>7, <3>1 DEF HandleSessionFailed
      <3>2. CASE clients[s] # none
        <4>1. clients' = [clients EXCEPT ![s] = Restarted(clients[s])]
          BY <2>7, <3>2, <2>1 DEF HandleSessionFailed, TypeOK
        <4> SUFFICES ASSUME NEW x \in Servers PROVE Renewal(x)
          OBVIOUS
        <4>2. CASE x = s
          <5>1. clients'[x] = Restarted(clients[x])
            BY <4>1, <4>2, <2>1 DEF TypeOK
          <5>2. clients[x] \in Session
            BY <3>2, <4>2, <2>1 DEF TypeOK
          <5> QED
            BY <5>1, <5>2, SessionRestarted DEF Renewal
        <4>3. CASE x # s
          BY <4>1, <4>3, <2>1, SameAttempts DEF TypeOK
        <4> QED
          BY <4>2, <4>3
      <3> QED
        BY <3>1, <3>2
    <2>8. ASSUME NEW s \in Servers, ClientDisconnected(s)
          PROVE  \A x \in Servers : Renewal(x)
      <3> SUFFICES ASSUME NEW x \in Servers PROVE Renewal(x)
        OBVIOUS
      <3>1. CASE x = s
        BY <2>1, <2>8, <3>1 DEF ClientDisconnected, TypeOK, Renewal
      <3>2. CASE x # s
        BY <2>1, <2>8, <3>2, SameAttempts DEF ClientDisconnected, TypeOK
      <3> QED
        BY <3>1, <3>2
    <2>9. ASSUME NEW s \in Servers, ReceiveMessage(s)
          PROVE  \A x \in Servers : Renewal(x)
      <3>1. CASE clients[s] = none
        BY <2>2, <2>9, <3>1 DEF ReceiveMessage
      <3>2. CASE clients[s] # none
        <4> DEFINE has == clients[s].hasSOCache \/ Head(toServer[s]) = "socache"
                   next == [clients[s] EXCEPT !.hasSOCache = has]
        <4>1. clients' = [clients EXCEPT ![s] = next]
          BY <2>9, <3>2, <2>1 DEF ReceiveMessage, TypeOK
        <4>2. next.connectAttempts = clients[s].connectAttempts
          BY <3>2, <2>1 DEF TypeOK, Session
        <4> SUFFICES ASSUME NEW x \in Servers PROVE Renewal(x)
          OBVIOUS
        <4> HIDE DEF next
        <4>3. clients'[x].connectAttempts = clients[x].connectAttempts
          BY <4>1, <4>2, <2>1 DEF TypeOK
        <4> QED
          BY <4>3, <2>1, SameAttempts
      <3> QED
        BY <3>1, <3>2
    <2>10. ASSUME Tick PROVE \A x \in Servers : Renewal(x)
      <3> SUFFICES ASSUME NEW x \in Servers PROVE Renewal(x)
        OBVIOUS
      <3>1. CASE x \in Waiting
        <4>1. clients[x] \in Session /\ clients[x].wait > 0
          BY <3>1, <2>1 DEF Waiting, Pending, TypeOK
        <4>2. clients'[x] = [clients[x] EXCEPT !.wait = @ - 1]
          BY <2>10, <3>1 DEF Tick
        <4> QED
          BY <4>1, <4>2, <2>1, SessionWaits, SameAttempts
      <3>2. CASE x \notin Waiting
        BY <2>10, <3>2, <2>1, SameAttempts DEF Tick
      <3> QED
        BY <3>1, <3>2
    <2>11. ASSUME NEW s \in Servers, ReceiveConnect(s) \/ SessionBreaks(s) \/ HandleServerEvent(s)
           PROVE  UNCHANGED clients
      BY <2>11 DEF ReceiveConnect, SessionBreaks, HandleServerEvent, serverVars
    <2>12. ASSUME NEW t \in Tickets, SetAuthTicket(t) \/ ClearAuthTicket(t)
           PROVE  UNCHANGED clients
      BY <2>12 DEF SetAuthTicket, ClearAuthTicket, serverVars
    <2>13. ASSUME ItemUpdate \/ DrainOutbox PROVE UNCHANGED clients
      BY <2>13 DEF ItemUpdate, DrainOutbox, serverVars
    <2>14. CASE UNCHANGED vars
      BY <2>14
    <2>15. CASE Next
      <3>1. \A s \in Servers : Renewal(s)
        BY <2>15, <2>2, <2>3, <2>5, <2>6, <2>7, <2>8, <2>9, <2>10, <2>11, <2>12, <2>13
           DEF Next, ServerStep
      <3> QED
        BY <3>1
    <2> QED
      BY <1>1, <2>14, <2>15
  <1>2. [\A s \in Servers : Renewal(s)]_vars <=>
        [\A s \in Servers :
           /\ clients[s] # none /\ clients'[s] # none
           /\ clients'[s].connectAttempts < clients[s].connectAttempts
           => clients[s].hasSOCache \/ count'.connects > count.connects]_vars
    BY DEF Renewal
  <1> QED
    BY <1>1, <1>2, Invariance, PTL DEF Spec, BudgetRenewal
===============================================================================

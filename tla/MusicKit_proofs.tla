---------------------------- MODULE MusicKit_proofs ----------------------------
(* For any number of players, kits, user ids and messages: the types, that no entry
   of the index by user id outlives the state it was stored with, and that the count
   on the server is that of the kit in the slot.  For the last, each player's messages on
   the way are followed: which of them decides what the server ends with (LastWord), what
   it then says of the kit (Says, Shows), and whether the end of a connection that is
   still to be handled takes it back (Settles). *)
EXTENDS MusicKit, SequenceTheorems, TLAPS

\* The kit in the slot is in the inventory.
InSlot == \A p \in Players : equipped[p] # none => equipped[p] \in Owned(p)

IInv == TypeOK /\ InSlot

-------------------------------------------------------------------------------
(* The messages of the client.                                             *)

LEMMA Concat ==
    ASSUME NEW S, NEW s \in Seq(S), NEW t \in Seq(S)
    PROVE  s \o t \in Seq(S)
  OBVIOUS

LEMMA StatesTyped ==
    ASSUME NEW u \in {0} \cup UserId, NEW n \in -1..MaxMVPs, gate \in BOOLEAN
    PROVE  States(u, n) \in Seq(Message)
  <1> DEFINE m == State(u, IF gate THEN n ELSE -1)
  <1>1. CASE u > 0
    <2>1. m \in StateMessage
      BY <1>1, MusicKitAssumption DEF State, StateMessage, UserId
    <2>2. <<"state", m>> \in Message
      BY <2>1 DEF Message
    <2> QED BY <1>1, <2>2 DEF States
  <1>2. CASE ~(u > 0)
    BY <1>2 DEF States
  <1> QED BY <1>1, <1>2

LEMMA ItemsTyped ==
    ASSUME NEW counts \in Inventory, NEW kit, kit # none => kit \in DOMAIN counts, NEW e \in BOOLEAN
    PROVE  Items(counts, kit, e) \in Seq(Message)
  <1>1. CASE kit = none
    BY <1>1 DEF Items
  <1>2. CASE kit # none
    <2>1. Item(kit, e, counts[kit]) \in ItemMessage
      BY <1>2 DEF Item, ItemMessage, Inventory
    <2>2. <<"item", Item(kit, e, counts[kit])>> \in Message
      BY <2>1 DEF Message
    <2> QED BY <1>2, <2>2 DEF Items
  <1> QED BY <1>1, <1>2

LEMMA PostTyped ==
    ASSUME NEW p \in Players, NEW messages \in Seq(Message),
           link \in [Players -> Seq(Message)], Post(p, messages)
    PROVE  (link \in [Players -> Seq(Message)])'
  <1>1. link[p] \o messages \in Seq(Message)
    OBVIOUS
  <1> QED BY <1>1 DEF Post

LEMMA CountTyped ==
    ASSUME NEW counts \in Inventory, NEW kit, kit # none => kit \in DOMAIN counts
    PROVE  FromInventory(counts, kit) \in -1..MaxMVPs
  BY MusicKitAssumption DEF FromInventory, Inventory

\* What a handler leaves that refreshes the cache.
LEMMA RefreshedTyped ==
    ASSUME IInv, NEW p \in Players, NEW counts \in Inventory,
           NEW kit \in Kits \cup {none}, kit # none => kit \in DOMAIN counts,
           NEW items \in Seq(Message), Refreshed(p, counts, kit, items)
    PROVE  IInv'
  <1> DEFINE n == FromInventory(counts, kit)
  <1>1. n \in -1..MaxMVPs
    BY CountTyped
  <1>2. States(localUser[p], n) \in Seq(Message)
    BY <1>1, StatesTyped DEF IInv, TypeOK
  <1>3. States(localUser[p], n) \o items \in Seq(Message)
    BY <1>2
  <1>4. (link \in [Players -> Seq(Message)])'
    BY <1>3, PostTyped DEF IInv, TypeOK, Refreshed
  <1>5. (cached \in [Players -> -1..MaxMVPs])'
    BY <1>1 DEF IInv, TypeOK, Refreshed
  <1>6. (equipped \in [Players -> Kits \cup {none}])'
    BY DEF IInv, TypeOK, Refreshed
  <1>7. (mvps \in [Players -> Inventory])' /\ InSlot'
    BY DEF IInv, TypeOK, Refreshed, InSlot, Owned
  <1>8. changes' \in Nat
    BY DEF IInv, TypeOK, Refreshed, Change
  <1> QED BY <1>4, <1>5, <1>6, <1>7, <1>8 DEF IInv, TypeOK, InSlot, Refreshed, serverVars

-------------------------------------------------------------------------------
(* The steps of a player and of the connection.                            *)

LEMMA HandlersTyped ==
    ASSUME IInv, NEW p \in Players, NEW k \in Kits,
           Equip(p, k) \/ IncrementKillCountAttribute(p, k)
    PROVE  IInv'
  <1> DEFINE old == Items(mvps[p], equipped[p], FALSE)
  <1>1. /\ mvps[p] \in Inventory
        /\ equipped[p] \in Kits \cup {none}
        /\ equipped[p] # none => equipped[p] \in DOMAIN mvps[p]
    BY DEF IInv, TypeOK, InSlot, Owned
  <1>2. old \in Seq(Message)
    BY <1>1, ItemsTyped
  <1>3. CASE Equip(p, k)
    <2>1. k \in DOMAIN mvps[p]
      BY <1>3 DEF Equip, Owned
    <2>2. Items(mvps[p], k, TRUE) \in Seq(Message)
      BY <1>1, <2>1, ItemsTyped
    <2>3. old \o Items(mvps[p], k, TRUE) \in Seq(Message)
      <3> HIDE DEF old
      <3> QED BY <1>2, <2>2, Concat
    <2>4. Refreshed(p, mvps[p], k, old \o Items(mvps[p], k, TRUE))
      BY <1>3 DEF Equip
    <2> HIDE DEF old
    <2> QED BY <1>1, <2>1, <2>3, <2>4, RefreshedTyped
  <1>4. CASE IncrementKillCountAttribute(p, k)
    <2> DEFINE counts == [mvps[p] EXCEPT ![k] = @ + 1]
               items == IF equipped[p] = k THEN Items(counts, k, TRUE) ELSE <<>>
    <2>1. PICK owned \in SUBSET Kits : mvps[p] \in [owned -> 0..MaxMVPs]
      BY <1>1 DEF Inventory
    <2>2. k \in owned /\ mvps[p][k] \in 0..MaxMVPs /\ mvps[p][k] < MaxMVPs
      BY <1>4, <2>1 DEF IncrementKillCountAttribute, Owned
    <2>3. mvps[p][k] + 1 \in 0..MaxMVPs
      BY <2>2, MusicKitAssumption
    <2>4. counts \in [owned -> 0..MaxMVPs]
      BY <2>1, <2>2, <2>3
    <2>5. counts \in Inventory /\ DOMAIN counts = DOMAIN mvps[p] /\ k \in DOMAIN counts
      BY <2>1, <2>2, <2>4 DEF Inventory
    <2>6. items \in Seq(Message)
      <3>1. Items(counts, k, TRUE) \in Seq(Message)
        <4> HIDE DEF counts
        <4> QED BY <2>5, ItemsTyped
      <3>2. <<>> \in Seq(Message)
        OBVIOUS
      <3> QED BY <3>1, <3>2, Zenon
    <2>7. Refreshed(p, counts, equipped[p], items)
      BY <1>4 DEF IncrementKillCountAttribute
    <2> HIDE DEF counts, items
    <2> QED BY <1>1, <2>5, <2>6, <2>7, RefreshedTyped
  <1> QED BY <1>3, <1>4

LEMMA RemoveItemTyped ==
    ASSUME IInv, NEW p \in Players, NEW k \in Kits, RemoveItem(p, k)
    PROVE  IInv'
  <1> DEFINE rest == [j \in Owned(p) \ {k} |-> mvps[p][j]]
             sent == IF equipped[p] = k THEN <<<<"item", Item(k, FALSE, 0)>>>> ELSE <<>>
  <1>1. rest \in Inventory
    <2>1. PICK owned \in SUBSET Kits : mvps[p] \in [owned -> 0..MaxMVPs]
      BY DEF IInv, TypeOK, Inventory
    <2>2. rest \in [owned \ {k} -> 0..MaxMVPs]
      BY <2>1 DEF Owned
    <2> QED BY <2>2 DEF Inventory
  <1>2. (mvps \in [Players -> Inventory])'
    BY <1>1 DEF IInv, TypeOK, RemoveItem
  <1>3. (equipped \in [Players -> Kits \cup {none}])'
    BY DEF IInv, TypeOK, RemoveItem
  <1>4. InSlot'
    BY MusicKitAssumption DEF IInv, TypeOK, InSlot, RemoveItem, Owned
  <1>5. Item(k, FALSE, 0) \in ItemMessage
    BY MusicKitAssumption DEF Item, ItemMessage
  <1>6. sent \in Seq(Message)
    <2>1. <<"item", Item(k, FALSE, 0)>> \in Message
      BY <1>5 DEF Message
    <2>2. <<<<"item", Item(k, FALSE, 0)>>>> \in Seq(Message)
      BY <2>1
    <2>3. <<>> \in Seq(Message)
      OBVIOUS
    <2> QED BY <2>2, <2>3, Zenon
  <1>7. (link \in [Players -> Seq(Message)])'
    BY <1>6, PostTyped DEF IInv, TypeOK, RemoveItem
  <1>8. changes' \in Nat
    BY DEF IInv, TypeOK, RemoveItem, Change
  <1> QED BY <1>2, <1>3, <1>4, <1>7, <1>8 DEF IInv, TypeOK, RemoveItem, serverVars

LEMMA DepositTyped ==
    ASSUME IInv, NEW p \in Players, DepositItemToStorage(p)
    PROVE  IInv'
  <1>1. Items(mvps[p], equipped[p], FALSE) \in Seq(Message)
    BY ItemsTyped DEF IInv, TypeOK, InSlot, Owned
  <1>2. (link \in [Players -> Seq(Message)])'
    BY <1>1, PostTyped DEF IInv, TypeOK, DepositItemToStorage
  <1>3. (equipped \in [Players -> Kits \cup {none}])' /\ InSlot'
    BY DEF IInv, TypeOK, InSlot, Owned, DepositItemToStorage
  <1>4. changes' \in Nat
    BY DEF IInv, TypeOK, DepositItemToStorage, Change
  <1> QED BY <1>2, <1>3, <1>4 DEF IInv, TypeOK, DepositItemToStorage, serverVars

LEMMA SessionsTyped ==
    ASSUME IInv, NEW p \in Players,
           \/ SyncLocalPlayerMusicKitState(p)
           \/ \E u \in UserId : PlaysElsewhere(p, u)
           \/ NewClient(p)
           \/ HandleSOCacheRequest(p)
    PROVE  IInv'
  <1>1. Change => changes' \in Nat
    BY DEF IInv, TypeOK, Change
  <1>2. CASE SyncLocalPlayerMusicKitState(p)
    <2>1. States(uid[p], cached[p]) \in Seq(Message)
      BY StatesTyped DEF IInv, TypeOK
    <2>2. (link \in [Players -> Seq(Message)])'
      BY <1>2, <2>1, PostTyped DEF IInv, TypeOK, SyncLocalPlayerMusicKitState
    <2>3. (localUser \in [Players -> {0} \cup UserId])'
      BY <1>2 DEF IInv, TypeOK, SyncLocalPlayerMusicKitState
    <2> QED BY <1>1, <1>2, <2>2, <2>3
            DEF IInv, TypeOK, InSlot, Owned, SyncLocalPlayerMusicKitState, serverVars
  <1>3. CASE \E u \in UserId : PlaysElsewhere(p, u)
    <2>1. (localUser \in [Players -> {0} \cup UserId])'
      BY <1>3 DEF IInv, TypeOK, PlaysElsewhere
    <2> QED BY <1>1, <1>3, <2>1 DEF IInv, TypeOK, InSlot, Owned, PlaysElsewhere, serverVars, netVars
  <1>4. CASE NewClient(p)
    <2>1. FromInventory(mvps[p], equipped[p]) \in -1..MaxMVPs
      BY CountTyped DEF IInv, TypeOK, InSlot, Owned
    <2>2. (localUser \in [Players -> {0} \cup UserId])' /\ (cached \in [Players -> -1..MaxMVPs])'
      BY <1>4, <2>1 DEF IInv, TypeOK, NewClient
    <2> QED BY <1>1, <1>4, <2>2 DEF IInv, TypeOK, InSlot, Owned, NewClient, serverVars, netVars
  <1>5. CASE HandleSOCacheRequest(p)
    <2>1. Items(mvps[p], equipped[p], TRUE) \in Seq(Message)
      BY ItemsTyped DEF IInv, TypeOK, InSlot, Owned
    <2>2. (link \in [Players -> Seq(Message)])'
      BY <1>5, <2>1, PostTyped DEF IInv, TypeOK, HandleSOCacheRequest
    <2> QED BY <1>1, <1>5, <2>2
            DEF IInv, TypeOK, InSlot, Owned, HandleSOCacheRequest, serverVars, clientVars
  <1> QED BY <1>2, <1>3, <1>4, <1>5

LEMMA ConnectionTyped ==
    ASSUME IInv, NEW p \in Players, Connect(p) \/ Disconnect(p) \/ Lose(p)
    PROVE  IInv'
  <1>1. ASSUME NEW n \in 0..Len(link[p])
        PROVE  SubSeq(link[p], 1, n) \in Seq(Message)
    BY DEF IInv, TypeOK
  <1>2. CASE Connect(p)
    <2>1. lastUid + 1 \in UserId
      BY <1>2, MusicKitAssumption DEF IInv, TypeOK, Connect, UserId
    <2>2. (uid \in [Players -> {0} \cup UserId])' /\ (lastUid \in 0..MaxUserId)'
      BY <1>2, <2>1 DEF IInv, TypeOK, Connect, UserId
    <2> QED BY <1>2, <2>2 DEF IInv, TypeOK, InSlot, Owned, Connect, clientVars, serverVars
  <1>3. CASE Disconnect(p)
    <2>1. PICK n \in 0..Len(link[p]) :
            link' = [link EXCEPT ![p] = Append(SubSeq(@, 1, n), <<"unsubscribe", none>>)]
      BY <1>3 DEF Disconnect
    <2>2. <<"unsubscribe", none>> \in Message
      BY DEF Message
    <2>3. Append(SubSeq(link[p], 1, n), <<"unsubscribe", none>>) \in Seq(Message)
      BY <1>1, <2>2
    <2>4. (link \in [Players -> Seq(Message)])'
      BY <2>1, <2>3 DEF IInv, TypeOK
    <2>5. (uid \in [Players -> {0} \cup UserId])' /\ (lost \in [Players -> Nat])'
      BY <1>3 DEF IInv, TypeOK, Disconnect
    <2> QED BY <1>3, <2>4, <2>5 DEF IInv, TypeOK, InSlot, Owned, Disconnect, clientVars, serverVars
  <1>4. CASE Lose(p)
    <2>1. PICK n \in 0 .. Len(link[p]) - 1 :
            /\ link' = [link EXCEPT ![p] = SubSeq(@, 1, n)]
            /\ lost' = [lost EXCEPT ![p] = n + 1]
      BY <1>4 DEF Lose
    <2>2. n \in 0..Len(link[p]) /\ n + 1 \in Nat
      BY DEF IInv, TypeOK
    <2>3. (link \in [Players -> Seq(Message)])'
      BY <1>1, <2>1, <2>2 DEF IInv, TypeOK
    <2>4. (lost \in [Players -> Nat])'
      BY <2>1, <2>2 DEF IInv, TypeOK
    <2>5. (changes \in Nat)'
      BY <1>4 DEF IInv, TypeOK, Lose, Change
    <2> QED BY <1>4, <2>3, <2>4, <2>5 DEF IInv, TypeOK, InSlot, Owned, Lose, clientVars, serverVars
  <1> QED BY <1>2, <1>3, <1>4

-------------------------------------------------------------------------------
(* The steps of the ServerGC.                                              *)

Tables == bySteam \in [Players -> Entry \cup {none}] /\ byUser \in [UserId -> Entry \cup {none}]

LEMMA KnownTyped ==
    ASSUME Tables, NEW p \in Players
    PROVE  KnownUser(p) \in {0} \cup UserId /\ KnownItem(p) \in Kits \cup {none}
  BY DEF Tables, Entry, KnownUser, KnownItem

LEMMA StoreTyped ==
    ASSUME Tables, NEW p \in Players, NEW u \in {0} \cup UserId,
           NEW k \in Kits \cup {none}, NEW n \in 0..MaxMVPs,
           StoreMusicKitStateLocked(p, u, k, n)
    PROVE  Tables'
  <1>1. [userId |-> u, itemId |-> k, mvps |-> n] \in Entry
    BY DEF Entry
  <1> QED BY <1>1 DEF Tables, StoreMusicKitStateLocked

LEMMA ForgetTyped ==
    ASSUME Tables, NEW p \in Players, ForgetMusicKitStateLocked(p)
    PROVE  Tables'
  BY DEF Tables, ForgetMusicKitStateLocked

\* What a message can do to the two indexes.
LEMMA HandleCases ==
    ASSUME IInv, NEW p \in Players, HandleEvent(p)
    PROVE  \/ \E u \in {0} \cup UserId, k \in Kits \cup {none}, n \in 0..MaxMVPs :
                StoreMusicKitStateLocked(p, u, k, n)
           \/ ForgetMusicKitStateLocked(p)
           \/ UNCHANGED serverVars
  <1> DEFINE type == Head(link[p])[1]
             m == Head(link[p])[2]
  <1>1. Head(link[p]) \in Message
    BY DEF IInv, TypeOK, HandleEvent
  <1>2. Tables
    BY DEF IInv, TypeOK, Tables
  <1>3. \/ type = "state" /\ UpdateMusicKitMVPState(p, m)
        \/ type = "item" /\ TrackMusicKitFromItem(p, m)
        \/ type = "unsubscribe" /\ ForgetMusicKitStateLocked(p)
    BY DEF HandleEvent
  <1>4. CASE type = "state" /\ UpdateMusicKitMVPState(p, m)
    <2>1. m \in StateMessage
      BY <1>1, <1>4 DEF Message
    <2>2. m.userId \in {0} \cup UserId /\ m.mvps \in 0..MaxMVPs
      BY <2>1 DEF StateMessage
    <2> HIDE DEF m
    <2> QED BY <1>2, <1>4, <2>2, KnownTyped DEF UpdateMusicKitMVPState
  <1>5. CASE type = "item" /\ TrackMusicKitFromItem(p, m)
    <2>1. m \in ItemMessage
      BY <1>1, <1>5 DEF Message
    <2>2. m.itemId \in Kits \cup {none} /\ m.mvps \in 0..MaxMVPs
      BY <2>1 DEF ItemMessage
    <2> HIDE DEF m
    <2> QED BY <1>2, <1>5, <2>2, KnownTyped DEF TrackMusicKitFromItem
  <1> QED BY <1>3, <1>4, <1>5

LEMMA HandleTyped ==
    ASSUME IInv, NEW p \in Players, HandleEvent(p)
    PROVE  IInv'
  <1> DEFINE type == Head(link[p])[1]
             m == Head(link[p])[2]
  <1>1. Tables'
    <2>1. Tables
      BY DEF IInv, TypeOK, Tables
    <2> QED BY <2>1, HandleCases, StoreTyped, ForgetTyped DEF Tables, serverVars
  <1>2. Tail(link[p]) \in Seq(Message)
    BY DEF IInv, TypeOK, HandleEvent
  <1>3. (link \in [Players -> Seq(Message)])'
    BY <1>2 DEF IInv, TypeOK, HandleEvent
  <1>4. (lost \in [Players -> Nat])'
    BY DEF IInv, TypeOK, HandleEvent
  <1> QED BY <1>1, <1>3, <1>4 DEF IInv, TypeOK, Tables, InSlot, Owned, HandleEvent, clientVars

-------------------------------------------------------------------------------
LEMMA Initial == Init => IInv /\ NoOrphanEntry
  <1> SUFFICES ASSUME Init PROVE IInv /\ NoOrphanEntry
    OBVIOUS
  <1>1. [k \in Kits |-> 0] \in Inventory
    BY MusicKitAssumption DEF Inventory
  <1>2. (mvps \in [Players -> Inventory]) /\ InSlot
    BY <1>1 DEF Init, InSlot, Owned
  <1>3. cached \in [Players -> -1..MaxMVPs]
    BY MusicKitAssumption DEF Init, FromInventory
  <1>4. link \in [Players -> Seq(Message)]
    BY DEF Init
  <1>5. NoOrphanEntry
    BY DEF Init, NoOrphanEntry
  <1> QED BY <1>2, <1>3, <1>4, <1>5, MusicKitAssumption DEF Init, IInv, TypeOK

LEMMA PlayerStepTyped ==
    ASSUME IInv, NEW p \in Players, PlayerStep(p)
    PROVE  IInv'
  <1>1. CASE \E k \in Kits : Equip(p, k) \/ IncrementKillCountAttribute(p, k)
    BY <1>1, HandlersTyped
  <1>2. CASE \E k \in Kits : RemoveItem(p, k)
    BY <1>2, RemoveItemTyped
  <1>3. CASE LocalPlayerRoundMVP(p)
    <2>1. equipped[p] \in Kits /\ IncrementKillCountAttribute(p, equipped[p])
      BY <1>3 DEF LocalPlayerRoundMVP, IInv, TypeOK
    <2> QED BY <2>1, HandlersTyped
  <1>4. CASE Unequip(p)
    <2>1. equipped[p] \in Kits \cup {none} /\ mvps[p] \in Inventory
          /\ (equipped[p] # none => equipped[p] \in DOMAIN mvps[p])
      BY DEF IInv, TypeOK, InSlot, Owned
    <2>2. Items(mvps[p], equipped[p], FALSE) \in Seq(Message)
      BY <2>1, ItemsTyped
    <2> QED BY <1>4, <2>1, <2>2, RefreshedTyped DEF Unequip
  <1>5. CASE \/ SyncLocalPlayerMusicKitState(p) \/ HandleSOCacheRequest(p)
             \/ (\E u \in UserId : PlaysElsewhere(p, u)) \/ NewClient(p)
    BY <1>5, SessionsTyped
  <1>6. CASE Connect(p) \/ Disconnect(p) \/ Lose(p)
    BY <1>6, ConnectionTyped
  <1>7. CASE HandleEvent(p)
    BY <1>7, HandleTyped
  <1>8. CASE DepositItemToStorage(p)
    BY <1>8, DepositTyped
  <1> QED BY <1>1, <1>2, <1>3, <1>4, <1>5, <1>6, <1>7, <1>8 DEF PlayerStep

LEMMA StepTyped == IInv /\ [Next]_vars => IInv'
  <1> SUFFICES ASSUME IInv, [Next]_vars PROVE IInv'
    OBVIOUS
  <1>1. CASE \E p \in Players : PlayerStep(p)
    BY <1>1, PlayerStepTyped
  <1>2. CASE ModeChanges
    BY <1>2 DEF IInv, TypeOK, InSlot, Owned, ModeChanges, Change, clientVars, serverVars, netVars
  <1>3. CASE UNCHANGED vars
    BY <1>3 DEF IInv, TypeOK, InSlot, Owned, vars, clientVars, serverVars, netVars
  <1> QED BY <1>1, <1>2, <1>3 DEF Next

LEMMA InvariantHolds == Spec => []IInv
  BY Initial, StepTyped, PTL DEF Spec

-------------------------------------------------------------------------------
(* The index by user id.  Whoever witnesses an entry still does, unless its own   *)
(* state is replaced; but then the entry of its old user id is gone.              *)

LEMMA StoreKeeps ==
    ASSUME Tables, NoOrphanEntry, NEW p \in Players, NEW u, NEW k, NEW n,
           StoreMusicKitStateLocked(p, u, k, n)
    PROVE  NoOrphanEntry'
  <1> DEFINE state == [userId |-> u, itemId |-> k, mvps |-> n]
  <1> SUFFICES ASSUME NEW v \in UserId, (byUser[v] # none)'
               PROVE  \E q \in Players : (bySteam[q] = byUser[v] /\ bySteam[q].userId = v)'
    BY DEF NoOrphanEntry
  <1>1. /\ bySteam' = [bySteam EXCEPT ![p] = state]
        /\ byUser'[v] = IF v = u THEN state ELSE IF v = KnownUser(p) THEN none ELSE byUser[v]
    BY DEF StoreMusicKitStateLocked
  <1>2. CASE v = u
    <2>1. bySteam'[p] = state /\ byUser'[v] = state /\ state.userId = v
      BY <1>1, <1>2 DEF Tables
    <2> QED BY <2>1
  <1>3. CASE v # u
    <2>1. v # KnownUser(p) /\ byUser[v] # none /\ byUser'[v] = byUser[v]
      BY <1>1, <1>3
    <2>2. PICK q \in Players : bySteam[q] = byUser[v] /\ bySteam[q].userId = v
      BY <2>1 DEF NoOrphanEntry
    <2>3. q # p
      BY <2>1, <2>2 DEF KnownUser
    <2>4. bySteam'[q] = bySteam[q]
      BY <1>1, <2>3
    <2> QED BY <2>1, <2>2, <2>4
  <1> QED BY <1>2, <1>3

LEMMA ForgetKeeps ==
    ASSUME Tables, NoOrphanEntry, NEW p \in Players, ForgetMusicKitStateLocked(p)
    PROVE  NoOrphanEntry'
  <1> SUFFICES ASSUME NEW v \in UserId, (byUser[v] # none)'
               PROVE  \E q \in Players : (bySteam[q] = byUser[v] /\ bySteam[q].userId = v)'
    BY DEF NoOrphanEntry
  <1>1. /\ bySteam' = [bySteam EXCEPT ![p] = none]
        /\ byUser'[v] = IF v = KnownUser(p) THEN none ELSE byUser[v]
    BY DEF ForgetMusicKitStateLocked
  <1>2. v # KnownUser(p) /\ byUser[v] # none /\ byUser'[v] = byUser[v]
    BY <1>1
  <1>3. PICK q \in Players : bySteam[q] = byUser[v] /\ bySteam[q].userId = v
    BY <1>2 DEF NoOrphanEntry
  <1>4. q # p
    BY <1>2, <1>3 DEF KnownUser
  <1>5. bySteam'[q] = bySteam[q]
    BY <1>1, <1>4
  <1> QED BY <1>2, <1>3, <1>5

LEMMA StepKeeps == IInv /\ NoOrphanEntry /\ [Next]_vars => NoOrphanEntry'
  <1> SUFFICES ASSUME IInv, NoOrphanEntry, [Next]_vars PROVE NoOrphanEntry'
    OBVIOUS
  <1>1. Tables
    BY DEF IInv, TypeOK, Tables
  <1>2. UNCHANGED serverVars => NoOrphanEntry'
    BY DEF NoOrphanEntry, serverVars
  <1>3. ASSUME NEW p \in Players, HandleEvent(p)
        PROVE  NoOrphanEntry'
    BY <1>1, <1>2, <1>3, HandleCases, StoreKeeps, ForgetKeeps
  <1>4. ASSUME NEW p \in Players, PlayerStep(p), ~HandleEvent(p)
        PROVE  UNCHANGED serverVars
    BY <1>4 DEF PlayerStep, Equip, Unequip, IncrementKillCountAttribute, LocalPlayerRoundMVP,
                Refreshed, RemoveItem, DepositItemToStorage, SyncLocalPlayerMusicKitState, PlaysElsewhere, NewClient,
                HandleSOCacheRequest, Connect, Disconnect, Lose
  <1>5. ModeChanges \/ UNCHANGED vars => UNCHANGED serverVars
    BY DEF ModeChanges, vars
  <1> QED BY <1>2, <1>3, <1>4, <1>5 DEF Next

-------------------------------------------------------------------------------
(* The count.  Which message has the last word on the server's entry: a state, an *)
(* equipped kit or the end of the connection, whatever items follow that are no   *)
(* equipped kit.  A client that has told its user id sends a state first whenever *)
(* the count may have changed, so the last word is right; one that has not sends  *)
(* items only, and the kit that left the slot is the one the server has.          *)

Counts(m) == \/ m[1] = "state" /\ m[2].has
             \/ m[1] = "item" /\ m[2].equipped

Decides(m) == m[1] # "item" \/ m[2].equipped

\* Of the messages s, none after the j-th decides.
LastWord(s, j) == \A i \in j + 1 .. Len(s) : ~Decides(s[i])

\* They only take other kits than k out of the slot.
Kept(s, j, k) ==
    \A i \in j + 1 .. Len(s) : s[i][1] = "item" /\ ~s[i][2].equipped /\ s[i][2].itemId # k

\* What the entry will be once s is handled, now that it is e, is right or none at all.
Says(s, e, kit, counts) ==
    /\ \A j \in 1..Len(s) :
         LastWord(s, j) /\ Counts(s[j]) => kit # none /\ s[j][2].mvps = counts[kit]
    /\ LastWord(s, 0) /\ e # none => kit # none /\ e.mvps = counts[kit]

\* The same, if the entry comes of items.
Shows(s, e, kit, counts) ==
    /\ \A j \in 1..Len(s) :
         s[j][1] = "item" /\ s[j][2].equipped /\ Kept(s, j, s[j][2].itemId)
           => kit # none /\ kit = s[j][2].itemId /\ s[j][2].mvps = counts[kit]
    /\ e # none /\ Kept(s, 0, e.itemId) => kit # none /\ kit = e.itemId /\ e.mvps = counts[kit]

\* Nothing was lost, or a state is on its way that was sent later.
Settles(s, n) == n = 0 \/ \E i \in n..Len(s) : s[i][1] = "state"

\* Where a loss is; states of a client without a user id are of an earlier connection.
Ordered(s, n, local) ==
    /\ n # 0 => n <= Len(s) + 1 /\ \A i \in n..Len(s) : s[i][1] # "unsubscribe"
    /\ local = 0 =>
         \A i \in 1..Len(s) :
           s[i][1] = "state" => \E j \in i + 1 .. Len(s) : s[j][1] = "unsubscribe"

Agrees(s, n, e, local, c, kit, counts) ==
    /\ Ordered(s, n, local)
    /\ local = 0 /\ n = 0 => Shows(s, e, kit, counts)
    /\ local # 0 /\ c = FromInventory(counts, kit) /\ Settles(s, n) => Says(s, e, kit, counts)

\* Without a connection: the end of the last one is the last message, or was handled.
Left(s, n, e) ==
    /\ n = 0
    /\ s = <<>> => e = none
    /\ s # <<>> => s[Len(s)][1] = "unsubscribe"

Follows(p) ==
    /\ equipped[p] # none => cached[p] = mvps[p][equipped[p]]
    /\ Connected(p) =>
         Agrees(link[p], lost[p], bySteam[p], localUser[p], cached[p], equipped[p], mvps[p])
    /\ ~Connected(p) => Left(link[p], lost[p], bySteam[p])

FollowInv == \A p \in Players : Follows(p)

LEMMA LastWordAppend ==
    ASSUME NEW s \in Seq(Message), NEW m \in Message, NEW j \in 0..Len(s)
    PROVE  LastWord(Append(s, m), j) => LastWord(s, j) /\ ~Decides(m)
  <1> SUFFICES ASSUME LastWord(Append(s, m), j) PROVE LastWord(s, j) /\ ~Decides(m)
    OBVIOUS
  <1> DEFINE t == Append(s, m)
  <1>1. Len(t) = Len(s) + 1 /\ t[Len(s) + 1] = m /\ \A i \in 1..Len(s) : t[i] = s[i]
    OBVIOUS
  <1> HIDE DEF t
  <1>2. LastWord(t, j)
    BY DEF t
  <1>3. Len(s) \in Nat
    OBVIOUS
  <1>4. \A i \in j + 1 .. Len(s) : i \in j + 1 .. Len(t) /\ t[i] = s[i]
    BY <1>1, <1>3
  <1>5. Len(s) + 1 \in j + 1 .. Len(t)
    BY <1>1, <1>3
  <1> QED BY <1>1, <1>2, <1>4, <1>5 DEF LastWord

LEMMA KeptAppend ==
    ASSUME NEW s \in Seq(Message), NEW m \in Message, NEW j \in 0..Len(s), NEW k
    PROVE  Kept(Append(s, m), j, k)
             => Kept(s, j, k) /\ m[1] = "item" /\ ~m[2].equipped /\ m[2].itemId # k
  <1> SUFFICES ASSUME Kept(Append(s, m), j, k)
               PROVE  Kept(s, j, k) /\ m[1] = "item" /\ ~m[2].equipped /\ m[2].itemId # k
    OBVIOUS
  <1> DEFINE t == Append(s, m)
  <1>1. Len(t) = Len(s) + 1 /\ t[Len(s) + 1] = m /\ \A i \in 1..Len(s) : t[i] = s[i]
    OBVIOUS
  <1> HIDE DEF t
  <1>2. Kept(t, j, k)
    BY DEF t
  <1>3. Len(s) \in Nat
    OBVIOUS
  <1>4. \A i \in j + 1 .. Len(s) : i \in j + 1 .. Len(t) /\ t[i] = s[i]
    BY <1>1, <1>3
  <1>5. Len(s) + 1 \in j + 1 .. Len(t)
    BY <1>1, <1>3
  <1> QED BY <1>1, <1>2, <1>4, <1>5 DEF Kept

LEMMA LastWordTail ==
    ASSUME NEW s \in Seq(Message), s # <<>>, NEW j \in 0 .. Len(s) - 1
    PROVE  LastWord(Tail(s), j) <=> LastWord(s, j + 1)
  <1> DEFINE t == Tail(s)
  <1>1. Len(s) \in Nat /\ Len(t) = Len(s) - 1 /\ \A i \in 1..Len(t) : t[i] = s[i + 1]
    OBVIOUS
  <1> HIDE DEF t
  <1>2. ASSUME LastWord(t, j), NEW i \in j + 2 .. Len(s) PROVE ~Decides(s[i])
    <2>1. i - 1 \in j + 1 .. Len(t) /\ i - 1 \in 1..Len(t) /\ (i - 1) + 1 = i
      BY <1>1
    <2>2. t[i - 1] = s[i]
      BY <1>1, <2>1
    <2> QED BY <1>2, <2>1, <2>2 DEF LastWord
  <1>3. ASSUME LastWord(s, j + 1), NEW i \in j + 1 .. Len(t) PROVE ~Decides(t[i])
    <2>1. i + 1 \in (j + 1) + 1 .. Len(s) /\ i \in 1..Len(t)
      BY <1>1
    <2> QED BY <1>1, <1>3, <2>1 DEF LastWord
  <1>4. (j + 1) + 1 = j + 2
    OBVIOUS
  <1> QED BY <1>2, <1>3, <1>4 DEF LastWord, t

LEMMA KeptTail ==
    ASSUME NEW s \in Seq(Message), s # <<>>, NEW j \in 0 .. Len(s) - 1, NEW k
    PROVE  Kept(Tail(s), j, k) => Kept(s, j + 1, k)
  <1> DEFINE t == Tail(s)
  <1>1. Len(s) \in Nat /\ Len(t) = Len(s) - 1 /\ \A i \in 1..Len(t) : t[i] = s[i + 1]
    OBVIOUS
  <1> HIDE DEF t
  <1>2. ASSUME Kept(t, j, k), NEW i \in j + 2 .. Len(s)
        PROVE  s[i][1] = "item" /\ ~s[i][2].equipped /\ s[i][2].itemId # k
    <2>1. i - 1 \in j + 1 .. Len(t) /\ i - 1 \in 1..Len(t) /\ (i - 1) + 1 = i
      BY <1>1
    <2>2. t[i - 1] = s[i]
      BY <1>1, <2>1
    <2> QED BY <1>2, <2>1, <2>2 DEF Kept
  <1>3. (j + 1) + 1 = j + 2
    OBVIOUS
  <1> QED BY <1>2, <1>3 DEF Kept, t

-------------------------------------------------------------------------------
(* What a message that is sent does to all this.                           *)

LEMMA OrderedAppend ==
    ASSUME NEW s \in Seq(Message), NEW m \in Message, NEW n \in Nat, NEW local,
           Ordered(s, n, local), m[1] # "unsubscribe", local = 0 => m[1] # "state"
    PROVE  Ordered(Append(s, m), n, local)
  <1> DEFINE t == Append(s, m)
  <1>1. Len(s) \in Nat /\ Len(t) = Len(s) + 1 /\ t[Len(s) + 1] = m
        /\ \A i \in 1..Len(s) : t[i] = s[i]
    OBVIOUS
  <1> HIDE DEF t
  <1>2. ASSUME n # 0
        PROVE  n <= Len(t) + 1 /\ \A i \in n..Len(t) : t[i][1] # "unsubscribe"
    <2>1. n <= Len(s) + 1 /\ \A i \in n..Len(s) : s[i][1] # "unsubscribe"
      BY <1>2 DEF Ordered
    <2>2. ASSUME NEW i \in n..Len(t) PROVE t[i][1] # "unsubscribe"
      <3>1. CASE i = Len(s) + 1
        BY <1>1, <3>1
      <3>2. CASE i # Len(s) + 1
        <4>1. i \in n..Len(s) /\ i \in 1..Len(s)
          BY <1>1, <1>2, <3>2
        <4> QED BY <1>1, <2>1, <4>1
      <3> QED BY <3>1, <3>2
    <2> QED BY <1>1, <2>1, <2>2
  <1>3. ASSUME local = 0, NEW i \in 1..Len(t), t[i][1] = "state"
        PROVE  \E j \in i + 1 .. Len(t) : t[j][1] = "unsubscribe"
    <2>1. i # Len(s) + 1
      BY <1>1, <1>3
    <2>2. i \in 1..Len(s) /\ s[i][1] = "state"
      BY <1>1, <1>3, <2>1
    <2>3. PICK j \in i + 1 .. Len(s) : s[j][1] = "unsubscribe"
      BY <1>3, <2>2 DEF Ordered
    <2>4. j \in i + 1 .. Len(t) /\ t[j] = s[j]
      BY <1>1, <2>2, <2>3
    <2> QED BY <2>3, <2>4
  <1> QED BY <1>2, <1>3 DEF Ordered, t

\* A message that is no state settles nothing that was not settled.
LEMMA SettlesAppend ==
    ASSUME NEW s \in Seq(Message), NEW m \in Message, NEW n \in Nat,
           m[1] # "state", Settles(Append(s, m), n)
    PROVE  Settles(s, n)
  <1> DEFINE t == Append(s, m)
  <1>1. Len(s) \in Nat /\ Len(t) = Len(s) + 1 /\ t[Len(s) + 1] = m
        /\ \A i \in 1..Len(s) : t[i] = s[i]
    OBVIOUS
  <1>2. Settles(t, n)
    OBVIOUS
  <1> HIDE DEF t
  <1>3. CASE n = 0
    BY <1>3 DEF Settles
  <1>4. CASE n # 0
    <2>1. PICK i \in n..Len(t) : t[i][1] = "state"
      BY <1>2, <1>4 DEF Settles
    <2>2. i \in n..Len(s) /\ i \in 1..Len(s)
      BY <1>1, <1>4, <2>1
    <2> QED BY <1>1, <2>1, <2>2 DEF Settles
  <1> QED BY <1>3, <1>4

\* A message that decides, and is right or ends the entry, has the last word.
LEMMA SaysDecided ==
    ASSUME NEW s \in Seq(Message), NEW m \in Message, NEW e, NEW kit, NEW counts,
           Decides(m), Counts(m) => kit # none /\ m[2].mvps = counts[kit]
    PROVE  Says(Append(s, m), e, kit, counts)
  <1> DEFINE t == Append(s, m)
  <1>1. Len(s) \in Nat /\ Len(t) = Len(s) + 1 /\ t[Len(s) + 1] = m
        /\ \A i \in 1..Len(s) : t[i] = s[i]
    OBVIOUS
  <1>2. ASSUME NEW j \in 0..Len(s) PROVE ~LastWord(t, j)
    BY LastWordAppend
  <1> HIDE DEF t
  <1>3. ASSUME NEW j \in 1..Len(t), LastWord(t, j) PROVE j = Len(s) + 1
    BY <1>1, <1>2, <1>3
  <1> QED BY <1>1, <1>2, <1>3 DEF Says, t

LEMMA SaysStill ==
    ASSUME NEW s \in Seq(Message), NEW m \in Message, NEW e, NEW kit, NEW counts,
           ~Decides(m), Says(s, e, kit, counts)
    PROVE  Says(Append(s, m), e, kit, counts)
  <1> DEFINE t == Append(s, m)
  <1>1. Len(s) \in Nat /\ Len(t) = Len(s) + 1 /\ t[Len(s) + 1] = m
        /\ \A i \in 1..Len(s) : t[i] = s[i]
    OBVIOUS
  <1>2. ASSUME NEW j \in 0..Len(s), LastWord(t, j) PROVE LastWord(s, j)
    BY <1>2, LastWordAppend
  <1> HIDE DEF t
  <1>3. ~Counts(m)
    BY DEF Counts, Decides
  <1>4. ASSUME NEW j \in 1..Len(t), LastWord(t, j), Counts(t[j])
        PROVE  kit # none /\ t[j][2].mvps = counts[kit]
    <2>1. j \in 1..Len(s)
      BY <1>1, <1>3, <1>4
    <2>2. j \in 0..Len(s) /\ t[j] = s[j]
      BY <1>1, <2>1
    <2>3. LastWord(s, j)
      BY <1>2, <1>4, <2>2
    <2> QED BY <1>4, <2>1, <2>2, <2>3 DEF Says
  <1>5. 0 \in 0..Len(s)
    BY <1>1
  <1> QED BY <1>2, <1>4, <1>5 DEF Says, t

LEMMA ShowsEquipped ==
    ASSUME NEW s \in Seq(Message), NEW m \in Message, NEW e, NEW counts,
           m[1] = "item", m[2].equipped, m[2].itemId # none, m[2].mvps = counts[m[2].itemId]
    PROVE  Shows(Append(s, m), e, m[2].itemId, counts)
  <1> DEFINE t == Append(s, m)
  <1>1. Len(s) \in Nat /\ Len(t) = Len(s) + 1 /\ t[Len(s) + 1] = m
        /\ \A i \in 1..Len(s) : t[i] = s[i]
    OBVIOUS
  <1>2. ASSUME NEW j \in 0..Len(s), NEW k PROVE ~Kept(t, j, k)
    BY KeptAppend
  <1> HIDE DEF t
  <1>3. ASSUME NEW j \in 1..Len(t), NEW k, Kept(t, j, k) PROVE j = Len(s) + 1
    <2>1. j \notin 0..Len(s)
      BY <1>2, <1>3
    <2> QED BY <1>1, <2>1
  <1>4. 0 \in 0..Len(s)
    BY <1>1
  <1> QED BY <1>1, <1>2, <1>3, <1>4 DEF Shows, t

\* The kit that leaves the slot is the one the server has, if it has one.
LEMMA ShowsUnequipped ==
    ASSUME NEW s \in Seq(Message), NEW m \in Message, NEW e, NEW counts, NEW after,
           m[1] = "item", ~m[2].equipped, Shows(s, e, m[2].itemId, counts)
    PROVE  Shows(Append(s, m), e, none, after)
  <1> DEFINE t == Append(s, m)
  <1>1. Len(s) \in Nat /\ Len(t) = Len(s) + 1 /\ t[Len(s) + 1] = m
        /\ \A i \in 1..Len(s) : t[i] = s[i]
    OBVIOUS
  <1>2. ASSUME NEW j \in 0..Len(s), NEW k, Kept(t, j, k) PROVE Kept(s, j, k) /\ k # m[2].itemId
    BY <1>2, KeptAppend
  <1> HIDE DEF t
  <1>3. ASSUME NEW j \in 1..Len(t), t[j][1] = "item", t[j][2].equipped, Kept(t, j, t[j][2].itemId)
        PROVE  FALSE
    <2>1. j \in 1..Len(s)
      BY <1>1, <1>3
    <2>2. j \in 0..Len(s) /\ t[j] = s[j]
      BY <1>1, <2>1
    <2>3. Kept(s, j, s[j][2].itemId) /\ s[j][2].itemId # m[2].itemId
      BY <1>2, <1>3, <2>2
    <2> QED BY <1>3, <2>1, <2>2, <2>3 DEF Shows
  <1>4. 0 \in 0..Len(s)
    BY <1>1
  <1>5. ASSUME e # none, Kept(t, 0, e.itemId) PROVE FALSE
    BY <1>2, <1>4, <1>5 DEF Shows
  <1> QED BY <1>3, <1>5 DEF Shows, t

\* Told its user id, the client sends a state, and what it says counts from then on.
LEMMA TellState ==
    ASSUME NEW s \in Seq(Message), NEW n \in Nat, NEW e, NEW local \in {0} \cup UserId,
           NEW c \in -1..MaxMVPs, NEW kit, NEW counts,
           Ordered(s, n, local), local = 0 => Agrees(s, n, e, local, c, kit, counts)
    PROVE  Agrees(s \o States(local, c), n, e, local, c, kit, counts)
  <1>1. CASE local = 0
    <2>1. States(local, c) = <<>>
      BY <1>1 DEF States
    <2>2. s \o <<>> = s
      OBVIOUS
    <2>3. s \o States(local, c) = s
      BY <2>1, <2>2, Zenon
    <2> QED BY <1>1, <2>3
  <1>2. CASE local # 0
    <2> DEFINE st == State(local, IF gate THEN c ELSE -1)
               m == <<"state", st>>
    <2>1. States(local, c) = <<m>>
      BY <1>2, MusicKitAssumption DEF States, UserId
    <2>2. m \in Message
      <3>2. st \in StateMessage
        BY <1>2, MusicKitAssumption DEF State, StateMessage, UserId
      <3> QED BY <3>2 DEF Message
    <2>3. m[1] = "state" /\ m[2] = st
      OBVIOUS
    <2>4. st.has => c >= 0 /\ st.mvps = c
      <3> DEFINE v == IF gate THEN c ELSE -1
      <3>1. v = c \/ v = -1
        OBVIOUS
      <3> HIDE DEF v
      <3>2. State(local, v).has => v >= 0 /\ State(local, v).mvps = v
        BY <3>1 DEF State
      <3>3. v >= 0 => v = c
        BY <3>1
      <3>4. st = State(local, v)
        BY DEF v
      <3> QED BY <3>2, <3>3, <3>4
    <2> HIDE DEF st, m
    <2>5. s \o <<m>> = Append(s, m)
      BY <2>2
    <2>6. Ordered(Append(s, m), n, local)
      BY <1>2, <2>2, <2>3, OrderedAppend
    <2>7. ASSUME c = FromInventory(counts, kit)
          PROVE  Says(Append(s, m), e, kit, counts)
      <3>1. Decides(m)
        BY <2>3 DEF Decides
      <3>2. ASSUME Counts(m) PROVE kit # none /\ m[2].mvps = counts[kit]
        <4>1. st.has
          BY <2>3, <3>2 DEF Counts
        <4> QED BY <2>3, <2>4, <2>7, <4>1 DEF FromInventory
      <3> QED BY <2>2, <3>1, <3>2, SaysDecided
    <2> QED BY <1>2, <2>1, <2>5, <2>6, <2>7 DEF Agrees
  <1> QED BY <1>1, <1>2

\* The kit in the slot is sent, with its count.
LEMMA TellEquipped ==
    ASSUME NEW s \in Seq(Message), NEW n \in Nat, NEW e, NEW local, NEW c,
           NEW counts \in Inventory, NEW kit \in DOMAIN counts, kit # none,
           Ordered(s, n, local)
    PROVE  Agrees(s \o Items(counts, kit, TRUE), n, e, local, c, kit, counts)
  <1> DEFINE it == Item(kit, TRUE, counts[kit])
             m == <<"item", it>>
  <1>1. Items(counts, kit, TRUE) = <<m>>
    BY DEF Items
  <1>2. m \in Message
    <2>1. it \in ItemMessage
      BY DEF Item, ItemMessage, Inventory
    <2> QED BY <2>1 DEF Message
  <1>3. m[1] = "item" /\ m[2] = it
    OBVIOUS
  <1>4. it.equipped = TRUE /\ it.itemId = kit /\ it.mvps = counts[kit]
    BY DEF Item
  <1> HIDE DEF it, m
  <1>5. s \o <<m>> = Append(s, m)
    BY <1>2
  <1>6. Ordered(Append(s, m), n, local)
    BY <1>2, <1>3, OrderedAppend
  <1>7. Shows(Append(s, m), e, kit, counts)
    BY <1>2, <1>3, <1>4, ShowsEquipped
  <1>8. Says(Append(s, m), e, kit, counts)
    <2>1. Decides(m)
      BY <1>3, <1>4 DEF Decides
    <2>2. m[2].mvps = counts[kit]
      BY <1>3, <1>4
    <2> QED BY <1>2, <2>1, <2>2, SaysDecided
  <1> QED BY <1>1, <1>5, <1>6, <1>7, <1>8 DEF Agrees

\* The kit that was in the slot is sent.
LEMMA TellUnequipped ==
    ASSUME NEW s \in Seq(Message), NEW n \in Nat, NEW e, NEW local, NEW kit \in Kits, NEW x \in 0..MaxMVPs,
           NEW c, NEW counts, NEW c2, NEW after,
           Ordered(s, n, local),
           local = 0 => Agrees(s, n, e, local, c, kit, counts),
           local # 0 => Agrees(s, n, e, local, c2, none, after)
    PROVE  Agrees(s \o <<<<"item", Item(kit, FALSE, x)>>>>, n, e, local, c2, none, after)
  <1> DEFINE it == Item(kit, FALSE, x)
             m == <<"item", it>>
  <1>2. m \in Message
    <2>1. it \in ItemMessage
      BY DEF Item, ItemMessage
    <2> QED BY <2>1 DEF Message
  <1>3. m[1] = "item" /\ m[2] = it
    OBVIOUS
  <1>4. it.equipped = FALSE /\ it.itemId = kit
    BY DEF Item
  <1> HIDE DEF it, m
  <1>5. s \o <<m>> = Append(s, m)
    BY <1>2
  <1>6. Ordered(Append(s, m), n, local)
    BY <1>2, <1>3, OrderedAppend
  <1>7. ASSUME local = 0, n = 0 PROVE Shows(Append(s, m), e, none, after)
    <2>1. Shows(s, e, m[2].itemId, counts)
      BY <1>3, <1>4, <1>7 DEF Agrees
    <2>2. m[1] = "item" /\ ~m[2].equipped
      BY <1>3, <1>4
    <2> QED BY <1>2, <2>1, <2>2, ShowsUnequipped
  <1>8. ASSUME local # 0, c2 = FromInventory(after, none), Settles(Append(s, m), n)
        PROVE  Says(Append(s, m), e, none, after)
    <2>1. Settles(s, n)
      BY <1>2, <1>3, <1>8, SettlesAppend
    <2>2. Says(s, e, none, after)
      BY <1>8, <2>1 DEF Agrees
    <2>3. ~Decides(m)
      BY <1>3, <1>4 DEF Decides
    <2> QED BY <1>2, <2>2, <2>3, SaysStill
  <1>9. Agrees(Append(s, m), n, e, local, c2, none, after)
    BY <1>6, <1>7, <1>8 DEF Agrees
  <1> QED BY <1>5, <1>9 DEF m, it

\* Another kit changes, or goes.
LEMMA OtherKit ==
    ASSUME NEW s, NEW n, NEW e, NEW local, NEW c, NEW c2, NEW kit, NEW counts, NEW after,
           Agrees(s, n, e, local, c, kit, counts),
           kit # none => after[kit] = counts[kit],
           local # 0 => c2 = c
    PROVE  Agrees(s, n, e, local, c2, kit, after)
  <1>1. Shows(s, e, kit, counts) => Shows(s, e, kit, after)
    BY DEF Shows
  <1>2. Says(s, e, kit, counts) => Says(s, e, kit, after)
    BY DEF Says
  <1>3. FromInventory(counts, kit) = FromInventory(after, kit)
    BY DEF FromInventory
  <1> QED BY <1>1, <1>2, <1>3 DEF Agrees

LEMMA SameFollows ==
    ASSUME NEW q, Follows(q),
           mvps'[q] = mvps[q], equipped'[q] = equipped[q], cached'[q] = cached[q],
           localUser'[q] = localUser[q], uid'[q] = uid[q], link'[q] = link[q],
           lost'[q] = lost[q], bySteam'[q] = bySteam[q]
    PROVE  Follows(q)'
  BY DEF Follows, Connected

\* What a handler of the client leaves, whether the messages are sent or not.
LEMMA PostFollows ==
    ASSUME FollowInv, link \in [Players -> Seq(Message)],
           NEW p \in Players, NEW messages \in Seq(Message), Post(p, messages),
           uid' = uid, lost' = lost, bySteam' = bySteam,
           \A q \in Players \ {p} :
             /\ mvps'[q] = mvps[q] /\ equipped'[q] = equipped[q]
             /\ cached'[q] = cached[q] /\ localUser'[q] = localUser[q],
           equipped'[p] # none => cached'[p] = mvps'[p][equipped'[p]],
           Connected(p) =>
             Agrees(link[p] \o messages, lost[p], bySteam[p], localUser'[p], cached'[p],
                    equipped'[p], mvps'[p])
    PROVE  FollowInv'
  <1>1. ASSUME NEW q \in Players, q # p PROVE Follows(q)'
    <2>1. link'[q] = link[q]
      BY <1>1 DEF Post
    <2>2. Follows(q)
      BY DEF FollowInv
    <2> QED BY <1>1, <2>1, <2>2, SameFollows
  <1>2. Follows(p)'
    <2>1. CASE Connected(p)
      <3>1. link'[p] = link[p] \o messages
        BY <2>1 DEF Post
      <3> QED BY <2>1, <3>1 DEF Follows, Connected
    <2>2. CASE ~Connected(p)
      <3>1. link' = link
        BY <2>2 DEF Post
      <3>2. Left(link[p], lost[p], bySteam[p])
        BY <2>2 DEF FollowInv, Follows
      <3> QED BY <2>2, <3>1, <3>2 DEF Follows, Connected
    <2> QED BY <2>1, <2>2
  <1> QED BY <1>1, <1>2 DEF FollowInv

LEMMA Regroup ==
    ASSUME NEW s \in Seq(Message), NEW t \in Seq(Message), NEW u \in Seq(Message)
    PROVE  (s \o t) \o u = s \o (t \o u)
  BY ConcatAssociative

LEMMA PlayerFacts ==
    ASSUME IInv, FollowInv, NEW p \in Players
    PROVE  /\ link[p] \in Seq(Message) /\ lost[p] \in Nat
           /\ mvps[p] \in Inventory /\ equipped[p] \in Kits \cup {none}
           /\ equipped[p] # none => equipped[p] \in DOMAIN mvps[p]
           /\ localUser[p] \in {0} \cup UserId /\ uid[p] \in {0} \cup UserId
           /\ cached[p] \in -1..MaxMVPs
           /\ equipped[p] # none => cached[p] = mvps[p][equipped[p]]
           /\ Connected(p) =>
                /\ Agrees(link[p], lost[p], bySteam[p], localUser[p], cached[p], equipped[p], mvps[p])
                /\ Ordered(link[p], lost[p], localUser[p])
           /\ ~Connected(p) => Left(link[p], lost[p], bySteam[p])
  <1>1. Follows(p)
    BY DEF FollowInv
  <1> QED BY <1>1 DEF Follows, IInv, TypeOK, InSlot, Owned, Agrees

LEMMA StateFollows ==
    ASSUME IInv, FollowInv, NEW p \in Players, Connected(p), localUser[p] # 0,
           NEW n \in -1..MaxMVPs, NEW kit, NEW counts
    PROVE  Agrees(link[p] \o States(localUser[p], n), lost[p], bySteam[p], localUser[p],
                  n, kit, counts)
  <1>1. /\ link[p] \in Seq(Message) /\ lost[p] \in Nat
        /\ Ordered(link[p], lost[p], localUser[p])
        /\ localUser[p] \in {0} \cup UserId
    BY PlayerFacts
  <1> QED BY <1>1, TellState

LEMMA RefreshedFollows ==
    ASSUME IInv, FollowInv, NEW p \in Players, NEW counts \in Inventory,
           NEW kit \in Kits \cup {none}, kit # none => kit \in DOMAIN counts,
           NEW items \in Seq(Message), Refreshed(p, counts, kit, items),
           Connected(p) =>
             Agrees((link[p] \o States(localUser[p], FromInventory(counts, kit))) \o items,
                    lost[p], bySteam[p], localUser[p], FromInventory(counts, kit), kit, counts)
    PROVE  FollowInv'
  <1> DEFINE n == FromInventory(counts, kit)
             st == States(localUser[p], n)
  <1>1. n \in -1..MaxMVPs
    BY CountTyped
  <1>2. st \in Seq(Message)
    BY <1>1, StatesTyped DEF IInv, TypeOK
  <1>3. link[p] \in Seq(Message)
    BY DEF IInv, TypeOK
  <1>4. link[p] \o (st \o items) = (link[p] \o st) \o items /\ st \o items \in Seq(Message)
    <2> HIDE DEF st
    <2>1. st \o items \in Seq(Message)
      BY <1>2, Concat
    <2>2. link[p] \o (st \o items) = (link[p] \o st) \o items
      BY <1>2, <1>3, Regroup
    <2> QED BY <2>1, <2>2
  <1>5. Post(p, st \o items) /\ uid' = uid /\ lost' = lost /\ bySteam' = bySteam
        /\ localUser' = localUser
    BY DEF Refreshed, serverVars
  <1>6. mvps'[p] = counts /\ equipped'[p] = kit /\ cached'[p] = n
    BY DEF Refreshed, IInv, TypeOK
  <1>7. \A q \in Players \ {p} :
          /\ mvps'[q] = mvps[q] /\ equipped'[q] = equipped[q]
          /\ cached'[q] = cached[q] /\ localUser'[q] = localUser[q]
    BY <1>5 DEF Refreshed, IInv, TypeOK
  <1>8. kit # none => n = counts[kit]
    BY DEF FromInventory
  <1>9. link \in [Players -> Seq(Message)]
    BY DEF IInv, TypeOK
  <1>10. Connected(p) =>
           Agrees(link[p] \o (st \o items), lost[p], bySteam[p], localUser[p], n, kit, counts)
    BY <1>4
  <1> HIDE DEF n, st
  <1> QED BY <1>4, <1>5, <1>6, <1>7, <1>8, <1>9, <1>10, PostFollows

LEMMA EquipFollows ==
    ASSUME IInv, FollowInv, NEW p \in Players, NEW k \in Kits, Equip(p, k)
    PROVE  FollowInv'
  <1> DEFINE counts == mvps[p]
             n == FromInventory(counts, k)
             st == States(localUser[p], n)
             old == Items(counts, equipped[p], FALSE)
             new == Items(counts, k, TRUE)
  <1>1. counts \in Inventory /\ k \in DOMAIN counts /\ k # none
    BY PlayerFacts, MusicKitAssumption DEF Equip, Owned
  <1>2. old \in Seq(Message) /\ new \in Seq(Message)
    BY <1>1, PlayerFacts, ItemsTyped
  <1>3. n \in -1..MaxMVPs
    BY <1>1, CountTyped
  <1>4. st \in Seq(Message) /\ gate \in BOOLEAN
    BY <1>3, StatesTyped DEF IInv, TypeOK
  <1>5. Refreshed(p, counts, k, old \o new)
    BY DEF Equip
  <1>6. ASSUME Connected(p)
        PROVE  Agrees((link[p] \o st) \o (old \o new), lost[p], bySteam[p], localUser[p], n, k, counts)
    <2> DEFINE s1 == link[p] \o st
    <2>1. /\ link[p] \in Seq(Message) /\ lost[p] \in Nat
          /\ Agrees(link[p], lost[p], bySteam[p], localUser[p], cached[p], equipped[p], mvps[p])
          /\ Ordered(link[p], lost[p], localUser[p])
      BY <1>6, PlayerFacts
    <2>2. s1 \in Seq(Message)
      BY <1>4, <2>1, Concat
    <2>3. Ordered(s1, lost[p], localUser[p])
      <3>1. ASSUME localUser[p] # 0
            PROVE  Agrees(s1, lost[p], bySteam[p], localUser[p], n, k, counts)
        <4> HIDE DEF n, counts
        <4> QED BY <1>3, <1>6, <3>1, StateFollows
      <3>2. ASSUME localUser[p] = 0 PROVE s1 = link[p]
        <4>1. st = <<>>
          BY <3>2 DEF States
        <4>2. link[p] \o <<>> = link[p]
          BY <2>1
        <4> QED BY <4>1, <4>2, Zenon
      <3> QED BY <2>1, <3>1, <3>2 DEF Agrees
    <2> HIDE DEF s1, st
    <2>4. s1 \o old \in Seq(Message)
      BY <1>2, <2>2, Concat
    <2>5. Ordered(s1 \o old, lost[p], localUser[p])
      <3>1. CASE equipped[p] = none
        <4>1. old = <<>>
          BY <3>1 DEF Items
        <4>2. s1 \o <<>> = s1
          BY <2>2
        <4> QED BY <2>3, <4>1, <4>2, Zenon
      <3>2. CASE equipped[p] # none
        <4> DEFINE it == Item(equipped[p], FALSE, counts[equipped[p]])
                   m == <<"item", it>>
        <4>1. old = <<m>>
          BY <3>2 DEF Items
        <4>2. m \in Message
          <5>1. it \in ItemMessage
            BY <3>2, PlayerFacts DEF Item, ItemMessage, Inventory
          <5> QED BY <5>1 DEF Message
        <4>3. m[1] = "item"
          OBVIOUS
        <4> HIDE DEF m, old
        <4>4. s1 \o <<m>> = Append(s1, m)
          BY <2>2, <4>2
        <4>5. Ordered(Append(s1, m), lost[p], localUser[p])
          BY <2>1, <2>2, <2>3, <4>2, <4>3, OrderedAppend
        <4> QED BY <4>1, <4>4, <4>5
      <3> QED BY <3>1, <3>2
    <2> HIDE DEF old, n, counts
    <2>6. Agrees((s1 \o old) \o new, lost[p], bySteam[p], localUser[p], n, k, counts)
      BY <1>1, <2>1, <2>4, <2>5, TellEquipped
    <2> HIDE DEF new
    <2>7. (s1 \o old) \o new = s1 \o (old \o new)
      BY <1>2, <2>2, Regroup
    <2> QED BY <2>6, <2>7 DEF s1
  <1>7. old \o new \in Seq(Message)
    <2> HIDE DEF old, new
    <2> QED BY <1>2, Concat
  <1> HIDE DEF old, new, counts
  <1> QED BY <1>1, <1>5, <1>6, <1>7, RefreshedFollows DEF n, st

LEMMA UnequipFollows ==
    ASSUME IInv, FollowInv, NEW p \in Players, Unequip(p)
    PROVE  FollowInv'
  <1> DEFINE counts == mvps[p]
             n == FromInventory(counts, none)
             st == States(localUser[p], n)
             old == Items(counts, equipped[p], FALSE)
  <1>1. counts \in Inventory
    BY PlayerFacts
  <1>2. old \in Seq(Message)
    BY <1>1, PlayerFacts, ItemsTyped
  <1>3. n \in -1..MaxMVPs
    BY <1>1, CountTyped
  <1>4. st \in Seq(Message) /\ gate \in BOOLEAN
    BY <1>3, StatesTyped DEF IInv, TypeOK
  <1>5. Refreshed(p, counts, none, old)
    BY DEF Unequip
  <1>6. ASSUME Connected(p)
        PROVE  Agrees((link[p] \o st) \o old, lost[p], bySteam[p], localUser[p], n, none, counts)
    <2> DEFINE s1 == link[p] \o st
    <2>1. /\ link[p] \in Seq(Message) /\ lost[p] \in Nat
          /\ Agrees(link[p], lost[p], bySteam[p], localUser[p], cached[p], equipped[p], mvps[p])
          /\ Ordered(link[p], lost[p], localUser[p])
      BY <1>6, PlayerFacts
    <2>2. s1 \in Seq(Message)
      BY <1>4, <2>1, Concat
    <2>3. ASSUME localUser[p] # 0
          PROVE  Agrees(s1, lost[p], bySteam[p], localUser[p], n, none, counts)
      <3> HIDE DEF n, counts
      <3> QED BY <1>3, <1>6, <2>3, StateFollows
    <2>4. ASSUME localUser[p] = 0 PROVE s1 = link[p]
      <3>1. st = <<>>
        BY <2>4 DEF States
      <3>2. link[p] \o <<>> = link[p]
        BY <2>1
      <3> QED BY <3>1, <3>2, Zenon
    <2>5. Ordered(s1, lost[p], localUser[p])
      BY <2>1, <2>3, <2>4 DEF Agrees
    <2>6. localUser[p] = 0 =>
            Agrees(s1, lost[p], bySteam[p], localUser[p], cached[p], equipped[p], counts)
      BY <2>1, <2>4
    <2> HIDE DEF s1, st
    <2>7. CASE equipped[p] = none
      <3>1. old = <<>>
        BY <2>7 DEF Items
      <3>2. s1 \o <<>> = s1
        BY <2>2
      <3>3. s1 \o old = s1
        BY <3>1, <3>2, Zenon
      <3>4. localUser[p] = 0 => Agrees(s1, lost[p], bySteam[p], localUser[p], n, none, counts)
        BY <2>6, <2>7 DEF Agrees
      <3> QED BY <2>3, <3>3, <3>4 DEF s1
    <2>8. CASE equipped[p] # none
      <3>1. old = <<<<"item", Item(equipped[p], FALSE, counts[equipped[p]])>>>>
        BY <2>8 DEF Items
      <3>2. equipped[p] \in Kits /\ counts[equipped[p]] \in 0..MaxMVPs
        BY <2>8, PlayerFacts DEF Inventory
      <3> HIDE DEF counts, n, old
      <3>3. Agrees(s1 \o <<<<"item", Item(equipped[p], FALSE, counts[equipped[p]])>>>>,
                   lost[p], bySteam[p], localUser[p], n, none, counts)
        BY <2>1, <2>2, <2>3, <2>5, <2>6, <3>2, TellUnequipped
      <3> QED BY <3>1, <3>3 DEF s1
    <2> QED BY <2>7, <2>8
  <1> HIDE DEF old, counts
  <1> QED BY <1>1, <1>2, <1>5, <1>6, RefreshedFollows DEF n, st

LEMMA IncrementFollows ==
    ASSUME IInv, FollowInv, NEW p \in Players, NEW k \in Kits, IncrementKillCountAttribute(p, k)
    PROVE  FollowInv'
  <1> DEFINE counts == [mvps[p] EXCEPT ![k] = @ + 1]
             kit == equipped[p]
             n == FromInventory(counts, kit)
             st == States(localUser[p], n)
             items == IF kit = k THEN Items(counts, k, TRUE) ELSE <<>>
  <1>1. PICK owned \in SUBSET Kits : mvps[p] \in [owned -> 0..MaxMVPs]
    BY PlayerFacts DEF Inventory
  <1>2. k \in owned /\ mvps[p][k] + 1 \in 0..MaxMVPs
    BY <1>1, MusicKitAssumption DEF IncrementKillCountAttribute, Owned
  <1>3. counts \in Inventory /\ DOMAIN counts = DOMAIN mvps[p] /\ k \in DOMAIN counts
        /\ k # none
    BY <1>1, <1>2, MusicKitAssumption DEF Inventory
  <1>4. kit # none /\ kit # k => counts[kit] = mvps[p][kit]
    BY <1>1
  <1>5. kit \in Kits \cup {none} /\ (kit # none => kit \in DOMAIN counts)
    BY <1>3, PlayerFacts
  <1>6. Refreshed(p, counts, kit, items)
    BY DEF IncrementKillCountAttribute
  <1> HIDE DEF counts
  <1>7. items \in Seq(Message)
    <2>1. Items(counts, k, TRUE) \in Seq(Message)
      BY <1>3, ItemsTyped
    <2>2. <<>> \in Seq(Message)
      OBVIOUS
    <2> QED BY <2>1, <2>2, Zenon
  <1>8. n \in -1..MaxMVPs
    BY <1>3, <1>5, CountTyped
  <1>9. ASSUME Connected(p)
        PROVE  Agrees((link[p] \o st) \o items, lost[p], bySteam[p], localUser[p], n, kit, counts)
    <2> DEFINE s1 == link[p] \o st
    <2>1. /\ link[p] \in Seq(Message) /\ lost[p] \in Nat
          /\ Agrees(link[p], lost[p], bySteam[p], localUser[p], cached[p], kit, mvps[p])
          /\ Ordered(link[p], lost[p], localUser[p])
      BY <1>9, PlayerFacts
    <2>2. ASSUME localUser[p] # 0
          PROVE  Agrees(s1, lost[p], bySteam[p], localUser[p], n, kit, counts)
      <3> HIDE DEF n
      <3> QED BY <1>8, <1>9, <2>2, StateFollows
    <2>3. ASSUME localUser[p] = 0 PROVE s1 = link[p]
      <3>1. st = <<>>
        BY <2>3 DEF States
      <3>2. link[p] \o <<>> = link[p]
        BY <2>1
      <3> QED BY <3>1, <3>2, Zenon
    <2>4. Ordered(s1, lost[p], localUser[p])
      BY <2>1, <2>2, <2>3 DEF Agrees
    <2>5. s1 \in Seq(Message)
      <3>1. st \in Seq(Message)
        BY <1>8, StatesTyped DEF IInv, TypeOK
      <3> QED BY <2>1, <3>1, Concat
    <2>6. CASE kit = k
      <3> HIDE DEF s1, n
      <3>1. Agrees(s1 \o Items(counts, k, TRUE), lost[p], bySteam[p], localUser[p], n, k, counts)
        BY <1>3, <2>1, <2>4, <2>5, TellEquipped
      <3> QED BY <2>6, <3>1 DEF s1
    <2>7. CASE kit # k
      <3>1. s1 \o items = s1
        <4>1. s1 \o <<>> = s1
          BY <2>5
        <4> QED BY <2>7, <4>1, Zenon
      <3>2. ASSUME localUser[p] = 0
            PROVE  Agrees(s1, lost[p], bySteam[p], localUser[p], n, kit, counts)
        <4>1. kit # none => counts[kit] = mvps[p][kit]
          BY <1>4, <2>7
        <4> HIDE DEF n
        <4>2. Agrees(link[p], lost[p], bySteam[p], localUser[p], n, kit, counts)
          BY <2>1, <3>2, <4>1, OtherKit
        <4> QED BY <2>3, <3>2, <4>2
      <3> QED BY <2>2, <3>1, <3>2
    <2> QED BY <2>6, <2>7
  <1> HIDE DEF items
  <1> QED BY <1>3, <1>5, <1>6, <1>7, <1>9, RefreshedFollows DEF n, st

\* The kit that leaves the slot without a refresh: the mirror is wrong for a while.
LEMMA LeavesSlot ==
    ASSUME NEW s \in Seq(Message), NEW n \in Nat, NEW e, NEW local, NEW kit \in Kits,
           NEW x \in 0..MaxMVPs, NEW c \in 0..MaxMVPs, NEW counts, NEW after,
           Agrees(s, n, e, local, c, kit, counts)
    PROVE  Agrees(s \o <<<<"item", Item(kit, FALSE, x)>>>>, n, e, local, c, none, after)
  <1>1. Ordered(s, n, local)
    BY DEF Agrees
  <1>2. c # FromInventory(after, none)
    BY DEF FromInventory
  <1>3. local # 0 => Agrees(s, n, e, local, c, none, after)
    BY <1>1, <1>2 DEF Agrees
  <1> QED BY <1>1, <1>3, TellUnequipped

LEMMA RemoveItemFollows ==
    ASSUME IInv, FollowInv, NEW p \in Players, NEW k \in Kits, RemoveItem(p, k)
    PROVE  FollowInv'
  <1> DEFINE rest == [j \in Owned(p) \ {k} |-> mvps[p][j]]
             sent == IF equipped[p] = k THEN <<<<"item", Item(k, FALSE, 0)>>>> ELSE <<>>
             kit == IF equipped[p] = k THEN none ELSE equipped[p]
  <1>1. /\ Post(p, sent)
        /\ uid' = uid /\ lost' = lost /\ bySteam' = bySteam
        /\ cached' = cached /\ localUser' = localUser
    BY DEF RemoveItem, serverVars
  <1>2. mvps'[p] = rest /\ equipped'[p] = kit
    BY DEF RemoveItem, IInv, TypeOK
  <1>3. \A q \in Players \ {p} :
          /\ mvps'[q] = mvps[q] /\ equipped'[q] = equipped[q]
          /\ cached'[q] = cached[q] /\ localUser'[q] = localUser[q]
    BY <1>1 DEF RemoveItem, IInv, TypeOK
  <1>4. link \in [Players -> Seq(Message)] /\ link[p] \in Seq(Message) /\ lost[p] \in Nat
    BY PlayerFacts DEF IInv, TypeOK
  <1>5. sent \in Seq(Message)
    <2>1. Item(k, FALSE, 0) \in ItemMessage
      BY MusicKitAssumption DEF Item, ItemMessage
    <2>2. <<"item", Item(k, FALSE, 0)>> \in Message
      BY <2>1 DEF Message
    <2>3. <<<<"item", Item(k, FALSE, 0)>>>> \in Seq(Message)
      BY <2>2
    <2>4. <<>> \in Seq(Message)
      OBVIOUS
    <2> QED BY <2>3, <2>4, Zenon
  <1>6. kit # none => rest[kit] = mvps[p][kit]
    BY PlayerFacts DEF Owned
  <1>7. kit # none => cached[p] = rest[kit]
    BY <1>6, PlayerFacts
  <1>8. ASSUME Connected(p)
        PROVE  Agrees(link[p] \o sent, lost[p], bySteam[p], localUser[p], cached[p], kit, rest)
    <2>1. Agrees(link[p], lost[p], bySteam[p], localUser[p], cached[p], equipped[p], mvps[p])
      BY <1>8, PlayerFacts
    <2>2. CASE equipped[p] = k
      <3>1. cached[p] \in 0..MaxMVPs /\ 0 \in 0..MaxMVPs
        <4>1. k \in DOMAIN mvps[p] /\ cached[p] = mvps[p][k]
          BY <2>2, PlayerFacts, MusicKitAssumption
        <4> QED BY <4>1, PlayerFacts, MusicKitAssumption DEF Inventory
      <3> HIDE DEF rest
      <3>2. Agrees(link[p] \o <<<<"item", Item(k, FALSE, 0)>>>>, lost[p], bySteam[p],
                   localUser[p], cached[p], none, rest)
        BY <1>4, <2>1, <2>2, <3>1, LeavesSlot
      <3> QED BY <2>2, <3>2
    <2>3. CASE equipped[p] # k
      <3>1. link[p] \o sent = link[p]
        <4>1. link[p] \o <<>> = link[p]
          BY <1>4
        <4> QED BY <2>3, <4>1, Zenon
      <3>2. kit = equipped[p]
        BY <2>3
      <3> HIDE DEF rest, kit
      <3>3. Agrees(link[p], lost[p], bySteam[p], localUser[p], cached[p], kit, rest)
        BY <1>6, <2>1, <3>2, OtherKit
      <3> QED BY <3>1, <3>3
    <2> QED BY <2>2, <2>3
  <1> HIDE DEF rest, sent, kit
  <1>9. Connected(p) => Agrees(link[p] \o sent, lost[p], bySteam[p], localUser'[p], cached'[p],
                               equipped'[p], mvps'[p])
    BY <1>1, <1>2, <1>8
  <1>10. equipped'[p] # none => cached'[p] = mvps'[p][equipped'[p]]
    BY <1>1, <1>2, <1>7
  <1> QED BY <1>1, <1>3, <1>4, <1>5, <1>9, <1>10, PostFollows

LEMMA DepositFollows ==
    ASSUME IInv, FollowInv, NEW p \in Players, DepositItemToStorage(p)
    PROVE  FollowInv'
  <1> DEFINE x == mvps[p][equipped[p]]
             sent == <<<<"item", Item(equipped[p], FALSE, x)>>>>
  <1>1. /\ Post(p, Items(mvps[p], equipped[p], FALSE))
        /\ uid' = uid /\ lost' = lost /\ bySteam' = bySteam
        /\ cached' = cached /\ localUser' = localUser /\ mvps' = mvps
        /\ equipped[p] # none
    BY DEF DepositItemToStorage, serverVars
  <1>2. Items(mvps[p], equipped[p], FALSE) = sent
    BY <1>1 DEF Items
  <1>3. equipped'[p] = none /\ \A q \in Players \ {p} : equipped'[q] = equipped[q]
    BY DEF DepositItemToStorage, IInv, TypeOK
  <1>4. link \in [Players -> Seq(Message)] /\ link[p] \in Seq(Message) /\ lost[p] \in Nat
    BY PlayerFacts DEF IInv, TypeOK
  <1>5. sent \in Seq(Message)
    <2>1. Items(mvps[p], equipped[p], FALSE) \in Seq(Message)
      BY PlayerFacts, ItemsTyped
    <2> QED BY <1>2, <2>1
  <1>6. equipped[p] \in Kits /\ x \in 0..MaxMVPs /\ cached[p] = x
    BY <1>1, PlayerFacts DEF Inventory
  <1> HIDE DEF x
  <1>7. ASSUME Connected(p)
        PROVE  Agrees(link[p] \o sent, lost[p], bySteam[p], localUser[p], cached[p], none, mvps[p])
    <2>1. Agrees(link[p], lost[p], bySteam[p], localUser[p], cached[p], equipped[p], mvps[p])
      BY <1>7, PlayerFacts
    <2> QED BY <1>4, <1>6, <2>1, LeavesSlot
  <1> HIDE DEF sent
  <1>8. Connected(p) => Agrees(link[p] \o sent, lost[p], bySteam[p], localUser'[p], cached'[p],
                               equipped'[p], mvps'[p])
    BY <1>1, <1>3, <1>7
  <1>9. Post(p, sent)
    BY <1>1, <1>2
  <1> QED BY <1>1, <1>3, <1>4, <1>5, <1>8, <1>9, PostFollows

LEMMA SyncFollows ==
    ASSUME IInv, FollowInv, NEW p \in Players, SyncLocalPlayerMusicKitState(p)
    PROVE  FollowInv'
  <1> DEFINE st == States(uid[p], cached[p])
  <1>1. /\ Post(p, st) /\ Connected(p)
        /\ uid' = uid /\ lost' = lost /\ bySteam' = bySteam
        /\ cached' = cached /\ mvps' = mvps /\ equipped' = equipped
    BY DEF SyncLocalPlayerMusicKitState, serverVars
  <1>2. localUser'[p] = uid[p] /\ \A q \in Players \ {p} : localUser'[q] = localUser[q]
    BY DEF SyncLocalPlayerMusicKitState, IInv, TypeOK
  <1>3. /\ link \in [Players -> Seq(Message)] /\ link[p] \in Seq(Message) /\ lost[p] \in Nat
        /\ cached[p] \in -1..MaxMVPs
        /\ uid[p] \in {0} \cup UserId
        /\ Ordered(link[p], lost[p], localUser[p])
        /\ equipped[p] # none => cached[p] = mvps[p][equipped[p]]
    BY <1>1, PlayerFacts DEF IInv, TypeOK
  <1>4. st \in Seq(Message)
    BY <1>3, StatesTyped DEF IInv, TypeOK
  <1>5. uid[p] # 0 /\ Ordered(link[p], lost[p], uid[p])
    BY <1>1, <1>3 DEF Connected, Ordered
  <1>6. Agrees(link[p] \o st, lost[p], bySteam[p], uid[p], cached[p], equipped[p], mvps[p])
    BY <1>3, <1>5, TellState
  <1> HIDE DEF st
  <1>7. Connected(p) => Agrees(link[p] \o st, lost[p], bySteam[p], localUser'[p], cached'[p],
                               equipped'[p], mvps'[p])
    BY <1>1, <1>2, <1>6
  <1> QED BY <1>1, <1>2, <1>3, <1>4, <1>7, PostFollows

LEMMA RequestFollows ==
    ASSUME IInv, FollowInv, NEW p \in Players, HandleSOCacheRequest(p)
    PROVE  FollowInv'
  <1> DEFINE kit == equipped[p]
             items == Items(mvps[p], kit, TRUE)
  <1>1. /\ Post(p, items) /\ Connected(p)
        /\ uid' = uid /\ lost' = lost /\ bySteam' = bySteam
        /\ cached' = cached /\ mvps' = mvps /\ equipped' = equipped /\ localUser' = localUser
    BY DEF HandleSOCacheRequest, serverVars, clientVars
  <1>2. /\ link \in [Players -> Seq(Message)] /\ link[p] \in Seq(Message) /\ lost[p] \in Nat
        /\ Agrees(link[p], lost[p], bySteam[p], localUser[p], cached[p], kit, mvps[p])
        /\ Ordered(link[p], lost[p], localUser[p])
        /\ mvps[p] \in Inventory
        /\ kit # none => kit \in DOMAIN mvps[p] /\ cached[p] = mvps[p][kit]
    BY <1>1, PlayerFacts DEF IInv, TypeOK
  <1>3. items \in Seq(Message)
    BY <1>2, ItemsTyped
  <1>4. Agrees(link[p] \o items, lost[p], bySteam[p], localUser[p], cached[p], kit, mvps[p])
    <2>1. CASE kit = none
      <3>1. items = <<>>
        BY <2>1 DEF Items
      <3>2. link[p] \o <<>> = link[p]
        BY <1>2
      <3>3. link[p] \o items = link[p]
        BY <3>1, <3>2, Zenon
      <3> QED BY <1>2, <3>3
    <2>2. CASE kit # none
      BY <1>2, <2>2, TellEquipped
    <2> QED BY <2>1, <2>2
  <1> HIDE DEF items
  <1> QED BY <1>1, <1>2, <1>3, <1>4, PostFollows

\* A player who comes back finds nothing of the last connection.
LEMMA LeftAgrees ==
    ASSUME NEW s \in Seq(Message), NEW n, NEW e, NEW local, NEW c, NEW kit, NEW counts,
           Left(s, n, e)
    PROVE  Agrees(s, n, e, local, c, kit, counts)
  <1>1. n = 0
    BY DEF Left
  <1>2. CASE s = <<>>
    <2>1. Len(s) = 0 /\ e = none
      BY <1>2 DEF Left
    <2> QED BY <1>1, <2>1 DEF Agrees, Ordered, Shows, Says
  <1>3. CASE s # <<>>
    <2>1. Len(s) \in Nat /\ Len(s) # 0 /\ s[Len(s)][1] = "unsubscribe"
      BY <1>3 DEF Left
    <2>2. ASSUME NEW i \in 0..Len(s), i # Len(s) PROVE Len(s) \in i + 1 .. Len(s)
      BY <2>1, <2>2
    <2>3. ASSUME NEW i \in 1..Len(s), s[i][1] = "state"
          PROVE  \E j \in i + 1 .. Len(s) : s[j][1] = "unsubscribe"
      BY <2>1, <2>2, <2>3
    <2>4. ASSUME NEW j \in 0..Len(s), j # Len(s), NEW k
          PROVE  ~Kept(s, j, k) /\ ~LastWord(s, j)
      BY <2>1, <2>2, <2>4 DEF Kept, LastWord, Decides
    <2>5. Shows(s, e, kit, counts)
      <3>1. ASSUME NEW j \in 1..Len(s), s[j][1] = "item", NEW k, Kept(s, j, k) PROVE FALSE
        BY <2>1, <2>4, <3>1
      <3> QED BY <2>1, <2>4, <3>1 DEF Shows
    <2>6. Says(s, e, kit, counts)
      <3>1. ASSUME NEW j \in 1..Len(s), Counts(s[j]), LastWord(s, j) PROVE FALSE
        <4>1. j # Len(s)
          BY <2>1, <3>1 DEF Counts
        <4> QED BY <2>4, <3>1, <4>1
      <3> QED BY <2>1, <2>4, <3>1 DEF Says
    <2> QED BY <1>1, <2>3, <2>5, <2>6 DEF Agrees, Ordered
  <1> QED BY <1>2, <1>3

LEMMA ConnectFollows ==
    ASSUME IInv, FollowInv, NEW p \in Players, Connect(p)
    PROVE  FollowInv'
  <1>1. /\ ~Connected(p)
        /\ mvps' = mvps /\ equipped' = equipped /\ cached' = cached /\ localUser' = localUser
        /\ link' = link /\ lost' = lost /\ bySteam' = bySteam
        /\ \A q \in Players \ {p} : uid'[q] = uid[q]
    BY DEF Connect, clientVars, serverVars, IInv, TypeOK
  <1>2. ASSUME NEW q \in Players, q # p PROVE Follows(q)'
    <2>1. Follows(q)
      BY DEF FollowInv
    <2> QED BY <1>1, <1>2, <2>1, SameFollows
  <1>3. Agrees(link[p], lost[p], bySteam[p], localUser[p], cached[p], equipped[p], mvps[p])
    BY <1>1, PlayerFacts, LeftAgrees
  <1>4. equipped[p] # none => cached[p] = mvps[p][equipped[p]]
    BY PlayerFacts
  <1>5. uid'[p] # 0
    BY DEF Connect, IInv, TypeOK
  <1>6. Follows(p)'
    BY <1>1, <1>3, <1>4, <1>5 DEF Follows, Connected
  <1> QED BY <1>2, <1>6 DEF FollowInv

LEMMA DisconnectFollows ==
    ASSUME IInv, FollowInv, NEW p \in Players, Disconnect(p)
    PROVE  FollowInv'
  <1> DEFINE end == <<"unsubscribe", none>>
  <1>1. PICK n \in 0..Len(link[p]) : link' = [link EXCEPT ![p] = Append(SubSeq(@, 1, n), end)]
    BY DEF Disconnect
  <1> DEFINE s == SubSeq(link[p], 1, n)
  <1>2. /\ mvps' = mvps /\ equipped' = equipped /\ cached' = cached /\ localUser' = localUser
        /\ bySteam' = bySteam
        /\ uid'[p] = 0 /\ lost'[p] = 0
        /\ \A q \in Players \ {p} : uid'[q] = uid[q] /\ lost'[q] = lost[q] /\ link'[q] = link[q]
        /\ link'[p] = Append(s, end)
    BY <1>1 DEF Disconnect, clientVars, serverVars, IInv, TypeOK
  <1>3. ASSUME NEW q \in Players, q # p PROVE Follows(q)'
    <2>1. Follows(q)
      BY DEF FollowInv
    <2> QED BY <1>2, <1>3, <2>1, SameFollows
  <1>4. s \in Seq(Message) /\ end \in Message
    BY PlayerFacts DEF Message
  <1>5. end[1] = "unsubscribe"
    OBVIOUS
  <1> HIDE DEF s, end
  <1>6. Append(s, end) # <<>> /\ Append(s, end)[Len(Append(s, end))] = end
    BY <1>4
  <1>7. Left(link'[p], lost'[p], bySteam'[p])
    BY <1>2, <1>5, <1>6 DEF Left
  <1>8. equipped[p] # none => cached[p] = mvps[p][equipped[p]]
    BY PlayerFacts
  <1>9. Follows(p)'
    BY <1>2, <1>7, <1>8 DEF Follows, Connected
  <1> QED BY <1>3, <1>9 DEF FollowInv

\* After a loss nothing is claimed until a state is on its way.
LEMMA CutAgrees ==
    ASSUME NEW s \in Seq(Message), NEW n \in 0 .. Len(s) - 1, NEW e, NEW local, NEW c,
           NEW kit, NEW counts, NEW m, Ordered(s, m, local),
           \A i \in n + 1 .. Len(s) : s[i][1] # "unsubscribe"
    PROVE  Agrees(SubSeq(s, 1, n), n + 1, e, local, c, kit, counts)
  <1> DEFINE t == SubSeq(s, 1, n)
  <1>1. Len(s) \in Nat /\ n \in Nat /\ Len(t) = n /\ \A i \in 1..n : t[i] = s[i]
    OBVIOUS
  <1> HIDE DEF t
  <1>2. \A i : i \notin n + 1 .. Len(t)
    BY <1>1
  <1>3. ASSUME local = 0, NEW i \in 1..Len(t), t[i][1] = "state"
        PROVE  \E j \in i + 1 .. Len(t) : t[j][1] = "unsubscribe"
    <2>1. i \in 1..Len(s) /\ i \in 1..n /\ s[i][1] = "state"
      BY <1>1, <1>3
    <2>2. PICK j \in i + 1 .. Len(s) : s[j][1] = "unsubscribe"
      BY <1>3, <2>1 DEF Ordered
    <2>3. j \notin n + 1 .. Len(s)
      BY <2>2
    <2>4. j \in i + 1 .. Len(t) /\ t[j] = s[j]
      BY <1>1, <2>1, <2>2, <2>3
    <2> QED BY <2>2, <2>4
  <1>4. n + 1 # 0 /\ n + 1 <= Len(t) + 1
    BY <1>1
  <1> QED BY <1>2, <1>3, <1>4 DEF Agrees, Ordered, Settles, t

LEMMA LoseFollows ==
    ASSUME IInv, FollowInv, NEW p \in Players, Lose(p)
    PROVE  FollowInv'
  <1>1. PICK n \in 0 .. Len(link[p]) - 1 :
          /\ Reached(p, n)
          /\ link' = [link EXCEPT ![p] = SubSeq(@, 1, n)]
          /\ lost' = [lost EXCEPT ![p] = n + 1]
    BY DEF Lose
  <1>2. /\ Connected(p)
        /\ mvps' = mvps /\ equipped' = equipped /\ cached' = cached /\ localUser' = localUser
        /\ bySteam' = bySteam /\ uid' = uid
        /\ \A q \in Players \ {p} : lost'[q] = lost[q] /\ link'[q] = link[q]
        /\ link'[p] = SubSeq(link[p], 1, n) /\ lost'[p] = n + 1
    BY <1>1 DEF Lose, clientVars, serverVars, IInv, TypeOK
  <1>3. ASSUME NEW q \in Players, q # p PROVE Follows(q)'
    <2>1. Follows(q)
      BY DEF FollowInv
    <2> QED BY <1>2, <1>3, <2>1, SameFollows
  <1>4. Agrees(SubSeq(link[p], 1, n), n + 1, bySteam[p], localUser[p], cached[p], equipped[p], mvps[p])
    <2>1. link[p] \in Seq(Message) /\ Ordered(link[p], lost[p], localUser[p])
      BY <1>2, PlayerFacts
    <2>2. \A i \in n + 1 .. Len(link[p]) : link[p][i][1] # "unsubscribe"
      BY <1>1 DEF Reached
    <2> QED BY <2>1, <2>2, CutAgrees
  <1>5. equipped[p] # none => cached[p] = mvps[p][equipped[p]]
    BY PlayerFacts
  <1>6. Follows(p)'
    BY <1>2, <1>4, <1>5 DEF Follows, Connected
  <1> QED BY <1>3, <1>6 DEF FollowInv

-------------------------------------------------------------------------------
(* What the ServerGC makes of the next message.                            *)

\* e is the entry before the message h, f the one after it.
Handled(h, e, f) ==
    /\ Counts(h) => f.mvps = h[2].mvps /\ (h[1] = "item" => f.itemId = h[2].itemId)
    /\ Decides(h) /\ ~Counts(h) => f = none
    /\ ~Decides(h) => f = none \/ (f = e /\ (e # none => e.itemId # h[2].itemId))

After(n, h) == IF n > 1 THEN n - 1 ELSE IF h[1] = "state" THEN 0 ELSE n

LEMMA TailFacts ==
    ASSUME NEW s \in Seq(Message), s # <<>>
    PROVE  /\ Tail(s) \in Seq(Message) /\ Head(s) = s[1] /\ s[1] \in Message
           /\ Len(s) \in Nat /\ Len(s) > 0 /\ Len(Tail(s)) = Len(s) - 1
           /\ \A i \in 1..Len(Tail(s)) : Tail(s)[i] = s[i + 1]
  OBVIOUS

LEMMA OrderedTail ==
    ASSUME NEW s \in Seq(Message), s # <<>>, NEW n \in Nat, NEW local, Ordered(s, n, local)
    PROVE  Ordered(Tail(s), After(n, s[1]), local)
  <1> DEFINE t == Tail(s)
             m == After(n, s[1])
  <1>1. /\ Len(s) \in Nat /\ Len(s) > 0 /\ Len(t) = Len(s) - 1
        /\ \A i \in 1..Len(t) : t[i] = s[i + 1]
    BY TailFacts
  <1>2. m # 0 => n # 0 /\ m >= 1 /\ m \in Nat /\ (m = n - 1 \/ (m = n /\ n = 1))
    BY DEF After
  <1> HIDE DEF t, m
  <1>3. ASSUME m # 0
        PROVE  m <= Len(t) + 1 /\ \A i \in m..Len(t) : t[i][1] # "unsubscribe"
    <2>1. n <= Len(s) + 1 /\ \A i \in n..Len(s) : s[i][1] # "unsubscribe"
      BY <1>2, <1>3 DEF Ordered
    <2>2. ASSUME NEW i \in m..Len(t) PROVE t[i][1] # "unsubscribe"
      <3>1. i \in 1..Len(t) /\ i + 1 \in n..Len(s)
        BY <1>1, <1>2, <1>3
      <3> QED BY <1>1, <2>1, <3>1
    <2> QED BY <1>1, <1>2, <1>3, <2>1, <2>2
  <1>4. ASSUME local = 0, NEW i \in 1..Len(t), t[i][1] = "state"
        PROVE  \E j \in i + 1 .. Len(t) : t[j][1] = "unsubscribe"
    <2>1. i + 1 \in 1..Len(s) /\ s[i + 1][1] = "state"
      BY <1>1, <1>4
    <2>2. PICK j \in (i + 1) + 1 .. Len(s) : s[j][1] = "unsubscribe"
      BY <1>4, <2>1 DEF Ordered
    <2>3. j - 1 \in i + 1 .. Len(t) /\ j - 1 \in 1..Len(t) /\ (j - 1) + 1 = j
      BY <1>1, <2>2
    <2>4. t[j - 1] = s[j]
      BY <1>1, <2>3
    <2> QED BY <2>2, <2>3, <2>4
  <1> QED BY <1>3, <1>4 DEF Ordered, t, m

LEMMA SettlesTail ==
    ASSUME NEW s \in Seq(Message), s # <<>>, NEW n \in Nat, Settles(Tail(s), After(n, s[1]))
    PROVE  Settles(s, n)
  <1> DEFINE t == Tail(s)
             m == After(n, s[1])
  <1>1. /\ Len(s) \in Nat /\ Len(s) > 0 /\ Len(t) = Len(s) - 1
        /\ \A i \in 1..Len(t) : t[i] = s[i + 1]
    BY TailFacts
  <1>2. m # 0 => n # 0 /\ m >= 1 /\ m \in Nat /\ (m = n - 1 \/ (m = n /\ n = 1))
    BY DEF After
  <1>3. m = 0 => n = 0 \/ (n = 1 /\ s[1][1] = "state")
    BY DEF After
  <1>4. Settles(t, m)
    OBVIOUS
  <1> HIDE DEF t, m
  <1>5. CASE m = 0
    <2>1. n = 1 => 1 \in n..Len(s)
      BY <1>1
    <2> QED BY <1>3, <1>5, <2>1 DEF Settles
  <1>6. CASE m # 0
    <2>1. PICK i \in m..Len(t) : t[i][1] = "state"
      BY <1>4, <1>6 DEF Settles
    <2>2. i \in 1..Len(t) /\ i + 1 \in n..Len(s)
      BY <1>1, <1>2, <1>6
    <2> QED BY <1>1, <2>1, <2>2 DEF Settles
  <1> QED BY <1>5, <1>6

LEMMA SaysTail ==
    ASSUME NEW s \in Seq(Message), s # <<>>, NEW e, NEW f, NEW kit, NEW counts,
           Handled(s[1], e, f), Says(s, e, kit, counts)
    PROVE  Says(Tail(s), f, kit, counts)
  <1> DEFINE t == Tail(s)
  <1>1. /\ Len(s) \in Nat /\ Len(s) > 0 /\ Len(t) = Len(s) - 1
        /\ \A i \in 1..Len(t) : t[i] = s[i + 1]
    BY TailFacts
  <1>2. ASSUME NEW j \in 0..Len(t), LastWord(t, j) PROVE LastWord(s, j + 1)
    <2>1. j \in 0 .. Len(s) - 1
      BY <1>1
    <2> QED BY <1>2, <2>1, LastWordTail
  <1> HIDE DEF t
  <1>3. ASSUME NEW j \in 1..Len(t), LastWord(t, j), Counts(t[j])
        PROVE  kit # none /\ t[j][2].mvps = counts[kit]
    <2>1. j \in 0..Len(t) /\ j + 1 \in 1..Len(s) /\ t[j] = s[j + 1]
      BY <1>1
    <2>2. LastWord(s, j + 1) /\ Counts(s[j + 1])
      BY <1>2, <1>3, <2>1
    <2>3. kit # none /\ s[j + 1][2].mvps = counts[kit]
      BY <2>1, <2>2 DEF Says
    <2> QED BY <2>1, <2>3
  <1>4. ASSUME f # none, LastWord(t, 0)
        PROVE  kit # none /\ f.mvps = counts[kit]
    <2>1. LastWord(s, 1) /\ 1 \in 1..Len(s)
      <3>1. 0 \in 0..Len(t) /\ 0 + 1 = 1
        BY <1>1
      <3> QED BY <1>1, <1>2, <1>4, <3>1
    <2>2. CASE Counts(s[1])
      <3>1. f.mvps = s[1][2].mvps
        BY <2>2 DEF Handled
      <3>2. kit # none /\ s[1][2].mvps = counts[kit]
        BY <2>1, <2>2 DEF Says
      <3> QED BY <3>1, <3>2
    <2>3. CASE ~Decides(s[1])
      <3>1. f = e
        BY <1>4, <2>3 DEF Handled
      <3>2. ASSUME NEW i \in 0 + 1 .. Len(s) PROVE ~Decides(s[i])
        <4>1. CASE i = 1
          BY <2>3, <4>1
        <4>2. CASE i # 1
          <5>1. i \in 1 + 1 .. Len(s)
            BY <1>1, <4>2
          <5> QED BY <2>1, <5>1 DEF LastWord
        <4> QED BY <4>1, <4>2
      <3>3. LastWord(s, 0)
        BY <3>2 DEF LastWord
      <3> QED BY <1>4, <3>1, <3>3 DEF Says
    <2> QED BY <1>4, <2>2, <2>3 DEF Handled
  <1> QED BY <1>3, <1>4 DEF Says, t

LEMMA ShowsTail ==
    ASSUME NEW s \in Seq(Message), s # <<>>, NEW e, NEW f, NEW kit, NEW counts,
           Handled(s[1], e, f), Shows(s, e, kit, counts), Ordered(s, 0, 0)
    PROVE  Shows(Tail(s), f, kit, counts)
  <1> DEFINE t == Tail(s)
  <1>1. /\ Len(s) \in Nat /\ Len(s) > 0 /\ Len(t) = Len(s) - 1
        /\ \A i \in 1..Len(t) : t[i] = s[i + 1]
    BY TailFacts
  <1>2. ASSUME NEW j \in 0..Len(t), NEW k, Kept(t, j, k) PROVE Kept(s, j + 1, k)
    <2>1. j \in 0 .. Len(s) - 1
      BY <1>1
    <2> QED BY <1>2, <2>1, KeptTail
  <1> HIDE DEF t
  <1>3. ASSUME NEW j \in 1..Len(t), t[j][1] = "item", t[j][2].equipped, Kept(t, j, t[j][2].itemId)
        PROVE  kit # none /\ kit = t[j][2].itemId /\ t[j][2].mvps = counts[kit]
    <2>1. j \in 0..Len(t) /\ j + 1 \in 1..Len(s) /\ t[j] = s[j + 1]
      BY <1>1
    <2>2. Kept(s, j + 1, s[j + 1][2].itemId)
      BY <1>2, <1>3, <2>1
    <2> QED BY <1>3, <2>1, <2>2 DEF Shows
  <1>4. ASSUME f # none, Kept(t, 0, f.itemId)
        PROVE  kit # none /\ kit = f.itemId /\ f.mvps = counts[kit]
    <2>1. Kept(s, 1, f.itemId) /\ 1 \in 1..Len(s)
      <3>1. 0 \in 0..Len(t) /\ 0 + 1 = 1
        BY <1>1
      <3> QED BY <1>1, <1>2, <1>4, <3>1
    <2>2. CASE s[1][1] = "item" /\ s[1][2].equipped
      <3>1. f.mvps = s[1][2].mvps /\ f.itemId = s[1][2].itemId
        BY <2>2 DEF Handled, Counts
      <3> QED BY <2>1, <2>2, <3>1 DEF Shows
    <2>3. CASE s[1][1] = "state"
      <3>1. PICK j \in 1 + 1 .. Len(s) : s[j][1] = "unsubscribe"
        BY <2>1, <2>3 DEF Ordered
      <3> QED BY <2>1, <3>1 DEF Kept
    <2>4. CASE s[1][1] = "item" /\ ~s[1][2].equipped
      <3>1. ~Decides(s[1])
        BY <2>4 DEF Decides
      <3>2. f = e /\ e.itemId # s[1][2].itemId
        BY <1>4, <3>1 DEF Handled
      <3>3. ASSUME NEW i \in 0 + 1 .. Len(s)
            PROVE  s[i][1] = "item" /\ ~s[i][2].equipped /\ s[i][2].itemId # f.itemId
        <4>1. CASE i = 1
          BY <2>4, <3>2, <4>1
        <4>2. CASE i # 1
          <5>1. i \in 1 + 1 .. Len(s)
            BY <1>1, <4>2
          <5> QED BY <2>1, <5>1 DEF Kept
        <4> QED BY <4>1, <4>2
      <3>4. Kept(s, 0, f.itemId)
        BY <3>3 DEF Kept
      <3> QED BY <1>4, <3>2, <3>4 DEF Shows
    <2>5. CASE s[1][1] # "item" /\ s[1][1] # "state"
      <3>1. Decides(s[1]) /\ ~Counts(s[1])
        BY <2>5 DEF Decides, Counts
      <3> QED BY <1>4, <3>1 DEF Handled
    <2> QED BY <2>2, <2>3, <2>4, <2>5
  <1> QED BY <1>3, <1>4 DEF Shows, t

LEMMA HandledAgrees ==
    ASSUME NEW s \in Seq(Message), s # <<>>, NEW n \in Nat, NEW e, NEW f, NEW local, NEW c,
           NEW kit, NEW counts, Agrees(s, n, e, local, c, kit, counts), Handled(s[1], e, f)
    PROVE  Agrees(Tail(s), After(n, s[1]), f, local, c, kit, counts)
  <1>1. Ordered(s, n, local)
    BY DEF Agrees
  <1>2. Ordered(Tail(s), After(n, s[1]), local)
    BY <1>1, OrderedTail
  <1>3. ASSUME local = 0, After(n, s[1]) = 0
        PROVE  Shows(Tail(s), f, kit, counts)
    <2>1. Len(s) \in Nat /\ Len(s) > 0
      BY TailFacts
    <2>2. n = 0
      <3>1. n = 0 \/ (n = 1 /\ s[1][1] = "state")
        BY <1>3 DEF After
      <3>2. ASSUME n = 1, s[1][1] = "state" PROVE FALSE
        <4>1. 1 \in 1..Len(s)
          BY <2>1
        <4>2. PICK j \in 1 + 1 .. Len(s) : s[j][1] = "unsubscribe"
          BY <1>1, <1>3, <3>2, <4>1 DEF Ordered
        <4>3. j \in n..Len(s)
          BY <3>2, <4>2
        <4>4. s[j][1] # "unsubscribe"
          BY <1>1, <3>2, <4>3 DEF Ordered
        <4> QED BY <4>2, <4>4
      <3> QED BY <3>1, <3>2
    <2>3. Shows(s, e, kit, counts) /\ Ordered(s, 0, 0)
      BY <1>1, <1>3, <2>2 DEF Agrees
    <2> QED BY <2>3, ShowsTail
  <1>4. ASSUME local # 0, c = FromInventory(counts, kit), Settles(Tail(s), After(n, s[1]))
        PROVE  Says(Tail(s), f, kit, counts)
    <2>1. Settles(s, n)
      BY <1>4, SettlesTail
    <2>2. Says(s, e, kit, counts)
      BY <1>4, <2>1 DEF Agrees
    <2> QED BY <2>2, SaysTail
  <1> QED BY <1>2, <1>3, <1>4 DEF Agrees

LEMMA HandledLeft ==
    ASSUME NEW s \in Seq(Message), s # <<>>, NEW n \in Nat, NEW e, NEW f,
           Left(s, n, e), Handled(s[1], e, f)
    PROVE  Left(Tail(s), After(n, s[1]), f)
  <1> DEFINE t == Tail(s)
  <1>1. /\ t \in Seq(Message) /\ Len(s) \in Nat /\ Len(s) > 0 /\ Len(t) = Len(s) - 1
        /\ \A i \in 1..Len(t) : t[i] = s[i + 1]
    BY TailFacts
  <1>2. n = 0 /\ s[Len(s)][1] = "unsubscribe"
    BY DEF Left
  <1>3. After(n, s[1]) = 0
    BY <1>2 DEF After
  <1> HIDE DEF t
  <1>4. (t = <<>>) <=> Len(t) = 0
    <2>1. t \in Seq(Message)
      BY <1>1
    <2> QED BY <2>1
  <1>5. ASSUME t = <<>> PROVE f = none
    <2>1. s[1][1] = "unsubscribe"
      <3>1. Len(s) = 1
        BY <1>1, <1>4, <1>5
      <3> QED BY <1>2, <3>1
    <2>2. Decides(s[1]) /\ ~Counts(s[1])
      BY <2>1 DEF Decides, Counts
    <2> QED BY <2>2 DEF Handled
  <1>6. ASSUME t # <<>> PROVE t[Len(t)][1] = "unsubscribe"
    <2>1. Len(t) \in 1..Len(t) /\ Len(t) + 1 = Len(s)
      BY <1>1, <1>4, <1>6
    <2>2. t[Len(t)] = s[Len(s)]
      BY <1>1, <2>1
    <2> QED BY <1>2, <2>2
  <1> QED BY <1>3, <1>5, <1>6 DEF Left, t

LEMMA StoreEffect ==
    ASSUME bySteam \in [Players -> Entry \cup {none}], NEW p \in Players,
           NEW u, NEW k, NEW n, StoreMusicKitStateLocked(p, u, k, n)
    PROVE  /\ bySteam'[p].itemId = k /\ bySteam'[p].mvps = n
           /\ \A q \in Players \ {p} : bySteam'[q] = bySteam[q]
  BY DEF StoreMusicKitStateLocked

LEMMA HandleEffect ==
    ASSUME IInv, NEW p \in Players, HandleEvent(p)
    PROVE  /\ link[p] # <<>>
           /\ link'[p] = Tail(link[p])
           /\ lost'[p] = After(lost[p], link[p][1])
           /\ Handled(link[p][1], bySteam[p], bySteam'[p])
           /\ \A q \in Players \ {p} :
                link'[q] = link[q] /\ lost'[q] = lost[q] /\ bySteam'[q] = bySteam[q]
  <1> DEFINE type == Head(link[p])[1]
             m == Head(link[p])[2]
             h == link[p][1]
  <1>1. link[p] \in Seq(Message) /\ link[p] # <<>> /\ lost[p] \in Nat
    BY DEF HandleEvent, IInv, TypeOK
  <1>2. h \in Message /\ Head(link[p]) = h
    BY <1>1, TailFacts
  <1>3. type = h[1] /\ m = h[2]
    BY <1>2
  <1>4. link'[p] = Tail(link[p]) /\ \A q \in Players \ {p} : link'[q] = link[q] /\ lost'[q] = lost[q]
    BY DEF HandleEvent, IInv, TypeOK
  <1>5. lost'[p] = After(lost[p], h)
    BY <1>3 DEF HandleEvent, IInv, TypeOK, After
  <1>6. \/ type = "state" /\ UpdateMusicKitMVPState(p, m)
        \/ type = "item" /\ TrackMusicKitFromItem(p, m)
        \/ type = "unsubscribe" /\ ForgetMusicKitStateLocked(p)
    BY DEF HandleEvent
  <1> HIDE DEF type, m, h
  <1>7. bySteam \in [Players -> Entry \cup {none}]
    BY DEF IInv, TypeOK
  <1>8. ASSUME ForgetMusicKitStateLocked(p)
        PROVE  bySteam'[p] = none /\ \A q \in Players \ {p} : bySteam'[q] = bySteam[q]
    BY <1>7, <1>8 DEF ForgetMusicKitStateLocked
  <1>10. CASE type = "state" /\ UpdateMusicKitMVPState(p, m)
    <2>2. CASE m.has
      <3>2. StoreMusicKitStateLocked(p, m.userId, KnownItem(p), m.mvps)
        BY <1>10, <2>2 DEF UpdateMusicKitMVPState
      <3>3. bySteam'[p].mvps = m.mvps /\ \A q \in Players \ {p} : bySteam'[q] = bySteam[q]
        BY <1>7, <3>2, StoreEffect
      <3>4. Handled(h, bySteam[p], bySteam'[p])
        BY <1>3, <1>10, <2>2, <3>3 DEF Handled, Counts, Decides
      <3> QED BY <1>1, <1>4, <1>5, <3>3, <3>4 DEF h
    <2>3. CASE ~m.has
      <3>1. bySteam'[p] = none /\ \A q \in Players \ {p} : bySteam'[q] = bySteam[q]
        BY <1>8, <1>10, <2>3 DEF UpdateMusicKitMVPState
      <3>2. Handled(h, bySteam[p], bySteam'[p])
        BY <1>3, <1>10, <2>3, <3>1 DEF Handled, Counts, Decides
      <3> QED BY <1>1, <1>4, <1>5, <3>1, <3>2 DEF h
    <2> QED BY <2>2, <2>3
  <1>11. CASE type = "item" /\ TrackMusicKitFromItem(p, m)
    <2>2. CASE m.equipped
      <3>2. StoreMusicKitStateLocked(p, KnownUser(p), m.itemId, m.mvps)
        BY <1>11, <2>2 DEF TrackMusicKitFromItem
      <3>3. bySteam'[p].mvps = m.mvps /\ bySteam'[p].itemId = m.itemId
            /\ \A q \in Players \ {p} : bySteam'[q] = bySteam[q]
        BY <1>7, <3>2, StoreEffect
      <3>4. Handled(h, bySteam[p], bySteam'[p])
        BY <1>3, <1>11, <2>2, <3>3 DEF Handled, Counts, Decides
      <3> QED BY <1>1, <1>4, <1>5, <3>3, <3>4 DEF h
    <2>3. CASE ~m.equipped /\ KnownItem(p) = m.itemId
      <3>1. bySteam'[p] = none /\ \A q \in Players \ {p} : bySteam'[q] = bySteam[q]
        BY <1>8, <1>11, <2>3 DEF TrackMusicKitFromItem
      <3>2. Handled(h, bySteam[p], bySteam'[p])
        BY <1>3, <1>11, <2>3, <3>1 DEF Handled, Counts, Decides
      <3> QED BY <1>1, <1>4, <1>5, <3>1, <3>2 DEF h
    <2>4. CASE ~m.equipped /\ KnownItem(p) # m.itemId
      <3>1. bySteam' = bySteam
        BY <1>11, <2>4 DEF TrackMusicKitFromItem, serverVars
      <3>2. bySteam[p] # none => bySteam[p].itemId # m.itemId
        BY <2>4 DEF KnownItem
      <3>3. Handled(h, bySteam[p], bySteam'[p])
        BY <1>3, <1>11, <2>4, <3>1, <3>2 DEF Handled, Counts, Decides
      <3> QED BY <1>1, <1>4, <1>5, <3>1, <3>3 DEF h
    <2> QED BY <2>2, <2>3, <2>4
  <1>12. CASE type = "unsubscribe" /\ ForgetMusicKitStateLocked(p)
    <2>1. bySteam'[p] = none /\ \A q \in Players \ {p} : bySteam'[q] = bySteam[q]
      BY <1>8, <1>12
    <2>2. Handled(h, bySteam[p], bySteam'[p])
      BY <1>3, <1>12, <2>1 DEF Handled, Counts, Decides
    <2> QED BY <1>1, <1>4, <1>5, <2>1, <2>2 DEF h
  <1> QED BY <1>6, <1>10, <1>11, <1>12

LEMMA HandleFollows ==
    ASSUME IInv, FollowInv, NEW p \in Players, HandleEvent(p)
    PROVE  FollowInv'
  <1>1. /\ mvps' = mvps /\ equipped' = equipped /\ cached' = cached /\ localUser' = localUser
        /\ uid' = uid
    BY DEF HandleEvent, clientVars
  <1>2. ASSUME NEW q \in Players, q # p PROVE Follows(q)'
    <2>1. Follows(q)
      BY DEF FollowInv
    <2>2. link'[q] = link[q] /\ lost'[q] = lost[q] /\ bySteam'[q] = bySteam[q]
      BY <1>2, HandleEffect
    <2> QED BY <1>1, <2>1, <2>2, SameFollows
  <1>3. /\ link[p] # <<>> /\ link'[p] = Tail(link[p])
        /\ lost'[p] = After(lost[p], link[p][1])
        /\ Handled(link[p][1], bySteam[p], bySteam'[p])
    BY HandleEffect
  <1>4. link[p] \in Seq(Message) /\ lost[p] \in Nat
        /\ (equipped[p] # none => cached[p] = mvps[p][equipped[p]])
    BY PlayerFacts
  <1>5. CASE Connected(p)
    <2>1. Agrees(link[p], lost[p], bySteam[p], localUser[p], cached[p], equipped[p], mvps[p])
      BY <1>5, PlayerFacts
    <2>2. Agrees(Tail(link[p]), After(lost[p], link[p][1]), bySteam'[p], localUser[p],
                 cached[p], equipped[p], mvps[p])
      BY <1>3, <1>4, <2>1, HandledAgrees
    <2>3. Follows(p)'
      BY <1>1, <1>3, <1>4, <1>5, <2>2 DEF Follows, Connected
    <2> QED BY <1>2, <2>3 DEF FollowInv
  <1>6. CASE ~Connected(p)
    <2>1. Left(link[p], lost[p], bySteam[p])
      BY <1>6, PlayerFacts
    <2>2. Left(Tail(link[p]), After(lost[p], link[p][1]), bySteam'[p])
      BY <1>3, <1>4, <2>1, HandledLeft
    <2>3. Follows(p)'
      BY <1>1, <1>3, <1>4, <1>6, <2>2 DEF Follows, Connected
    <2> QED BY <1>2, <2>3 DEF FollowInv
  <1> QED BY <1>5, <1>6

\* The player starts the game anew, or plays on another server.
LEMMA AwayFollows ==
    ASSUME IInv, FollowInv, NEW p \in Players,
           NewClient(p) \/ \E u \in UserId : PlaysElsewhere(p, u)
    PROVE  FollowInv'
  <1>1. /\ ~Connected(p)
        /\ mvps' = mvps /\ equipped' = equipped
        /\ uid' = uid /\ link' = link /\ lost' = lost /\ bySteam' = bySteam
        /\ \A q \in Players \ {p} : cached'[q] = cached[q] /\ localUser'[q] = localUser[q]
        /\ cached'[p] = cached[p] \/ cached'[p] = FromInventory(mvps[p], equipped[p])
    BY DEF NewClient, PlaysElsewhere, serverVars, netVars, IInv, TypeOK
  <1>2. ASSUME NEW q \in Players, q # p PROVE Follows(q)'
    <2>1. Follows(q)
      BY DEF FollowInv
    <2> QED BY <1>1, <1>2, <2>1, SameFollows
  <1>3. equipped[p] # none => cached'[p] = mvps[p][equipped[p]]
    BY <1>1, PlayerFacts DEF FromInventory
  <1>4. Left(link[p], lost[p], bySteam[p])
    BY <1>1, PlayerFacts
  <1>5. Follows(p)'
    BY <1>1, <1>3, <1>4 DEF Follows, Connected
  <1> QED BY <1>2, <1>5 DEF FollowInv

LEMMA FollowInit == Init => FollowInv
  <1> SUFFICES ASSUME Init, NEW p \in Players PROVE Follows(p)
    BY DEF FollowInv
  <1>1. link[p] = <<>> /\ lost[p] = 0 /\ bySteam[p] = none /\ uid[p] = 0
        /\ cached[p] = FromInventory(mvps[p], equipped[p])
    BY DEF Init
  <1> QED BY <1>1 DEF Follows, Connected, Left, FromInventory

LEMMA FollowStep == IInv /\ FollowInv /\ [Next]_vars => FollowInv'
  <1> SUFFICES ASSUME IInv, FollowInv, [Next]_vars PROVE FollowInv'
    OBVIOUS
  <1>1. ASSUME ModeChanges \/ UNCHANGED vars PROVE FollowInv'
    <2>1. /\ mvps' = mvps /\ equipped' = equipped /\ cached' = cached /\ localUser' = localUser
          /\ uid' = uid /\ link' = link /\ lost' = lost /\ bySteam' = bySteam
      BY <1>1 DEF ModeChanges, vars, clientVars, serverVars, netVars
    <2>2. ASSUME NEW q \in Players PROVE Follows(q)'
      <3>1. Follows(q)
        BY DEF FollowInv
      <3> QED BY <2>1, <3>1, SameFollows
    <2> QED BY <2>2 DEF FollowInv
  <1>2. ASSUME NEW p \in Players, PlayerStep(p) PROVE FollowInv'
    <2>1. CASE \E k \in Kits : Equip(p, k) \/ IncrementKillCountAttribute(p, k) \/ RemoveItem(p, k)
      BY <2>1, EquipFollows, IncrementFollows, RemoveItemFollows
    <2>2. CASE LocalPlayerRoundMVP(p)
      <3>1. equipped[p] \in Kits /\ IncrementKillCountAttribute(p, equipped[p])
        BY <2>2 DEF LocalPlayerRoundMVP, IInv, TypeOK
      <3> QED BY <3>1, IncrementFollows
    <2>3. CASE Unequip(p) \/ DepositItemToStorage(p)
      BY <2>3, UnequipFollows, DepositFollows
    <2>4. CASE SyncLocalPlayerMusicKitState(p) \/ HandleSOCacheRequest(p)
      BY <2>4, SyncFollows, RequestFollows
    <2>5. CASE NewClient(p) \/ \E u \in UserId : PlaysElsewhere(p, u)
      BY <2>5, AwayFollows
    <2>6. CASE Connect(p) \/ Disconnect(p) \/ Lose(p)
      BY <2>6, ConnectFollows, DisconnectFollows, LoseFollows
    <2>7. CASE HandleEvent(p)
      BY <2>7, HandleFollows
    <2> QED BY <1>2, <2>1, <2>2, <2>3, <2>4, <2>5, <2>6, <2>7 DEF PlayerStep
  <1> QED BY <1>1, <1>2 DEF Next

LEMMA FollowImplies == IInv /\ FollowInv => CountFollowsKit
  <1> SUFFICES ASSUME IInv, FollowInv, NEW p \in Players, bySteam[p] # none, link[p] = <<>>
               PROVE  /\ Connected(p)
                      /\ lost[p] = 0 /\ cached[p] = FromInventory(mvps[p], equipped[p])
                           => equipped[p] # none /\ bySteam[p].mvps = mvps[p][equipped[p]]
    BY DEF CountFollowsKit
  <1>1. Connected(p)
    BY PlayerFacts DEF Left
  <1>2. Agrees(link[p], lost[p], bySteam[p], localUser[p], cached[p], equipped[p], mvps[p])
    BY <1>1, PlayerFacts
  <1>3. LastWord(link[p], 0) /\ \A k : Kept(link[p], 0, k)
    BY DEF LastWord, Kept
  <1>4. lost[p] = 0 => Settles(link[p], lost[p])
    BY DEF Settles
  <1> QED BY <1>1, <1>2, <1>3, <1>4 DEF Agrees, Shows, Says

-------------------------------------------------------------------------------
\* The two tables, the mirror and the messages are of the right types: no count is
\* out of range and no user id unknown to the engine is sent.
THEOREM TypeCorrect == Spec => []TypeOK
  <1>1. IInv => TypeOK
    BY DEF IInv
  <1> QED BY <1>1, InvariantHolds, PTL

\* round_mvp never shows a count that was forgotten or replaced, for any number of
\* players, whatever user ids they bring along from other servers.
THEOREM NoStaleLookup == Spec => []NoOrphanEntry
  BY Initial, StepKeeps, InvariantHolds, PTL DEF Spec

\* Once the messages of a player are handled, the count the server shows is that of
\* the kit in the slot, and it has none of a player who is gone: for any number of
\* players, kits and messages, with losses and changes of server, wherever the
\* client's own mirror is right.
THEOREM CountIsThatOfTheKit == Spec => []CountFollowsKit
  BY FollowInit, FollowStep, FollowImplies, InvariantHolds, PTL DEF Spec
===============================================================================

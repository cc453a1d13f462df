-------------------------------- MODULE MusicKit --------------------------------
(***************************************************************************)
(* The MVP counter of StatTrak music kits.  The counter is an attribute of *)
(* an item in the player's inventory.  The ClientGC mirrors the count of   *)
(* the equipped kit in m_cachedMusicKitMVPs; the ServerGC keeps a copy per *)
(* player, found by Steam id and by the engine's user id, which it writes  *)
(* into round_mvp events (gc_client.cpp, gc_server.cpp, steam_hook.cpp).   *)
(*                                                                         *)
(* The ServerGC learns of it from two kinds of messages that travel in     *)
(* order: states, which carry the user id and the count, and the items of  *)
(* the socache and its updates.  The link stands for the network and the   *)
(* ServerGC's event queue; Handshake models what is behind it.             *)
(*                                                                         *)
(* All kits modelled are StatTrak ones: for the counter, equipping another *)
(* kit is what emptying the slot is.                                       *)
(***************************************************************************)
EXTENDS Integers, Sequences

CONSTANTS
    Players,      \* Steam ids
    Kits,         \* item ids of a player's kits
    none,
    MaxUserId,    \* bound: user ids the engine hands out
    MaxMVPs,      \* bound: counts
    MaxMessages,  \* bound: messages on a link
    MaxChanges    \* bound: what the players do in all

ASSUME MusicKitAssumption ==
    /\ none \notin Kits
    /\ MaxUserId \in Nat
    /\ MaxMVPs \in Nat

VARIABLES
    mvps,       \* per player: the kits in the inventory, with their counters
    equipped,   \* per player: the kit in the music kit slot, or none
    cached,     \* m_cachedMusicKitMVPs, -1 without a kit
    localUser,  \* m_localUserId
    gate,       \* MusicKit::ShouldTrackStatTrak in the present game mode
    uid,        \* per player: the user id on this server, 0 when not connected
    lastUid,    \* the last user id the engine handed out
    link,       \* per player: messages on their way to the ServerGC
    bySteam,    \* m_musicKitMVPStateBySteamId
    byUser,     \* m_musicKitMVPStateByUserId
    lost,       \* history: see Lose
    changes     \* for the bound

clientVars == <<mvps, equipped, cached, localUser>>
serverVars == <<bySteam, byUser>>
netVars == <<uid, lastUid, link, lost>>
vars == <<clientVars, serverVars, netVars, gate, changes>>

UserId == 1..MaxUserId
Connected(p) == uid[p] # 0
Owned(p) == DOMAIN mvps[p]

Inventory == UNION {[kits -> 0..MaxMVPs] : kits \in SUBSET Kits}

\* MusicKitMVPState; a state whose kit the server has not seen has no item id, and
\* one that came with an item may have no user id.
Entry == [userId : {0} \cup UserId, itemId : Kits \cup {none}, mvps : 0..MaxMVPs]

State(u, n) == [userId |-> u, has |-> n >= 0, mvps |-> IF n >= 0 THEN n ELSE 0]
Item(k, e, n) == [itemId |-> k, equipped |-> e, mvps |-> n]

StateMessage == [userId : UserId, has : BOOLEAN, mvps : 0..MaxMVPs]
ItemMessage == [itemId : Kits, equipped : BOOLEAN, mvps : 0..MaxMVPs]
Message == ({"state"} \X StateMessage) \cup ({"item"} \X ItemMessage)
             \cup {<<"unsubscribe", none>>}

\* CachedMusicKitMVPsFromInventory
FromInventory(counts, kit) == IF kit = none THEN -1 ELSE counts[kit]

Init ==
    /\ mvps = [p \in Players |-> [k \in Kits |-> 0]]
    /\ equipped \in [Players -> Kits \cup {none}]
    /\ cached = [p \in Players |-> FromInventory(mvps[p], equipped[p])]
    /\ localUser = [p \in Players |-> 0]
    /\ gate = TRUE
    /\ uid = [p \in Players |-> 0]
    /\ lastUid = 0
    /\ link = [p \in Players |-> <<>>]
    /\ bySteam = [p \in Players |-> none]
    /\ byUser = [u \in UserId |-> none]
    /\ lost = [p \in Players |-> 0]
    /\ changes = 0

-------------------------------------------------------------------------------
(* The ClientGC.                                                           *)

\* PostToHost(NetMessage): what is sent without a connection is gone.
Post(p, messages) ==
    IF Connected(p)
    THEN /\ Len(link[p]) + Len(messages) <= MaxMessages
         /\ link' = [link EXCEPT ![p] = @ \o messages]
    ELSE UNCHANGED link

\* SendMusicKitMVPStateToGameServer, with the cache at n and the user id u
States(u, n) ==
    IF u > 0 THEN <<<<"state", State(u, IF gate THEN n ELSE -1)>>>> ELSE <<>>

Items(counts, kit, e) == IF kit = none THEN <<>> ELSE <<<<"item", Item(kit, e, counts[kit])>>>>

Change ==
    /\ changes < MaxChanges
    /\ changes' = changes + 1

\* A handler that leaves the player with the inventory counts and kit, refreshes the
\* cache and sends items after the state.
Refreshed(p, counts, kit, items) ==
    LET n == FromInventory(counts, kit) IN
    /\ Change
    /\ mvps' = [mvps EXCEPT ![p] = counts]
    /\ equipped' = [equipped EXCEPT ![p] = kit]
    /\ cached' = [cached EXCEPT ![p] = n]
    /\ Post(p, States(localUser[p], n) \o items)
    /\ UNCHANGED <<localUser, gate, serverVars, uid, lastUid, lost>>

\* EquipItem empties the slot first, also when the kit is in it already.
Equip(p, k) ==
    /\ k \in Owned(p)
    /\ Refreshed(p, mvps[p], k,
         Items(mvps[p], equipped[p], FALSE) \o Items(mvps[p], k, TRUE))

Unequip(p) == Refreshed(p, mvps[p], none, Items(mvps[p], equipped[p], FALSE))

\* The game server counts for an item of the player, whatever it is.
IncrementKillCountAttribute(p, k) ==
    /\ k \in Owned(p)
    /\ mvps[p][k] < MaxMVPs
    /\ LET counts == [mvps[p] EXCEPT ![k] = @ + 1] IN
         Refreshed(p, counts, equipped[p],
           IF equipped[p] = k THEN Items(counts, k, TRUE) ELSE <<>>)

\* round_mvp of the local player; the state for the user id was sent just before.
LocalPlayerRoundMVP(p) ==
    /\ Connected(p) /\ localUser[p] = uid[p]
    /\ gate
    /\ equipped[p] # none
    /\ IncrementKillCountAttribute(p, equipped[p])

\* Deleting an item, by the player or over RCON, does not refresh the cache.  The
\* game server hears of it when it knew the item as equipped.
RemoveItem(p, k) ==
    /\ k \in Owned(p)
    /\ Change
    /\ mvps' = [mvps EXCEPT ![p] = [j \in Owned(p) \ {k} |-> mvps[p][j]]]
    /\ equipped' = [equipped EXCEPT ![p] = IF @ = k THEN none ELSE @]
    /\ Post(p, IF equipped[p] = k THEN <<<<"item", Item(k, FALSE, 0)>>>> ELSE <<>>)
    /\ UNCHANGED <<cached, localUser, gate, serverVars, uid, lastUid, lost>>

\* An item that is put into a casket leaves its slot, and the cache is not refreshed
\* either.  The casket, where the kit may come from again, is not part of the model.
DepositItemToStorage(p) ==
    /\ equipped[p] # none
    /\ Change
    /\ equipped' = [equipped EXCEPT ![p] = none]
    /\ Post(p, Items(mvps[p], equipped[p], FALSE))
    /\ UNCHANGED <<mvps, cached, localUser, gate, serverVars, uid, lastUid, lost>>

\* round_start and round_mvp tell the ClientGC its user id, on this server ...
SyncLocalPlayerMusicKitState(p) ==
    /\ Connected(p)
    /\ Change
    /\ localUser' = [localUser EXCEPT ![p] = uid[p]]
    /\ Post(p, States(uid[p], cached[p]))
    /\ UNCHANGED <<mvps, equipped, cached, gate, serverVars, uid, lastUid, lost>>

\* ... or on another.
PlaysElsewhere(p, u) ==
    /\ ~Connected(p)
    /\ Change
    /\ localUser' = [localUser EXCEPT ![p] = u]
    /\ UNCHANGED <<mvps, equipped, cached, gate, serverVars, netVars>>

\* ClientGC's constructor: the player starts the game anew.
NewClient(p) ==
    /\ ~Connected(p)
    /\ Change
    /\ localUser' = [localUser EXCEPT ![p] = 0]
    /\ cached' = [cached EXCEPT ![p] = FromInventory(mvps[p], equipped[p])]
    /\ UNCHANGED <<mvps, equipped, gate, serverVars, netVars>>

\* Answers every connect message; the socache has the equipped items only.
HandleSOCacheRequest(p) ==
    /\ Connected(p)
    /\ Change
    /\ Post(p, Items(mvps[p], equipped[p], TRUE))
    /\ UNCHANGED <<clientVars, gate, serverVars, uid, lastUid, lost>>

-------------------------------------------------------------------------------
(* The connection.                                                         *)

Connect(p) ==
    /\ ~Connected(p)
    /\ lastUid < MaxUserId
    /\ lastUid' = lastUid + 1
    /\ uid' = [uid EXCEPT ![p] = lastUid + 1]
    /\ UNCHANGED <<clientVars, serverVars, link, lost, gate, changes>>

\* The first n messages have reached the ServerGC's queue, which nothing leaves.
Reached(p, n) == \A i \in n + 1 .. Len(link[p]) : link[p][i][1] # "unsubscribe"

Disconnect(p) ==
    /\ Connected(p)
    /\ \E n \in 0..Len(link[p]) :
         /\ Reached(p, n)
         /\ link' = [link EXCEPT ![p] =
              Append(SubSeq(@, 1, n), <<"unsubscribe", none>>)]
    /\ uid' = [uid EXCEPT ![p] = 0]
    /\ lost' = [lost EXCEPT ![p] = 0]
    /\ UNCHANGED <<clientVars, serverVars, lastUid, gate, changes>>

\* The session breaks and what is in flight is lost.  lost becomes one more than the
\* number of messages that were sent earlier and have yet to be handled, and 0 again
\* when a later state is handled.
Lose(p) ==
    /\ Connected(p)
    /\ Change
    /\ \E n \in 0 .. Len(link[p]) - 1 :
         /\ Reached(p, n)
         /\ link' = [link EXCEPT ![p] = SubSeq(@, 1, n)]
         /\ lost' = [lost EXCEPT ![p] = n + 1]
    /\ UNCHANGED <<clientVars, serverVars, uid, lastUid, gate>>

ModeChanges ==
    /\ Change
    /\ gate' = ~gate
    /\ UNCHANGED <<clientVars, serverVars, netVars>>

-------------------------------------------------------------------------------
(* The ServerGC.  Each step holds m_musicKitMVPStateMutex once.            *)

KnownUser(p) == IF bySteam[p] = none THEN 0 ELSE bySteam[p].userId
KnownItem(p) == IF bySteam[p] = none THEN none ELSE bySteam[p].itemId

ForgetMusicKitStateLocked(p) ==
    /\ bySteam' = [bySteam EXCEPT ![p] = none]
    /\ byUser' = [u \in UserId |-> IF u = KnownUser(p) THEN none ELSE byUser[u]]

StoreMusicKitStateLocked_KeepsOldId(p, u, k, n) ==
    LET state == [userId |-> u, itemId |-> k, mvps |-> n] IN
    /\ bySteam' = [bySteam EXCEPT ![p] = state]
    /\ byUser' = [v \in UserId |-> IF v = u THEN state ELSE byUser[v]]

\* Drop the entry of the user id the player had before, then store under both.
StoreMusicKitStateLocked(p, u, k, n) ==
    LET state == [userId |-> u, itemId |-> k, mvps |-> n] IN
    /\ bySteam' = [bySteam EXCEPT ![p] = state]
    /\ byUser' = [v \in UserId |-> IF v = u THEN state
                                   ELSE IF v = KnownUser(p) THEN none
                                   ELSE byUser[v]]

UpdateMusicKitMVPState_IgnoresUnequip(p, m) ==
    IF m.has THEN StoreMusicKitStateLocked(p, m.userId, KnownItem(p), m.mvps)
    ELSE UNCHANGED serverVars

UpdateMusicKitMVPState(p, m) ==
    IF m.has THEN StoreMusicKitStateLocked(p, m.userId, KnownItem(p), m.mvps)
    ELSE ForgetMusicKitStateLocked(p)

\* An equipped kit keeps the user id already known; an item that is no equipped
\* kit ends the state that came with it.
TrackMusicKitFromItem(p, m) ==
    IF m.equipped THEN StoreMusicKitStateLocked(p, KnownUser(p), m.itemId, m.mvps)
    ELSE IF KnownItem(p) = m.itemId THEN ForgetMusicKitStateLocked(p)
    ELSE UNCHANGED serverVars

HandleEvent(p) ==
    /\ link[p] # <<>>
    /\ link' = [link EXCEPT ![p] = Tail(@)]
    /\ LET type == Head(link[p])[1]
           m == Head(link[p])[2]
       IN  /\ \/ type = "state" /\ UpdateMusicKitMVPState(p, m)
              \/ type = "item" /\ TrackMusicKitFromItem(p, m)
              \/ type = "unsubscribe" /\ ForgetMusicKitStateLocked(p)
           /\ lost' = [lost EXCEPT ![p] =
                IF @ > 1 THEN @ - 1
                ELSE IF type = "state" THEN 0 ELSE @]
    /\ UNCHANGED <<clientVars, uid, lastUid, gate, changes>>

-------------------------------------------------------------------------------
PlayerStep(p) ==
    \/ \E k \in Kits : Equip(p, k) \/ IncrementKillCountAttribute(p, k) \/ RemoveItem(p, k)
    \/ Unequip(p) \/ DepositItemToStorage(p) \/ LocalPlayerRoundMVP(p)
    \/ SyncLocalPlayerMusicKitState(p) \/ HandleSOCacheRequest(p)
    \/ (\E u \in UserId : PlaysElsewhere(p, u)) \/ NewClient(p)
    \/ Connect(p) \/ Disconnect(p) \/ Lose(p)
    \/ HandleEvent(p)

Next == ModeChanges \/ \E p \in Players : PlayerStep(p)

Spec == Init /\ [][Next]_vars

-------------------------------------------------------------------------------
TypeOK ==
    /\ mvps \in [Players -> Inventory]
    /\ equipped \in [Players -> Kits \cup {none}]
    /\ cached \in [Players -> -1..MaxMVPs]
    /\ localUser \in [Players -> {0} \cup UserId]
    /\ gate \in BOOLEAN
    /\ uid \in [Players -> {0} \cup UserId]
    /\ lastUid \in 0..MaxUserId
    /\ link \in [Players -> Seq(Message)]
    /\ bySteam \in [Players -> Entry \cup {none}]
    /\ byUser \in [UserId -> Entry \cup {none}]
    /\ lost \in [Players -> Nat]
    /\ changes \in Nat

\* What round_mvp finds under a user id is what some player on record has under that
\* very id: a state that was forgotten or replaced is not found any more, although
\* ids change, are those of another server, and may be those of another player
\* (gc_server.cpp:70-84, 87-101).
NoOrphanEntry ==
    \A u \in UserId :
        byUser[u] # none =>
            \E p \in Players : bySteam[p] = byUser[u] /\ bySteam[p].userId = u

\* The count the server has of a player whose messages it has handled is that of
\* the kit in the slot, and it has none of a player who is gone: whatever the order of
\* changes, states and items, and after a loss as soon as one more state arrives
\* (gc_client.cpp:455-474, gc_server.cpp:103-135).  Except where the client itself is
\* wrong, because the kit in the slot was deleted or put away without a refresh.
CountFollowsKit ==
    \A p \in Players : bySteam[p] # none /\ link[p] = <<>> =>
        /\ Connected(p)
        /\ lost[p] = 0 /\ cached[p] = FromInventory(mvps[p], equipped[p])
             => equipped[p] # none /\ bySteam[p].mvps = mvps[p][equipped[p]]
===============================================================================

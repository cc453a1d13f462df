-------------------------------- MODULE Loadout --------------------------------
(***************************************************************************)
(* What the player has equipped, and who knows about it.  The Inventory    *)
(* keeps it in two places: the equipped_state of the player's items and    *)
(* m_defaultEquips for the game's base items.  Nothing but the updates the *)
(* ClientGC publishes tells the game, whose shared object cache holds a    *)
(* copy of the items and, keyed by class and slot, of the default equips.  *)
(* The game server gets the same updates, reduced to what concerns         *)
(* equipped items, on top of the snapshot it asked for.                    *)
(***************************************************************************)
EXTENDS Naturals, SequencesExt

CONSTANTS
    Classes, Slots,   \* of the loadout
    NoTeam, Graffiti, \* the class and the slot of the spray
    Defaults,         \* definition indexes of base items
    InitialItems,     \* ids of the items in the inventory file
    Sealed,           \* those of them that are sealed sprays
    MaxServerSOCacheItems, \* of a player, that a game server accepts
    MaxId,            \* bound: item ids
    none

ASSUME LoadoutAssumption ==
    /\ NoTeam \in Classes
    /\ Graffiti \in Slots
    /\ InitialItems \subseteq 1..MaxId
    /\ Sealed \subseteq InitialItems
    /\ none \notin Defaults
    /\ {MaxServerSOCacheItems, MaxId} \subseteq Nat

VARIABLES
    items,    \* m_items: id -> item
    defaults, \* m_defaultEquips
    lastId,   \* the last id handed out
    tracked,  \* m_gameServerEquippedItems
    game,     \* the game's copy
    linked,   \* the game server has accepted a snapshot and is still there
    server    \* the game server's copy

inventoryVars == <<items, defaults, lastId>>
vars == <<inventoryVars, tracked, game, linked, server>>

Place == Classes \X Slots

Item == [equipped : SUBSET Place, sealed : BOOLEAN]

DefaultEquip == [def : Defaults, at : Place]

Held == DOMAIN items

Equipped(its) == {i \in DOMAIN its : its[i].equipped # {}}

\* BuildCacheSubscription, for the game and for a game server.
Snapshot(its, des, ids) ==
    [items |-> [i \in ids |-> its[i]],
     defaults |-> [at \in {e.at : e \in des} |-> (CHOOSE e \in des : e.at = at).def]]

Nothing == [items |-> <<>>, defaults |-> <<>>]

Init ==
    /\ items = [i \in InitialItems |->
                  [equipped |-> {}, sealed |-> i \in Sealed]]
    /\ defaults = {}
    /\ lastId \in {0} \cup InitialItems /\ \A i \in InitialItems : i <= lastId
    /\ tracked = {}
    /\ game = Snapshot(items, defaults, Held)
    /\ linked = FALSE
    /\ server = Nothing

-------------------------------------------------------------------------------
(* Shared objects and what their receivers do with them.                   *)

ItemObject(i, its) == [kind |-> "item", id |-> i, item |-> its[i]]
DestroyObject(i) == [kind |-> "destroy", id |-> i]
DefaultObject(e) == [kind |-> "default", def |-> e.def, at |-> e.at]
ClearedObject(e) == [kind |-> "default", def |-> none, at |-> e.at]

With(f, x, v) == [y \in DOMAIN f \cup {x} |-> IF y = x THEN v ELSE f[y]]
Without(f, x) == [y \in DOMAIN f \ {x} |-> f[y]]

Receive(cache, o) ==
    CASE o.kind = "item" -> [cache EXCEPT !.items = With(@, o.id, o.item)]
      [] o.kind = "destroy" -> [cache EXCEPT !.items = Without(@, o.id)]
      [] o.kind = "default" /\ o.def = none -> [cache EXCEPT !.defaults = Without(@, o.at)]
      [] o.kind = "default" /\ o.def # none -> [cache EXCEPT !.defaults = With(@, o.at, o.def)]

GameServerItemDirty_EquippedOnly(filter, o) ==
    LET forwarded == [filter EXCEPT !.objects = Append(@, o)]
    IN  IF o.kind = "default" THEN forwarded
        ELSE IF o.kind = "item" /\ o.item.equipped # {}
             THEN [forwarded EXCEPT !.tracked = @ \cup {o.id}]
             ELSE [filter EXCEPT !.tracked = @ \ {o.id}]

\* GameServerItemDirty decides, object by object, what the game server gets.
GameServerItemDirty(filter, o) ==
    LET equipped == o.kind = "item" /\ o.item.equipped # {}
        forwarded == [filter EXCEPT !.objects = Append(@, o)]
    IN  IF o.kind = "default" THEN forwarded
        ELSE IF equipped
             THEN [forwarded EXCEPT !.tracked = @ \cup {o.id}]
             ELSE [(IF o.id \in filter.tracked THEN forwarded ELSE filter)
                      EXCEPT !.tracked = @ \ {o.id}]

\* SendMessageToGame, to the game and to the game server.
Publish(objects) ==
    LET filter == FoldLeft(GameServerItemDirty, [tracked |-> tracked, objects |-> <<>>], objects)
    IN  /\ game' = FoldLeft(Receive, game, objects)
        /\ tracked' = filter.tracked
        /\ server' = IF linked THEN FoldLeft(Receive, server, filter.objects) ELSE server
        /\ UNCHANGED linked

-------------------------------------------------------------------------------
(* The state changes of the loadout.                                       *)

\* RemoveEquippedStateForClass, SetEquippedStateForClass.
WithoutClass(places, c) == {p \in places : p[1] # c}
InClass(places, c, s) == WithoutClass(places, c) \cup {<<c, s>>}

\* What UnequipSlotForClass does to items and default equips, and what it publishes.
FreeItems(its, at) == [i \in DOMAIN its |-> [its[i] EXCEPT !.equipped = @ \ {at}]]
FreeDefaults_Keeps(des, at) == des
FreeDefaults(des, at) == {e \in des : e.at # at}
FreeObjects(its, des, at) ==
    SetToSeq({ItemObject(i, FreeItems(its, at)) : i \in {j \in DOMAIN its : at \in its[j].equipped}})
      \o SetToSeq({ClearedObject(e) : e \in des \ FreeDefaults(des, at)})

\* EquipItem of a unique item: whatever is in the slot makes room.
EquipItem(i, c, s) ==
    /\ i \in Held
    /\ LET at == <<c, s>> IN
         /\ items' = [FreeItems(items, at) EXCEPT ![i].equipped = InClass(@, c, s)]
         /\ defaults' = FreeDefaults(defaults, at)
         /\ Publish(Append(FreeObjects(items, defaults, at), ItemObject(i, items')))
    /\ UNCHANGED lastId

\* EquipItem of a base item.  Own: its entries for the class, one at most.
Own(d, c) == {e \in defaults : e.def = d /\ e.at[1] = c}

Swapping(d, c, s, swap) == swap /\ \E e \in Own(d, c) : e.at # <<c, s>>

InSlot(at) == {i \in Held : at \in items[i].equipped}
OthersInSlot(d, at) == {e \in defaults : e.at = at /\ e.def # d}

EquipDefault(d, c, s, swap) ==
    LET at == <<c, s>>
        new == [def |-> d, at |-> at]
        left == FreeDefaults(defaults, at)
    IN
    /\ \/ ~Swapping(d, c, s, swap)
       \/ InSlot(at) = {} /\ OthersInSlot(d, at) = {}
    /\ items' = FreeItems(items, at)
    /\ defaults' = (left \ Own(d, c)) \cup {new}
    /\ Publish(FreeObjects(items, defaults, at)
                 \o SetToSeq({ClearedObject(e) : e \in left \cap Own(d, c)})
                 \o <<DefaultObject(new)>>)
    /\ UNCHANGED lastId

\* The unique item in the slot moves to the one the base item comes from.
SwapWithItem(d, c, s) ==
    /\ Swapping(d, c, s, TRUE)
    /\ \E i \in InSlot(<<c, s>>), e \in Own(d, c) :
         LET new == [def |-> d, at |-> <<c, s>>] IN
         /\ items' = [items EXCEPT ![i].equipped = InClass(@, c, e.at[2])]
         /\ defaults' = (defaults \ Own(d, c)) \cup {new}
         /\ Publish(<<ItemObject(i, items')>>
                      \o SetToSeq({ClearedObject(o) : o \in Own(d, c)})
                      \o <<DefaultObject(new)>>)
    /\ UNCHANGED lastId

SwapWithDefault_PublishesFirst(d, c, s) ==
    /\ Swapping(d, c, s, TRUE)
    /\ InSlot(<<c, s>>) = {}
    /\ \E o \in OthersInSlot(d, <<c, s>>), e \in Own(d, c) :
         LET new == [def |-> d, at |-> <<c, s>>]
             moved == [o EXCEPT !.at = e.at]
         IN
         /\ defaults' = ((defaults \ {o}) \ Own(d, c)) \cup {moved, new}
         /\ Publish(<<ClearedObject(o), DefaultObject(moved)>>
                      \o SetToSeq({ClearedObject(x) : x \in Own(d, c)})
                      \o <<DefaultObject(new)>>)
    /\ UNCHANGED <<items, lastId>>

SwapWithDefault_Drops(d, c, s) ==
    /\ Swapping(d, c, s, TRUE)
    /\ InSlot(<<c, s>>) = {}
    /\ \E o \in OthersInSlot(d, <<c, s>>), e \in Own(d, c) :
         LET new == [def |-> d, at |-> <<c, s>>] IN
         /\ defaults' = ((defaults \ {o}) \ Own(d, c)) \cup {new}
         /\ Publish(<<ClearedObject(o), ClearedObject(e), DefaultObject(new)>>)
    /\ UNCHANGED <<items, lastId>>

\* The base item in the slot does.  It is published again after the slot it moves
\* to has been cleared.
SwapWithDefault(d, c, s) ==
    /\ Swapping(d, c, s, TRUE)
    /\ InSlot(<<c, s>>) = {}
    /\ \E o \in OthersInSlot(d, <<c, s>>), e \in Own(d, c) :
         LET new == [def |-> d, at |-> <<c, s>>]
             moved == [o EXCEPT !.at = e.at]
         IN
         /\ defaults' = ((defaults \ {o}) \ Own(d, c)) \cup {moved, new}
         /\ Publish(<<ClearedObject(o)>>
                      \o SetToSeq({ClearedObject(x) : x \in Own(d, c)})
                      \o <<DefaultObject(moved), DefaultObject(new)>>)
    /\ UNCHANGED <<items, lastId>>

\* EquipItem without an item: only the slot is emptied.
UnequipSlotForClass(c, s) ==
    /\ items' = FreeItems(items, <<c, s>>)
    /\ defaults' = FreeDefaults(defaults, <<c, s>>)
    /\ Publish(FreeObjects(items, defaults, <<c, s>>))
    /\ UNCHANGED lastId

\* EquipItem with the slot that means "none": only this class is unequipped.
UnequipItemForClass(i, c) ==
    /\ i \in Held
    /\ WithoutClass(items[i].equipped, c) # items[i].equipped
    /\ items' = [items EXCEPT ![i].equipped = WithoutClass(@, c)]
    /\ Publish(<<ItemObject(i, items')>>)
    /\ UNCHANGED <<defaults, lastId>>

UnequipDefaultForClass(d, c) ==
    /\ Own(d, c) # {}
    /\ defaults' = defaults \ Own(d, c)
    /\ Publish(SetToSeq({ClearedObject(e) : e \in Own(d, c)}))
    /\ UNCHANGED <<items, lastId>>

\* UseItem on a sealed spray: a copy with an id of its own replaces it and is
\* equipped.
UnsealSpray(i) ==
    /\ i \in Held
    /\ items[i].sealed
    /\ lastId < MaxId
    /\ lastId' = lastId + 1
    /\ LET at == <<NoTeam, Graffiti>>
           base == Without(With(items, lastId', [items[i] EXCEPT !.sealed = FALSE]), i)
           its == [FreeItems(base, at) EXCEPT ![lastId'].equipped = InClass(@, NoTeam, Graffiti)]
       IN
       /\ items' = its
       /\ defaults' = FreeDefaults(defaults, at)
       /\ Publish(<<DestroyObject(i)>> \o FreeObjects(base, defaults, at)
                    \o <<ItemObject(lastId', its)>>)

\* Any operation that makes an item.
CreateItem ==
    /\ lastId < MaxId
    /\ lastId' = lastId + 1
    /\ items' = With(items, lastId', [equipped |-> {}, sealed |-> FALSE])
    /\ Publish(<<ItemObject(lastId', items')>>)
    /\ UNCHANGED defaults

\* RemoveItem, and every operation that consumes an item.
DestroyItem(i) ==
    /\ i \in Held
    /\ items' = Without(items, i)
    /\ Publish(<<DestroyObject(i)>>)
    /\ UNCHANGED <<defaults, lastId>>

\* DepositItemToStorage takes the item out of every slot.
DepositItem(i) ==
    /\ i \in Held
    /\ items' = [items EXCEPT ![i].equipped = {}]
    /\ Publish(<<ItemObject(i, items')>>)
    /\ UNCHANGED <<defaults, lastId>>

-------------------------------------------------------------------------------
\* ValidateMessageOwnerSOID: the ServerGC drops a snapshot with more items than this.
Accepts(ids) == Cardinality(ids) <= MaxServerSOCacheItems

\* HandleSOCacheRequest: the snapshot of what is equipped, and of the base items.  The
\* client does not hear of a refusal; a game server that has a copy keeps it, and one
\* that has none ignores the updates that follow.
HandleSOCacheRequest ==
    /\ linked' = (linked \/ Accepts(Equipped(items)))
    /\ tracked' = Equipped(items)
    /\ server' = IF Accepts(Equipped(items)) THEN Snapshot(items, defaults, Equipped(items))
                 ELSE server
    /\ UNCHANGED <<inventoryVars, game>>

\* The player leaves the game server.
LeaveServer ==
    /\ linked' = FALSE
    /\ server' = Nothing
    /\ UNCHANGED <<inventoryVars, tracked, game>>

-------------------------------------------------------------------------------
Next ==
    \/ \E c \in Classes, s \in Slots :
         \/ UnequipSlotForClass(c, s)
         \/ \E i \in Held : EquipItem(i, c, s)
         \/ \E d \in Defaults :
              \/ \E swap \in BOOLEAN : EquipDefault(d, c, s, swap)
              \/ SwapWithItem(d, c, s)
              \/ SwapWithDefault(d, c, s)
    \/ \E c \in Classes :
         \/ \E i \in Held : UnequipItemForClass(i, c)
         \/ \E d \in Defaults : UnequipDefaultForClass(d, c)
    \/ \E i \in Held : UnsealSpray(i) \/ DestroyItem(i) \/ DepositItem(i)
    \/ CreateItem \/ HandleSOCacheRequest \/ LeaveServer

Spec == Init /\ [][Next]_vars

-------------------------------------------------------------------------------
TypeOK ==
    /\ Held \subseteq 1..lastId
    /\ items \in [Held -> Item]
    /\ defaults \subseteq DefaultEquip
    /\ lastId \in 0..MaxId
    /\ linked \in BOOLEAN

OneThingPerPlace ==
    /\ \A i, j \in Held : i # j => items[i].equipped \cap items[j].equipped = {}
    /\ \A i \in Held, e \in defaults : e.at \notin items[i].equipped
    /\ \A e, f \in defaults : e.at = f.at => e = f

OnePlacePerClass ==
    /\ \A i \in Held : \A p, q \in items[i].equipped : p[1] = q[1] => p = q
    /\ \A e, f \in defaults : e.def = f.def /\ e.at[1] = f.at[1] => e = f

\* Types; a place of the loadout holds one thing at most, unique or base item, and
\* a thing is in one slot of a class at most: EquipItem looks for what is in a
\* slot with loops that stop at the first find (inventory.cpp:1013-1052).
LoadoutConsistent == TypeOK /\ OneThingPerPlace /\ OnePlacePerClass

\* The objects of an update are applied in order, those of base items by class and
\* slot; after every operation the game's copy is the inventory again.  The order
\* is what "clear the target's old keyed SO before publishing a displaced default
\* item" is about (inventory.cpp:1085-1091).
GameMirrorsLoadout ==
    /\ DOMAIN game.items = Held
    /\ \A i \in Held : game.items[i].equipped = items[i].equipped
    /\ game.defaults = Snapshot(items, defaults, Held).defaults

\* What the filter leaves out never matters: the game server knows exactly what is
\* equipped, with no more items than were once equipped, also when it refuses a snapshot
\* on top of a copy it has; of a player it never accepted it has nothing
\* (gc_client.cpp:1427-1443, 1530-1591, gc_server.cpp:375-379).
ServerSeesLoadout ==
    /\ tracked \subseteq 1..lastId
    /\ linked =>
         /\ tracked = Equipped(items)
         /\ Equipped(server.items) = Equipped(items)
         /\ \A i \in Equipped(items) : server.items[i].equipped = items[i].equipped
         /\ server.defaults = game.defaults
    /\ ~linked => server = Nothing

\* A swap takes nothing out of the class's loadout: what was displaced is found in
\* the slot the base item came from (inventory.cpp:1025-1059).
SwapKeepsEverything ==
    [][\A d \in Defaults, c \in Classes, s \in Slots :
         SwapWithItem(d, c, s) \/ SwapWithDefault(d, c, s) =>
           /\ {p[2] : p \in {q \in (UNION {items'[i].equipped : i \in DOMAIN items'})
                                  \cup {e.at : e \in defaults'} : q[1] = c}}
              = {p[2] : p \in {q \in (UNION {items[i].equipped : i \in Held})
                                  \cup {e.at : e \in defaults} : q[1] = c}}
           /\ Equipped(items) = Equipped(items)']_vars
===============================================================================

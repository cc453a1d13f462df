------------------------------- MODULE ItemTools -------------------------------
(***************************************************************************)
(* Using items on items: stickers and patches, names, keys and packages,   *)
(* the StatTrak swap tool and the trade-up contract.  A request names ids  *)
(* the game sees; by the time the coordinator handles it the game may not  *)
(* have heard of the last changes, so the same request may come twice.     *)
(* Each handler changes several items and posts a list of messages, the    *)
(* last one the notification that names the items the player is shown.     *)
(***************************************************************************)
EXTENDS Tables

CONSTANTS
    MaxStickers, \* sticker slots of an item
    MaxWear,    \* scrapes a sticker survives (nine)
    Contract,   \* items of a trade-up contract (ten)
    MaxRarity,  \* rarities a contract climbs: common is 0, ancient MaxRarity
    Starts,     \* inventories to start with
    Gifts,      \* items an RCON command may give
    MaxId, MaxMessages, MaxApplied \* bounds: item ids, messages not fetched, stickers in one slot

Slots == 0 .. MaxStickers - 1

\* The definitions the tools tell apart; "blank" is a sticker item without a kit.
Defs == {"weapon", "agent", "sticker", "patch", "blank", "tag", "swaptool",
         "crate", "key", "souvenir", "mega", "swapbundle", "other"}

\* stickers: the wears of what is applied to a slot, in the order it was applied; a patch
\* has no wear.  kills: the StatTrak counter.  clone: origin ItemOriginBaseItem.
Item == [def : Defs, rarity : 0..MaxRarity, kills : Nat \cup {none}, named : BOOLEAN,
         clone : BOOLEAN, stickers : [Slots -> Seq(0..MaxWear \cup {none})]]

BaseItems == {"weapon", "agent"}

\* Only base items are cloned, and CreateRconItem clones none (inventory.cpp:3108).
ASSUME ItemToolsAssumption ==
    /\ {MaxStickers, MaxWear, MaxRarity, MaxId, MaxMessages, MaxApplied} \subseteq Nat
    /\ Contract \in Nat \ {0}
    /\ none \notin Int
    /\ \A start \in Starts :
         /\ start \in Seq(Item) /\ Len(start) <= MaxId
         /\ \A i \in DOMAIN start : start[i].clone => start[i].def \in BaseItems
    /\ Gifts \subseteq Item /\ \A gift \in Gifts : ~gift.clone

VARIABLES
    items, lastId,      \* Inventory: m_items, m_lastHighItemId
    destroyUsedItems,   \* the configuration
    toGame,             \* messages the game has not fetched
    game,               \* the game's shared object cache
    granted,            \* history: what the items given are worth, and their kills
    hidden,             \* history: created without a word to the game since its snapshot
    bare                \* history: clones left without a customization by a failure or an empty name

inventory == <<items, lastId>>
toolsVars == <<inventory, destroyUsedItems, toGame, game, granted, hidden, bare>>

Held == DOMAIN items
One(i, item) == [j \in {i} |-> item]

Plain(def) ==
    [def |-> def, rarity |-> 0, kills |-> none, named |-> FALSE, clone |-> FALSE,
     stickers |-> [s \in Slots |-> <<>>]]
Clone(def) == [Plain(def) EXCEPT !.clone = TRUE]
Weapon(rarity, kills) == [Plain("weapon") EXCEPT !.rarity = rarity, !.kills = kills]

\* attribute_size() == 0: the attributes here are the counter's and the stickers'.  A
\* casket's references are attributes too; storing is in Storage, not here.
IsUncustomizedBaseItemClone(item) ==
    item.clone /\ ~item.named /\ item.kills = none /\ \A s \in Slots : item.stickers[s] = <<>>

-------------------------------------------------------------------------------
(* What the schema knows of the definitions.                               *)

Stickers == {"sticker", "patch", "blank"}
CanApplySticker(tool, def) == IF tool = "patch" THEN def = "agent" ELSE def = "weapon"
CanNameDefIndex(def) == def = "weapon"
CanStatTrakSwapDefIndex(def) == def = "weapon"

\* What an item that is opened may turn into.
Loot(def) ==
    CASE def = "crate" -> {Weapon(r, k) : r \in 0..MaxRarity, k \in {none, 0}}
      [] def = "souvenir" -> {[Weapon(r, none) EXCEPT !.stickers = [s \in Slots |-> <<0>>]] : r \in 0..MaxRarity}

Contents(def) == \* of packages with fixed contents
    CASE def = "mega" -> <<Plain("tag"), Plain("sticker")>>
      [] def = "swapbundle" -> <<Plain("swaptool"), Plain("swaptool")>>

-------------------------------------------------------------------------------
(* Messages to the game, applied in order.                                 *)

ItemObject(i) == [kind |-> "item", id |-> i, item |-> items'[i]] \* ToSingleObject, created or updated
DestroyObject(i) == [kind |-> "destroy", id |-> i]
\* The ids of base items in a notification are not looked at.
Notification(ids) == [kind |-> "notification", ids |-> ids]
Snapshot == [kind |-> "snapshot", items |-> items]

Apply(cache, m) ==
    CASE m.kind = "item" -> With(cache, One(m.id, m.item))
      [] m.kind = "destroy" -> Without(cache, {m.id})
      [] m.kind = "snapshot" -> m.items
      [] m.kind = "notification" -> cache

Send(messages) ==
    /\ Len(toGame) + Len(messages) <= MaxMessages
    /\ toGame' = toGame \o messages
    /\ UNCHANGED <<game, destroyUsedItems>>

\* What the game will know once it has fetched everything.
Fetched == FoldLeft(Apply, game, toGame)

GameReceives ==
    /\ toGame # <<>>
    /\ game' = Apply(game, Head(toGame)) /\ toGame' = Tail(toGame)
    /\ UNCHANGED <<inventory, destroyUsedItems, granted, hidden, bare>>

\* A new snapshot, by hello or by RCON.
RefreshInventory ==
    /\ Send(<<Snapshot>>)
    /\ hidden' = {}
    /\ UNCHANGED <<inventory, granted, bare>>

-------------------------------------------------------------------------------
(* What items are worth: a contract makes Contract items of a rarity into one of the *)
(* next, a crate or a souvenir package may hold anything.                  *)

Times(a, b) == a * b
Power(rarity) == FoldLeft(Times, 1, [n \in 1..rarity |-> Contract])

Base(item) ==
    CASE item.def = "weapon" -> IF item.clone THEN 0 ELSE Power(item.rarity)
      [] item.def = "agent" -> IF item.clone THEN 0 ELSE 1
      [] item.def = "crate" -> Power(MaxRarity)
      [] item.def = "souvenir" -> Power(MaxRarity) + MaxStickers
      [] item.def \in {"mega", "swapbundle"} -> Len(Contents(item.def))
      [] item.def = "key" -> 0
      [] OTHER -> 1
Applied(item) == Sum([n \in 1..MaxStickers |-> Len(item.stickers[n - 1])])
Worth(item) == Base(item) + (IF item.named THEN 1 ELSE 0) + Applied(item)
Kills(item) == IF item.kills = none THEN 0 ELSE item.kills

WorthOf(its) == Sum([i \in 1..MaxId |-> IF i \in DOMAIN its THEN Worth(its[i]) ELSE 0])
KillsOf(its) == Sum([i \in 1..MaxId |-> IF i \in DOMAIN its THEN Kills(its[i]) ELSE 0])

Grant(item) == granted' = [worth |-> granted.worth + Worth(item), kills |-> granted.kills + Kills(item)]

-------------------------------------------------------------------------------
ToolsInit ==
    /\ items \in Starts /\ lastId = Len(items)
    /\ destroyUsedItems \in BOOLEAN
    /\ toGame = <<>> /\ game = items
    /\ granted = [worth |-> WorthOf(items), kills |-> KillsOf(items)]
    /\ hidden = {} /\ bare = {i \in Held : IsUncustomizedBaseItemClone(items[i])}

\* CreateItem: the next ids, for one item or several.
Create(new) ==
    /\ lastId + Len(new) <= MaxId
    /\ lastId' = lastId + Len(new)
Created(new) == [i \in lastId + 1 .. lastId + Len(new) |-> new[i - lastId]]
CreatedObjects(new) == [n \in 1..Len(new) |-> ItemObject(lastId + n)]

\* DestroyItem for the tools of an operation: only when the configuration says so.
Destroys(ids) == [n \in 1..Len(ids) |-> DestroyObject(ids[n])]
Used(ids) == IF destroyUsedItems THEN ToSet(ids) ELSE {}
DestroyObjects(ids) == IF destroyUsedItems THEN Destroys(ids) ELSE <<>>

-------------------------------------------------------------------------------
(* Stickers and patches.                                                   *)

ApplyToSlot(item, slot, tool) ==
    [item EXCEPT !.stickers[slot] = Append(@, IF tool = "patch" THEN none ELSE 0)]

\* ApplySticker to an item of the inventory.
ApplySticker(tool, slot, i) ==
    /\ {tool, i} \subseteq Held /\ items[tool].def \in Stickers \ {"blank"}
    /\ CanApplySticker(items[tool].def, items[i].def)
    /\ Len(items[i].stickers[slot]) < MaxApplied
    /\ items' = Without([items EXCEPT ![i] = ApplyToSlot(@, slot, items[tool].def)], Used(<<tool>>))
    /\ bare' = bare \ {i}
    /\ Send(DestroyObjects(<<tool>>) \o <<ItemObject(i), Notification({i})>>)
    /\ UNCHANGED <<lastId, granted, hidden>>

\* ApplySticker to a base item, which is cloned.  The clone is there before the kit of
\* the sticker is looked for.
ApplyStickerToBaseItem(tool, slot, def) ==
    /\ tool \in Held /\ items[tool].def \in Stickers
    /\ CanApplySticker(items[tool].def, def)
    /\ Create(<<Clone(def)>>)
    /\ \/ /\ items[tool].def # "blank"
          /\ items' = Without(With(items, One(lastId', ApplyToSlot(Clone(def), slot, items[tool].def))),
                              Used(<<tool>>))
          /\ Send(DestroyObjects(<<tool>>) \o <<ItemObject(lastId'), Notification({lastId'})>>)
          /\ UNCHANGED <<hidden, bare>>
       \/ /\ items[tool].def = "blank"
          /\ items' = With(items, One(lastId', Clone(def)))
          /\ hidden' = hidden \cup {lastId'} /\ bare' = bare \cup {lastId'}
          /\ Send(<<>>)
    /\ UNCHANGED granted

\* The first wear attribute of a slot; a patch and an empty slot have none.
Wear(item, slot) == IF item.stickers[slot] = <<>> THEN none ELSE item.stickers[slot][1]

ScrapeSticker_KeepsClone(i, slot) ==
    /\ i \in Held
    /\ LET wear == Wear(items[i], slot) IN
       \/ /\ wear # none /\ wear < MaxWear
          /\ items' = [items EXCEPT ![i].stickers[slot][1] = @ + 1]
          /\ Send(<<ItemObject(i)>>)
          /\ UNCHANGED bare
       \/ /\ wear \in {none, MaxWear}
          /\ items' = [items EXCEPT ![i].stickers[slot] = <<>>]
          /\ Send(<<ItemObject(i), Notification({i})>>)
          /\ UNCHANGED bare
    /\ UNCHANGED <<lastId, granted, hidden>>

\* The wear gets worse; at the end, or without one, all of the slot is taken off, and a
\* clone with nothing left on it goes.  The code looks up any slot number: one beyond
\* Slots holds nothing and is scraped as an empty one of them is.
ScrapeSticker(i, slot) ==
    /\ i \in Held
    /\ LET wear == Wear(items[i], slot)
           clean == [items[i] EXCEPT !.stickers[slot] = <<>>]
       IN
       \/ /\ wear # none /\ wear < MaxWear
          /\ items' = [items EXCEPT ![i].stickers[slot][1] = @ + 1]
          /\ Send(<<ItemObject(i)>>)
          /\ UNCHANGED bare
       \/ /\ wear \in {none, MaxWear}
          /\ IF IsUncustomizedBaseItemClone(clean)
             THEN /\ items' = Without(items, {i})
                  /\ Send(<<DestroyObject(i), Notification({})>>)
             ELSE /\ items' = [items EXCEPT ![i] = clean]
                  /\ Send(<<ItemObject(i), Notification({i})>>)
          /\ bare' = bare \ {i}
    /\ UNCHANGED <<lastId, granted, hidden>>

-------------------------------------------------------------------------------
(* Names.  An empty name takes the name off and uses up the tag all the same. *)

NameItem_SerialisedFirst(tag, i, named) ==
    /\ {tag, i} \subseteq Held /\ items[tag].def = "tag" /\ CanNameDefIndex(items[i].def)
    /\ items' = Without([items EXCEPT ![i].named = named], Used(<<tag>>))
    /\ bare' = IF IsUncustomizedBaseItemClone(items'[i]) THEN bare \cup {i} ELSE bare \ {i}
    /\ Send(<<[kind |-> "item", id |-> i, item |-> items[i]]>> \o DestroyObjects(<<tag>>) \o <<Notification({i})>>)
    /\ UNCHANGED <<lastId, granted, hidden>>

NameItem(tag, i, named) ==
    /\ {tag, i} \subseteq Held /\ items[tag].def = "tag" /\ CanNameDefIndex(items[i].def)
    /\ items' = Without([items EXCEPT ![i].named = named], Used(<<tag>>))
    /\ bare' = IF IsUncustomizedBaseItemClone(items'[i]) THEN bare \cup {i} ELSE bare \ {i}
    /\ Send(<<ItemObject(i)>> \o DestroyObjects(<<tag>>) \o <<Notification({i})>>)
    /\ UNCHANGED <<lastId, granted, hidden>>

NameBaseItem(tag, def, named) ==
    /\ tag \in Held /\ items[tag].def = "tag" /\ CanNameDefIndex(def)
    /\ Create(<<Clone(def)>>)
    /\ items' = Without(With(items, One(lastId', [Clone(def) EXCEPT !.named = named])), Used(<<tag>>))
    /\ bare' = IF named THEN bare ELSE bare \cup {lastId'}
    /\ Send(<<ItemObject(lastId')>> \o DestroyObjects(<<tag>>) \o <<Notification({lastId'})>>)
    /\ UNCHANGED <<granted, hidden>>

RemoveItemName(i) ==
    /\ i \in Held
    /\ LET unnamed == [items[i] EXCEPT !.named = FALSE] IN
         IF IsUncustomizedBaseItemClone(unnamed)
         THEN /\ items' = Without(items, {i})
              /\ Send(<<DestroyObject(i), Notification({})>>)
         ELSE /\ items' = [items EXCEPT ![i] = unnamed]
              /\ Send(<<ItemObject(i), Notification({i})>>)
    /\ bare' = bare \ {i}
    /\ UNCHANGED <<lastId, granted, hidden>>

-------------------------------------------------------------------------------
(* Opening things.                                                         *)

\* Destroys the package and its key, and creates what was in it.
Open(used, new) ==
    /\ Create(new)
    /\ items' = Without(With(items, Created(new)), Used(used))
    /\ Send(DestroyObjects(used) \o CreatedObjects(new)
              \o <<Notification(lastId + 1 .. lastId')>>)
    /\ UNCHANGED <<granted, hidden, bare>>

\* UnlockCrate: key none is the key id 0, which passes every test.
UnlockCrate(crate, key) ==
    /\ crate \in Held /\ items[crate].def = "crate"
    /\ key # none => key \in Held /\ items[key].def = "key"
    /\ \E item \in Loot("crate") : Open(IF key = none THEN <<crate>> ELSE <<crate, key>>, <<item>>)

\* OpenSouvenirPackage, by UnlockCrate without a key or by HandleRequestSouvenir.
OpenSouvenirPackage(package) ==
    /\ package \in Held /\ items[package].def = "souvenir"
    /\ \E item \in Loot("souvenir") : Open(<<package>>, <<item>>)

\* OpenMegaBundle, OpenStatTrakSwapToolBundle, by UnlockCrate without a key.
OpenBundle(bundle) ==
    /\ bundle \in Held /\ items[bundle].def \in {"mega", "swapbundle"}
    /\ Open(<<bundle>>, Contents(items[bundle].def))

-------------------------------------------------------------------------------
(* StatTrak.                                                               *)

\* The two weapons may be the same: the tool is used up for nothing.
PerformCounterSwap(tool, a, b) ==
    /\ {tool, a, b} \subseteq Held /\ items[tool].def = "swaptool"
    /\ CanStatTrakSwapDefIndex(items[a].def) /\ CanStatTrakSwapDefIndex(items[b].def)
    /\ none \notin {items[a].kills, items[b].kills}
    /\ items' = Without([items EXCEPT ![a].kills = items[b].kills, ![b].kills = items[a].kills],
                        Used(<<tool>>))
    /\ Send(DestroyObjects(<<tool>>) \o <<ItemObject(a), ItemObject(b), Notification({a, b})>>)
    /\ UNCHANGED <<lastId, granted, hidden, bare>>

TradeUp_Repeated(inputs) ==
    LET ids == ToSet(inputs) IN
    /\ ids \subseteq Held
    /\ \A i \in ids : items[i].def = "weapon" /\ ~items[i].clone
    /\ \E rarity \in 0..(MaxRarity - 1), counted \in BOOLEAN :
         /\ \A i \in ids : items[i].rarity = rarity /\ (items[i].kills # none) = counted
         /\ LET new == Weapon(rarity + 1, IF counted THEN 0 ELSE none) IN
              /\ Create(<<new>>)
              /\ items' = Without(With(items, One(lastId', new)), ids)
    /\ Send(Destroys(inputs) \o <<ItemObject(lastId'), Notification({lastId'})>>)
    /\ UNCHANGED <<granted, hidden, bare>>

\* TradeUp: different painted weapons of one rarity, all StatTrak or none.  The inputs
\* go whatever the configuration says.
TradeUp(inputs) ==
    LET ids == ToSet(inputs) IN
    /\ IsInjective(inputs)
    /\ ids \subseteq Held
    /\ \A i \in ids : items[i].def = "weapon" /\ ~items[i].clone
    /\ \E rarity \in 0..(MaxRarity - 1), counted \in BOOLEAN :
         /\ \A i \in ids : items[i].rarity = rarity /\ (items[i].kills # none) = counted
         /\ LET new == Weapon(rarity + 1, IF counted THEN 0 ELSE none) IN
              /\ Create(<<new>>)
              /\ items' = Without(With(items, One(lastId', new)), ids)
    /\ Send(Destroys(inputs) \o <<ItemObject(lastId'), Notification({lastId'})>>)
    /\ UNCHANGED <<granted, hidden, bare>>

-------------------------------------------------------------------------------
\* DeleteItem and remove_item; RCON knows ids the game has not heard of.
RemoveItem(i) ==
    /\ i \in Held
    /\ items' = Without(items, {i})
    /\ hidden' = hidden \ {i} /\ bare' = bare \ {i}
    /\ Send(<<DestroyObject(i)>>)
    /\ UNCHANGED <<lastId, granted>>

\* CreateRconItem, give_item.
CreateRconItem(item) ==
    /\ Create(<<item>>)
    /\ items' = With(items, One(lastId', item))
    /\ Grant(item)
    /\ Send(<<ItemObject(lastId')>>)
    /\ UNCHANGED <<hidden, bare>>

\* A request of the game, on ids it sees.
Request ==
    \/ \E tool \in DOMAIN game, slot \in Slots :
         \/ \E i \in DOMAIN game : ApplySticker(tool, slot, i)
         \/ \E def \in BaseItems : ApplyStickerToBaseItem(tool, slot, def)
    \/ \E i \in DOMAIN game, slot \in Slots : ScrapeSticker(i, slot)
    \/ \E tag \in DOMAIN game, named \in BOOLEAN :
         \/ \E i \in DOMAIN game : NameItem(tag, i, named)
         \/ \E def \in BaseItems : NameBaseItem(tag, def, named)
    \/ \E i \in DOMAIN game : RemoveItemName(i) \/ OpenSouvenirPackage(i) \/ OpenBundle(i)
    \/ \E crate \in DOMAIN game, key \in DOMAIN game \cup {none} : UnlockCrate(crate, key)
    \/ \E tool, a, b \in DOMAIN game : PerformCounterSwap(tool, a, b)
    \/ \E inputs \in [1..Contract -> DOMAIN game] : TradeUp(inputs)

ToolsNext ==
    \/ Request
    \/ \E i \in Held : RemoveItem(i)
    \/ \E item \in Gifts : CreateRconItem(item)
    \/ RefreshInventory
    \/ GameReceives

ToolsSpec == ToolsInit /\ [][ToolsNext]_toolsVars

-------------------------------------------------------------------------------
ToolsTypeOK ==
    /\ lastId \in 0..MaxId /\ Held \subseteq 1..lastId
    /\ items \in [Held -> Item]
    /\ destroyUsedItems \in BOOLEAN
    /\ granted \in [worth : Nat, kills : Nat]
    /\ hidden \subseteq Held /\ bare \subseteq Held

\* No sequence of requests, repeated ones included, makes something from nothing: used
\* items are gone when the configuration says so, a contract takes as many items as it
\* says, a counter that is given to one weapon is taken from the other
\* (inventory.cpp:3427-3431, 3001-3008).
NothingFromNothing ==
    /\ KillsOf(items) <= granted.kills
    /\ destroyUsedItems => WorthOf(items) <= granted.worth

\* A notification reaches the game after the items it names.
NotifiedItemsAreThere ==
    toGame # <<>> /\ Head(toGame).kind = "notification" => Head(toGame).ids \subseteq DOMAIN game

\* Once the game has fetched everything it knows the inventory, but for the clones that
\* were created by a request that failed after that (inventory.cpp:1958-1985); and it hears
\* of no item before it has it.
GameSeesEverything ==
    /\ NotifiedItemsAreThere
    /\ Fetched = Without(items, hidden)

\* A clone of a base item is customized; it goes with the last customization ("this was
\* a default weapon clone whose last customization was removed", inventory.cpp:2097).
CloneIsCustomized ==
    /\ ToolsTypeOK
    /\ \A i \in Held : IsUncustomizedBaseItemClone(items[i]) => i \in bare
===============================================================================

-------------------------------- MODULE Storage --------------------------------
(***************************************************************************)
(* Storage units (caskets) of the Inventory: an item is put into a casket  *)
(* by writing the casket's id into two of its attributes, and the casket   *)
(* counts its contents in an attribute of its own.  The two are updated    *)
(* together by DepositItemToStorage and WithdrawItemFromStorage, but items *)
(* are created and removed without a look at either.                       *)
(*                                                                         *)
(* Ids are the high parts AllocateItem hands out, which makes room for     *)
(* files edited by hand: an id that is 0 or taken gives way to one that is *)
(* free.  An id is not handed out twice in a session, but the file does    *)
(* not record the last one, so a session that loaded a reference to a      *)
(* casket that is gone may give that casket's id to something new (clean   *)
(* says it has not come to that).                                          *)
(***************************************************************************)
EXTENDS Naturals, FiniteSets

CONSTANTS Capacity,    \* items a casket holds
          MaxId,       \* bound: ids handed out
          MaxRestarts, \* bound: restarts of the game
          FirstFiles,  \* inventory files there may be before the program writes one
          none

VARIABLES items,      \* m_items: id -> item
          lastHighId, \* m_lastHighItemId
          file,       \* the entries of the inventory file
          reading,    \* those of them ReadFromFile has not come to
          made,       \* history: creations so far
          alive,      \* history: creations of which the item should be there
          clean,      \* history: every file loaded was written by the program and
                      \* had no reference to a missing casket
          restarts    \* restarts so far

vars == <<items, lastHighId, file, reading, made, alive, clean, restarts>>

\* What storage reads and writes of an item.  count: the contents attribute of a
\* casket, none when it has none yet; storedIn: StorageReference, 0 for nothing;
\* born: which creation made it.  home: history, the creation that made the casket
\* it was last put into.
Item == [casket : BOOLEAN, count : Nat \cup {none}, storedIn : Nat, born : Nat, home : Nat]

\* An entry of a file: the number it stands under and its item.
Entry == [id : Nat, item : Item]

\* The first file is empty or edited by hand: what was deposited or counted in it, and the
\* numbers of its entries, are anything, but no casket is in a casket.
ASSUME StorageAssumption ==
    /\ Capacity \in Nat
    /\ MaxId \in Nat
    /\ none \notin Nat
    /\ \A f \in FirstFiles :
         /\ f \subseteq Entry
         /\ IsFiniteSet(f) /\ Cardinality(f) <= MaxId
         /\ \A e \in f : /\ e.item.casket => e.item.storedIn = 0
                        /\ e.item.born \in 1..Cardinality(f)
         /\ \A e, g \in f : e.item.born = g.item.born => e = g

Held == DOMAIN items

Contents(c) == {i \in Held : items[i].storedIn = c}

\* The creations of the items in a file.
Births(entries) == {e.item.born : e \in entries}

Init ==
    /\ items = <<>>
    /\ lastHighId = 0
    /\ file \in FirstFiles
    /\ reading = file
    /\ made = Cardinality(file)
    /\ alive = Births(file)
    /\ clean = (file = {})
    /\ restarts = 0

-------------------------------------------------------------------------------
AllocateItem_Replaces(high, id) ==
    /\ id \in 1..MaxId
    /\ id = IF high = 0 THEN lastHighId + 1 ELSE high
    /\ lastHighId' = IF id > lastHighId THEN id ELSE lastHighId

\* AllocateItem: the id asked for, or the next one if that is 0; while it is taken, the
\* one after it.
AllocateItem(high, id) ==
    LET first == IF high = 0 THEN lastHighId + 1 ELSE high IN
    /\ id \in 1..MaxId
    /\ id >= first
    /\ id \notin Held
    /\ \A j \in 1..MaxId : first <= j /\ j < id => j \in Held
    /\ lastHighId' = IF id > lastHighId THEN id ELSE lastHighId

\* ReadFromFile, an entry at a time, in whatever order they stand in the file.
ReadFromFile(e) ==
    /\ e \in reading
    /\ reading' = reading \ {e}
    /\ \E id \in 1..MaxId :
         /\ AllocateItem(e.id, id)
         /\ items' = [i \in Held \cup {id} |-> IF i = id THEN e.item ELSE items[i]]
    /\ UNCHANGED <<file, made, alive, clean, restarts>>

\* The other operations, of a coordinator that has been constructed.
Ready == reading = {} /\ UNCHANGED reading

\* CreateItem, by a purchase, a drop, an unboxing or give_item.  A new casket has no
\* contents attribute.
CreateItem(casket) ==
    /\ Ready
    /\ made < MaxId
    /\ made' = made + 1
    /\ alive' = alive \cup {made'}
    /\ \E id \in 1..MaxId :
         /\ AllocateItem(0, id)
         /\ items' = [i \in Held \cup {id} |->
              IF i = id
              THEN [casket |-> casket, count |-> none, storedIn |-> 0, born |-> made', home |-> 0]
              ELSE items[i]]
    /\ UNCHANGED <<file, clean, restarts>>

DestroyItem_FreesId(i) ==
    /\ Ready
    /\ i \in Held
    /\ items' = [j \in Held \ {i} |-> items[j]]
    /\ alive' = alive \ {items[i].born}
    /\ lastHighId' = IF i = lastHighId THEN i - 1 ELSE lastHighId
    /\ UNCHANGED <<file, made, clean, restarts>>

\* RemoveItem, by the game's delete message or remove_item, and every other
\* operation that consumes an item: whatever is in it or it is in.
DestroyItem(i) ==
    /\ Ready
    /\ i \in Held
    /\ items' = [j \in Held \ {i} |-> items[j]]
    /\ alive' = alive \ {items[i].born}
    /\ UNCHANGED <<lastHighId, file, made, clean, restarts>>

PrepareCasketForNaming_Resets(c) ==
    /\ Ready
    /\ c \in Held
    /\ items[c].casket
    /\ items' = [items EXCEPT ![c].count = 0]
    /\ UNCHANGED <<lastHighId, file, made, alive, clean, restarts>>

\* UseItem on a sealed spray: a copy with an id of its own takes its place, in a
\* casket too.
UnsealSpray(i) ==
    /\ Ready
    /\ i \in Held
    /\ ~items[i].casket
    /\ made < MaxId
    /\ made' = made + 1
    /\ alive' = (alive \ {items[i].born}) \cup {made'}
    /\ \E id \in 1..MaxId :
         /\ AllocateItem(0, id)
         /\ items' = [j \in (Held \ {i}) \cup {id} |->
              IF j = id THEN [items[i] EXCEPT !.born = made'] ELSE items[j]]
    /\ UNCHANGED <<file, clean, restarts>>

\* NameItem on a casket, without a name tag, starts its counter.
PrepareCasketForNaming(c) ==
    /\ Ready
    /\ c \in Held
    /\ items[c].casket
    /\ items' = [items EXCEPT ![c].count = IF @ = none THEN 0 ELSE @]
    /\ UNCHANGED <<lastHighId, file, made, alive, clean, restarts>>

\* ModifyStorageCounter would succeed.
CounterAccepts(c, updated) ==
    /\ items[c].count # none
    /\ updated <= Capacity

DepositItemToStorage(c, i) ==
    /\ Ready
    /\ c # i
    /\ c \in Held /\ i \in Held
    /\ items[c].casket
    /\ ~items[i].casket
    /\ items[i].storedIn = 0
    /\ CounterAccepts(c, items[c].count + 1)
    /\ items' = [items EXCEPT ![c].count = @ + 1,
                              ![i].storedIn = c, ![i].home = items[c].born]
    /\ UNCHANGED <<lastHighId, file, made, alive, clean, restarts>>

WithdrawItemFromStorage(c, i) ==
    /\ Ready
    /\ c \in Held /\ i \in Held
    /\ items[c].casket
    /\ items[i].storedIn = c
    /\ items[c].count \notin {none, 0}
    /\ items' = [items EXCEPT ![c].count = @ - 1, ![i].storedIn = 0]
    /\ UNCHANGED <<lastHighId, file, made, alive, clean, restarts>>

\* WriteToFile: an entry of its own for every item.
Written == {[id |-> i, item |-> items[i]] : i \in Held}

\* save_inventory and every operation that writes the file.
Save ==
    /\ Ready
    /\ file' = Written
    /\ UNCHANGED <<items, lastHighId, made, alive, clean, restarts>>

\* The game ends and is started again; the destructor saved or it did not (a
\* crash, a file that could not be written).  The constructor knows no id.
Restart ==
    /\ reading = {}
    /\ restarts < MaxRestarts
    /\ restarts' = restarts + 1
    /\ items' = <<>>
    /\ lastHighId' = 0
    /\ \E saved \in {Written, file} :
         /\ file' = saved
         /\ reading' = saved
         /\ alive' = Births(saved)
         /\ clean' = (clean /\ \A e \in saved : \/ e.item.storedIn = 0
                                                \/ \E g \in saved : e.item.storedIn = g.id)
    /\ UNCHANGED made

-------------------------------------------------------------------------------
Next ==
    \/ \E e \in reading : ReadFromFile(e)
    \/ \E casket \in BOOLEAN : CreateItem(casket)
    \/ \E i \in Held : DestroyItem(i) \/ UnsealSpray(i) \/ PrepareCasketForNaming(i)
    \/ \E c, i \in Held : DepositItemToStorage(c, i) \/ WithdrawItemFromStorage(c, i)
    \/ Save
    \/ Restart

Spec == Init /\ [][Next]_vars

-------------------------------------------------------------------------------
TypeOK ==
    /\ Held \subseteq 1..MaxId
    /\ items \in [Held -> Item]
    /\ lastHighId \in 0..MaxId
    /\ file \subseteq Entry
    /\ reading \subseteq Entry
    /\ made \in 0..MaxId
    /\ alive \subseteq 1..MaxId
    /\ clean \in BOOLEAN
    /\ restarts \in Nat

\* AllocateItem's "this doesn't return until the item id is unique": what was made and
\* not removed is there, in one place, once the file is read.  A new item does not take
\* the place of another, nor an entry that of an entry with the same number, not even
\* after a restart forgot which ids had been used (inventory.cpp:369-413, 469-481).
NothingIsOverwritten ==
    /\ alive = {items[i].born : i \in Held} \cup Births(reading)
    /\ \A i, j \in Held : items[i].born = items[j].born => i = j
    /\ \A i \in Held : i <= lastHighId

\* A casket holds no more than it counts and counts no more than its capacity, so
\* ModifyStorageCounter never refuses a withdrawal: what is in a casket that still
\* exists can be taken out, whatever was deleted meanwhile, and after a crash that
\* lost the last changes (inventory.cpp:2756-2779, 2883-2887).
ContentsCounted ==
    clean => \A c \in Held : items[c].casket =>
        \/ Contents(c) = {}
        \/ /\ items[c].count # none
           /\ Cardinality(Contents(c)) <= items[c].count
           /\ items[c].count <= Capacity

\* An item's reference never comes to mean anything but the casket it was put into,
\* although references to deleted caskets stay around and are copied to unsealed
\* sprays: if it names something at all, that is a casket, the one of the deposit, and
\* in no casket itself (inventory.cpp:1185, 2824-2839).
ReferencesKeepTheirMeaning ==
    clean => \A i, c \in Held : items[i].storedIn = c =>
        /\ items[i].home = items[c].born
        /\ items[c].casket
        /\ items[c].storedIn = 0
===============================================================================

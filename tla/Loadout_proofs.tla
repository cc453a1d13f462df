---------------------------- MODULE Loadout_proofs ----------------------------
(***************************************************************************)
(* For any classes, slots and items: a place of the loadout holds one      *)
(* thing, a thing is in one slot of a class, a swap takes nothing out of   *)
(* the loadout, and the game and the game server are told of it.           *)
(*                                                                         *)
(* The argument: every operation is made of a few changes of the two maps  *)
(* (what is in a place leaves it; an item, or a base item, is put into a   *)
(* place where nothing is), and each of them keeps the loadout consistent. *)
(* The objects of an update are those changes, one by one: after each the  *)
(* copies are those of the loadout as far as it has been told, whatever    *)
(* the filter leaves out.                                                  *)
(***************************************************************************)
EXTENDS Loadout, FiniteSetTheorems, TLAPS

\* LoadoutConsistent, of any items and default equips.
Kinds(its, des) == its \in [DOMAIN its -> Item] /\ des \subseteq DefaultEquip

OneThing(its, des) ==
    /\ \A i, j \in DOMAIN its : i # j => its[i].equipped \cap its[j].equipped = {}
    /\ \A i \in DOMAIN its, e \in des : e.at \notin its[i].equipped
    /\ \A e, f \in des : e.at = f.at => e = f

OnePlace(its, des) ==
    /\ \A i \in DOMAIN its : \A p, q \in its[i].equipped : p[1] = q[1] => p = q
    /\ \A e, f \in des : e.def = f.def /\ e.at[1] = f.at[1] => e = f

Consistent(its, des) == Kinds(its, des) /\ OneThing(its, des) /\ OnePlace(its, des)

Free(its, des, at) ==
    /\ \A i \in DOMAIN its : at \notin its[i].equipped
    /\ \A e \in des : e.at # at

\* its with item i in other places.
Moved(its, i, places) ==
    [j \in DOMAIN its |-> IF j = i THEN [its[j] EXCEPT !.equipped = places] ELSE its[j]]

-------------------------------------------------------------------------------
(* The changes the operations are made of.                                 *)

LEMMA ItemFields ==
    ASSUME NEW x \in Item, NEW places \in SUBSET Place
    PROVE  /\ [x EXCEPT !.equipped = places] \in Item
           /\ [x EXCEPT !.equipped = places].equipped = places
           /\ x.equipped \subseteq Place
  BY DEF Item

LEMMA MovedFacts ==
    ASSUME NEW its, its \in [DOMAIN its -> Item], NEW i \in DOMAIN its, NEW places \in SUBSET Place
    PROVE  /\ DOMAIN Moved(its, i, places) = DOMAIN its
           /\ Moved(its, i, places) \in [DOMAIN its -> Item]
           /\ Moved(its, i, places)[i].equipped = places
           /\ \A j \in DOMAIN its \ {i} : Moved(its, i, places)[j].equipped = its[j].equipped
           /\ [its EXCEPT ![i].equipped = places] = Moved(its, i, places)
  <1>1. /\ [its[i] EXCEPT !.equipped = places] \in Item
        /\ [its[i] EXCEPT !.equipped = places].equipped = places
    BY ItemFields
  <1>2. \A j \in DOMAIN its : its[j] \in Item
    OBVIOUS
  <1>3. \A j \in DOMAIN its \ {i} : Moved(its, i, places)[j] = its[j]
    BY DEF Moved
  <1>4. Moved(its, i, places)[i] = [its[i] EXCEPT !.equipped = places]
    BY DEF Moved
  <1>5. DOMAIN Moved(its, i, places) = DOMAIN its
    BY DEF Moved
  <1>6. Moved(its, i, places) \in [DOMAIN its -> Item]
    <2> DEFINE value(j) == IF j = i THEN [its[j] EXCEPT !.equipped = places] ELSE its[j]
    <2>1. \A j \in DOMAIN its : value(j) \in Item
      BY <1>1, <1>2
    <2>2. Moved(its, i, places) = [j \in DOMAIN its |-> value(j)]
      BY DEF Moved
    <2> HIDE DEF value
    <2> QED
      BY <2>1, <2>2
  <1>7. [its EXCEPT ![i].equipped = places] = Moved(its, i, places)
    BY DEF Moved
  <1> QED
    BY <1>1, <1>3, <1>4, <1>5, <1>6, <1>7

\* Whatever is in a place leaves it.
LEMMA FreedFacts ==
    ASSUME NEW its, its \in [DOMAIN its -> Item], NEW at
    PROVE  /\ DOMAIN FreeItems(its, at) = DOMAIN its
           /\ FreeItems(its, at) \in [DOMAIN its -> Item]
           /\ \A i \in DOMAIN its : FreeItems(its, at)[i].equipped = its[i].equipped \ {at}
  <1>1. ASSUME NEW i \in DOMAIN its
        PROVE  /\ [its[i] EXCEPT !.equipped = its[i].equipped \ {at}] \in Item
               /\ [its[i] EXCEPT !.equipped = its[i].equipped \ {at}].equipped = its[i].equipped \ {at}
    <2>1. its[i] \in Item
      OBVIOUS
    <2>2. its[i].equipped \ {at} \in SUBSET Place
      BY <2>1, ItemFields
    <2> QED
      BY <2>1, <2>2, ItemFields
  <1>2. FreeItems(its, at) = [i \in DOMAIN its |-> [its[i] EXCEPT !.equipped = its[i].equipped \ {at}]]
    BY DEF FreeItems
  <1> QED
    BY <1>1, <1>2

LEMMA Freed ==
    ASSUME NEW its, NEW des, Consistent(its, des), NEW at
    PROVE  /\ Consistent(FreeItems(its, at), FreeDefaults(des, at))
           /\ Free(FreeItems(its, at), FreeDefaults(des, at), at)
  <1> DEFINE less == FreeItems(its, at)
  <1>1. /\ DOMAIN less = DOMAIN its /\ less \in [DOMAIN its -> Item]
        /\ \A i \in DOMAIN its : less[i].equipped = its[i].equipped \ {at}
    BY FreedFacts DEF Consistent, Kinds
  <1> HIDE DEF less
  <1>2. Kinds(less, FreeDefaults(des, at))
    BY <1>1 DEF Kinds, Consistent, FreeDefaults
  <1>3. OneThing(less, FreeDefaults(des, at))
    BY <1>1 DEF OneThing, Consistent, FreeDefaults
  <1>4. OnePlace(less, FreeDefaults(des, at))
    BY <1>1 DEF OnePlace, Consistent, FreeDefaults
  <1>5. Free(less, FreeDefaults(des, at), at)
    BY <1>1 DEF Free, FreeDefaults
  <1> QED
    BY <1>2, <1>3, <1>4, <1>5 DEF Consistent, less

\* Fewer base items are equipped.
LEMMA FewerDefaults ==
    ASSUME NEW its, NEW des, Consistent(its, des), NEW fewer \in SUBSET des
    PROVE  /\ Consistent(its, fewer)
           /\ \A at : Free(its, des, at) => Free(its, fewer, at)
  BY DEF Consistent, Kinds, OneThing, OnePlace, Free

\* An item is in fewer places.
LEMMA FewerPlaces ==
    ASSUME NEW its, NEW des, Consistent(its, des),
           NEW i \in DOMAIN its, NEW places \in SUBSET (its[i].equipped)
    PROVE  Consistent(Moved(its, i, places), des)
  <1> DEFINE less == Moved(its, i, places)
  <1>1. its[i].equipped \subseteq Place /\ its \in [DOMAIN its -> Item]
    BY DEF Consistent, Kinds, Item
  <1>2. /\ DOMAIN less = DOMAIN its /\ less \in [DOMAIN its -> Item]
        /\ less[i].equipped = places
        /\ \A j \in DOMAIN its \ {i} : less[j].equipped = its[j].equipped
    BY <1>1, MovedFacts
  <1> HIDE DEF less
  <1>3. \A j \in DOMAIN its : less[j].equipped \subseteq its[j].equipped
    BY <1>2
  <1> QED
    BY <1>2, <1>3 DEF Consistent, Kinds, OneThing, OnePlace, less

\* An item is put into a place where nothing is.
LEMMA ItemPut ==
    ASSUME NEW its, NEW des, Consistent(its, des), NEW i \in DOMAIN its,
           NEW c \in Classes, NEW s \in Slots, Free(its, des, <<c, s>>)
    PROVE  Consistent(Moved(its, i, InClass(its[i].equipped, c, s)), des)
  <1> DEFINE places == InClass(its[i].equipped, c, s)
             new == Moved(its, i, places)
  <1>1. its[i].equipped \subseteq Place /\ its \in [DOMAIN its -> Item]
    BY DEF Consistent, Kinds, Item
  <1>2. places \in SUBSET Place
    BY <1>1 DEF InClass, WithoutClass, Place
  <1>3. \A p \in places : p = <<c, s>> \/ (p \in its[i].equipped /\ p[1] # c)
    BY DEF InClass, WithoutClass
  <1> HIDE DEF places
  <1>4. /\ DOMAIN new = DOMAIN its /\ new \in [DOMAIN its -> Item]
        /\ new[i].equipped = places
        /\ \A j \in DOMAIN its \ {i} : new[j].equipped = its[j].equipped
    BY <1>1, <1>2, MovedFacts
  <1> HIDE DEF new
  <1>5. Kinds(new, des)
    BY <1>4 DEF Consistent, Kinds
  <1>6. OneThing(new, des)
    <2>1. ASSUME NEW j \in DOMAIN its, j # i PROVE places \cap its[j].equipped = {}
      BY <1>3, <2>1 DEF Free, Consistent, OneThing
    <2>2. \A e \in des : e.at \notin places
      BY <1>3 DEF Free, Consistent, OneThing
    <2> QED
      BY <1>4, <2>1, <2>2 DEF Consistent, OneThing
  <1>7. OnePlace(new, des)
    <2>1. \A p, q \in places : p[1] = q[1] => p = q
      BY <1>3 DEF Consistent, OnePlace
    <2> QED
      BY <1>4, <2>1 DEF Consistent, OnePlace
  <1> QED
    BY <1>5, <1>6, <1>7 DEF Consistent, new, places

\* A base item is, which is equipped nowhere else for the class.
LEMMA DefaultPut ==
    ASSUME NEW its, NEW des, Consistent(its, des), NEW new \in DefaultEquip,
           Free(its, des, new.at),
           \A e \in des : e.def = new.def => e.at[1] # new.at[1]
    PROVE  Consistent(its, des \cup {new})
  <1>1. Kinds(its, des \cup {new})
    BY DEF Consistent, Kinds
  <1>2. OneThing(its, des \cup {new})
    BY DEF Consistent, OneThing, Free
  <1>3. OnePlace(its, des \cup {new})
    BY DEF Consistent, OnePlace
  <1> QED
    BY <1>1, <1>2, <1>3 DEF Consistent

\* An item comes, one goes.
LEMMA Come ==
    ASSUME NEW its, NEW des, Consistent(its, des), NEW i, i \notin DOMAIN its,
           NEW x \in Item, x.equipped = {}
    PROVE  Consistent(With(its, i, x), des)
  <1> DEFINE more == With(its, i, x)
  <1>1. /\ DOMAIN more = DOMAIN its \cup {i} /\ more[i] = x
        /\ \A j \in DOMAIN its : more[j] = its[j]
        /\ more = [j \in DOMAIN more |-> more[j]]
    BY DEF With
  <1> HIDE DEF more
  <1>2. \A j \in DOMAIN more : more[j] \in Item
    BY <1>1 DEF Consistent, Kinds
  <1> QED
    BY <1>1, <1>2 DEF Consistent, Kinds, OneThing, OnePlace, more

LEMMA Gone ==
    ASSUME NEW its, NEW des, Consistent(its, des), NEW i
    PROVE  Consistent(Without(its, i), des)
  <1> DEFINE fewer == Without(its, i)
  <1>1. /\ DOMAIN fewer = DOMAIN its \ {i}
        /\ \A j \in DOMAIN fewer : fewer[j] = its[j]
        /\ fewer = [j \in DOMAIN fewer |-> fewer[j]]
    BY DEF Without
  <1> HIDE DEF fewer
  <1>2. \A j \in DOMAIN fewer : fewer[j] \in Item
    BY <1>1 DEF Consistent, Kinds
  <1> QED
    BY <1>1, <1>2 DEF Consistent, Kinds, OneThing, OnePlace, fewer

\* A copy with another id takes the place of an item.
LEMMA Replaced ==
    ASSUME NEW its, NEW des, Consistent(its, des), NEW i \in DOMAIN its,
           NEW k, k \notin DOMAIN its, NEW x \in Item, x.equipped = its[i].equipped
    PROVE  /\ Consistent(Without(With(its, k, x), i), des)
           /\ DOMAIN Without(With(its, k, x), i) = (DOMAIN its \cup {k}) \ {i}
  <1> DEFINE new == Without(With(its, k, x), i)
  <1>1. /\ DOMAIN new = (DOMAIN its \cup {k}) \ {i} /\ new[k] = x
        /\ \A j \in DOMAIN its \ {i} : new[j] = its[j]
        /\ new = [j \in DOMAIN new |-> new[j]]
    BY DEF With, Without
  <1> HIDE DEF new
  <1>2. \A j \in DOMAIN new : new[j] \in Item
    BY <1>1 DEF Consistent, Kinds
  <1>3. Kinds(new, des)
    BY <1>1, <1>2 DEF Consistent, Kinds
  <1>4. OneThing(new, des)
    BY <1>1 DEF Consistent, OneThing
  <1>5. OnePlace(new, des)
    BY <1>1 DEF Consistent, OnePlace
  <1> QED
    BY <1>1, <1>3, <1>4, <1>5 DEF Consistent, new

\* The same as the operations say it.
LEMMA ItemEquipped ==
    ASSUME NEW its, NEW des, Consistent(its, des), NEW i \in DOMAIN its,
           NEW c \in Classes, NEW s \in Slots, Free(its, des, <<c, s>>)
    PROVE  /\ Consistent([its EXCEPT ![i].equipped = InClass(@, c, s)], des)
           /\ [its EXCEPT ![i].equipped = InClass(@, c, s)]
              = Moved(its, i, InClass(its[i].equipped, c, s))
           /\ InClass(its[i].equipped, c, s) \in SUBSET Place
  <1> DEFINE places == InClass(its[i].equipped, c, s)
  <1>1. its[i].equipped \subseteq Place /\ its \in [DOMAIN its -> Item]
    BY DEF Consistent, Kinds, Item
  <1>2. places \in SUBSET Place
    BY <1>1 DEF InClass, WithoutClass, Place
  <1>3. Consistent(Moved(its, i, places), des)
    BY ItemPut
  <1>4. [its EXCEPT ![i].equipped = InClass(@, c, s)] = [its EXCEPT ![i].equipped = places]
    OBVIOUS
  <1> HIDE DEF places
  <1>5. [its EXCEPT ![i].equipped = places] = Moved(its, i, places)
    BY <1>1, <1>2, MovedFacts
  <1> QED
    BY <1>2, <1>3, <1>4, <1>5 DEF places

-------------------------------------------------------------------------------
(* The operations.                                                         *)

IInv ==
    /\ Consistent(items, defaults)
    /\ Held \subseteq 1..lastId
    /\ lastId \in 0..MaxId

\* What every operation does to the ids.
Ids ==
    /\ (Held \subseteq 1..lastId)'
    /\ (lastId \in 0..MaxId)'

LEMMA SameIds == ASSUME IInv, lastId' = lastId, Held' = Held PROVE Ids
  BY DEF IInv, Ids

LEMMA InitIInv == Init => IInv
  <1> SUFFICES ASSUME Init PROVE IInv
    OBVIOUS
  <1>1. /\ InitialItems \subseteq 1..MaxId /\ MaxId \in Nat
        /\ lastId \in {0} \cup InitialItems /\ \A i \in InitialItems : i <= lastId
    BY LoadoutAssumption DEF Init
  <1>2. /\ Held = InitialItems /\ defaults = {}
        /\ \A i \in Held : items[i] \in Item /\ items[i].equipped = {}
        /\ items = [i \in Held |-> items[i]]
    <2>1. \A i \in InitialItems :
            [equipped |-> {}, sealed |-> i \in Sealed] \in Item
      BY DEF Item
    <2> QED
      BY <2>1 DEF Init, Held
  <1>3. Consistent(items, defaults)
    BY <1>2 DEF Consistent, Kinds, OneThing, OnePlace, Held
  <1> QED
    BY <1>1, <1>2, <1>3 DEF IInv

LEMMA EquipItemKeeps ==
    ASSUME IInv, NEW i \in Held, NEW c \in Classes, NEW s \in Slots, EquipItem(i, c, s)
    PROVE  Consistent(items', defaults') /\ Ids
  <1> DEFINE its == FreeItems(items, <<c, s>>)
             des == FreeDefaults(defaults, <<c, s>>)
  <1>1. /\ items' = [its EXCEPT ![i].equipped = InClass(@, c, s)]
        /\ defaults' = des /\ lastId' = lastId
    BY DEF EquipItem
  <1>2. Consistent(its, des) /\ Free(its, des, <<c, s>>) /\ DOMAIN its = Held
    BY Freed DEF IInv, FreeItems, Held
  <1> HIDE DEF its, des
  <1>3. Consistent(items', defaults')
    BY <1>1, <1>2, ItemEquipped
  <1>4. Held' = Held
    BY <1>1, <1>2 DEF Held
  <1> QED
    BY <1>1, <1>3, <1>4, SameIds

LEMMA EquipDefaultKeeps ==
    ASSUME IInv, NEW d \in Defaults, NEW c \in Classes, NEW s \in Slots, NEW swap,
           EquipDefault(d, c, s, swap)
    PROVE  Consistent(items', defaults') /\ Ids
  <1> DEFINE its == FreeItems(items, <<c, s>>)
             left == FreeDefaults(defaults, <<c, s>>)
             new == [def |-> d, at |-> <<c, s>>]
  <1>1. /\ items' = its /\ defaults' = (left \ Own(d, c)) \cup {new}
        /\ lastId' = lastId
    BY DEF EquipDefault
  <1>2. Consistent(its, left) /\ Free(its, left, <<c, s>>) /\ DOMAIN its = Held
    BY Freed DEF IInv, FreeItems, Held
  <1>3. Consistent(its, left \ Own(d, c)) /\ Free(its, left \ Own(d, c), <<c, s>>)
    BY <1>2, FewerDefaults
  <1>4. new \in DefaultEquip /\ new.at = <<c, s>> /\ new.def = d
    BY DEF DefaultEquip, Place
  <1>5. \A e \in left \ Own(d, c) : e.def = d => e.at[1] # c
    BY DEF Own, FreeDefaults
  <1> HIDE DEF its, left, new
  <1>6. Consistent(items', defaults')
    BY <1>1, <1>3, <1>4, <1>5, DefaultPut
  <1> QED
    BY <1>1, <1>2, <1>6, SameIds DEF Held

\* The places of the loadout in which there is something.
ItemPlaces(its) == UNION {its[i].equipped : i \in DOMAIN its}
DefaultPlaces(des) == {e.at : e \in des}
Places(its, des) == ItemPlaces(its) \cup DefaultPlaces(des)

LEMMA InPlaces ==
    ASSUME NEW its, NEW des, NEW p
    PROVE  p \in Places(its, des) <=> \/ \E j \in DOMAIN its : p \in its[j].equipped
                                      \/ \E f \in des : f.at = p
  <1>1. p \in ItemPlaces(its) <=> \E j \in DOMAIN its : p \in its[j].equipped
    BY DEF ItemPlaces
  <1>2. p \in DefaultPlaces(des) <=> \E f \in des : f.at = p
    BY DEF DefaultPlaces
  <1> QED
    BY <1>1, <1>2 DEF Places

LEMMA SwapWithItemKeeps ==
    ASSUME IInv, NEW d \in Defaults, NEW c \in Classes, NEW s \in Slots, SwapWithItem(d, c, s)
    PROVE  /\ Consistent(items', defaults') /\ Ids
           /\ Places(items', defaults') = Places(items, defaults)
           /\ Equipped(items') = Equipped(items)
  <1> DEFINE new == [def |-> d, at |-> <<c, s>>]
             des == defaults \ Own(d, c)
  <1>1. PICK i \in InSlot(<<c, s>>), e \in Own(d, c) :
           /\ items' = [items EXCEPT ![i].equipped = InClass(@, c, e.at[2])]
           /\ defaults' = des \cup {new}
    BY DEF SwapWithItem
  <1> DEFINE t == e.at[2]
             places == InClass(items[i].equipped, c, t)
  <1>2. /\ Consistent(items, defaults) /\ i \in DOMAIN items /\ <<c, s>> \in items[i].equipped
        /\ e \in defaults /\ e.def = d /\ e.at[1] = c /\ e \in DefaultEquip
    BY DEF IInv, InSlot, Own, Held, Consistent, Kinds
  <1>3. e.at = <<c, t>> /\ t \in Slots
    BY <1>2 DEF DefaultEquip, Place
  <1>4. Consistent(items, des)
    BY <1>2, FewerDefaults
  <1>5. Free(items, des, <<c, t>>)
    <2>1. \A j \in DOMAIN items : <<c, t>> \notin items[j].equipped
      BY <1>2, <1>3 DEF Consistent, OneThing
    <2>2. \A f \in des : f.at # <<c, t>>
      <3> SUFFICES ASSUME NEW f \in des, f.at = <<c, t>> PROVE FALSE
        OBVIOUS
      <3>1. f = e
        BY <1>2, <1>3 DEF Consistent, OneThing
      <3> QED
        BY <3>1
    <2> QED
      BY <2>1, <2>2 DEF Free
  <1>6. /\ Consistent(items', des) /\ items' = Moved(items, i, places)
        /\ places \in SUBSET Place
    <2>1. items' = [items EXCEPT ![i].equipped = InClass(@, c, t)]
      BY <1>1
    <2> HIDE DEF t, des
    <2>2. /\ Consistent([items EXCEPT ![i].equipped = InClass(@, c, t)], des)
          /\ [items EXCEPT ![i].equipped = InClass(@, c, t)]
             = Moved(items, i, InClass(items[i].equipped, c, t))
          /\ InClass(items[i].equipped, c, t) \in SUBSET Place
      BY <1>2, <1>3, <1>4, <1>5, ItemEquipped
    <2> QED
      BY <2>1, <2>2
  <1> HIDE DEF t
  <1>7. \A p : p \in places <=> p = <<c, t>> \/ (p \in items[i].equipped /\ p[1] # c)
    BY DEF InClass, WithoutClass
  <1> HIDE DEF places
  <1>8. /\ DOMAIN items' = DOMAIN items /\ items'[i].equipped = places
        /\ \A j \in DOMAIN items \ {i} : items'[j].equipped = items[j].equipped
    BY <1>2, <1>6, MovedFacts DEF Consistent, Kinds
  <1>9. s # t
    <2>1. e.at # <<c, s>>
      BY <1>2 DEF Consistent, OneThing
    <2> QED
      BY <1>3, <2>1
  <1>10. \A f \in defaults : f.at # <<c, s>>
    BY <1>2 DEF Consistent, OneThing
  <1>11. Free(items', des, <<c, s>>)
    <2>1. <<c, s>> \notin places
      BY <1>7, <1>9
    <2>2. \A j \in DOMAIN items \ {i} : <<c, s>> \notin items[j].equipped
      BY <1>2 DEF Consistent, OneThing
    <2> QED
      BY <1>8, <1>10, <2>1, <2>2 DEF Free
  <1>12. new \in DefaultEquip /\ new.at = <<c, s>> /\ new.def = d
    BY DEF DefaultEquip, Place
  <1>13. \A f \in des : f.def = d => f.at[1] # c
    BY DEF Own
  <1>14. \A f \in Own(d, c) : f = e
    BY <1>2 DEF Own, Consistent, OnePlace
  <1> HIDE DEF new, des
  <1>15. Consistent(items', defaults')
    BY <1>1, <1>6, <1>11, <1>12, <1>13, DefaultPut
  <1>16. Ids
    <2>1. lastId' = lastId
      BY DEF SwapWithItem
    <2> QED
      BY <1>8, <2>1, SameIds DEF Held
  <1>17. ASSUME NEW p \in Places(items', defaults') PROVE p \in Places(items, defaults)
    <2>1. CASE \E j \in DOMAIN items' : p \in items'[j].equipped
      <3>1. PICK j \in DOMAIN items : p \in items'[j].equipped
        BY <1>8, <2>1
      <3>2. p \in items[j].equipped \/ p = e.at
        BY <1>3, <1>7, <1>8, <3>1
      <3> QED
        BY <1>2, <3>2, InPlaces
    <2>2. CASE \E f \in defaults' : f.at = p
      <3>1. PICK f \in defaults' : f.at = p
        BY <2>2
      <3>2. f \in defaults \/ p = <<c, s>>
        BY <1>1, <1>12, <3>1 DEF des
      <3> QED
        BY <1>2, <3>1, <3>2, InPlaces
    <2> QED
      BY <2>1, <2>2, InPlaces
  <1>18. ASSUME NEW p \in Places(items, defaults) PROVE p \in Places(items', defaults')
    <2>1. CASE \E j \in DOMAIN items : p \in items[j].equipped
      <3>1. PICK j \in DOMAIN items : p \in items[j].equipped
        BY <2>1
      <3>2. \A q \in items[i].equipped : q[1] = c => q = <<c, s>>
        BY <1>2 DEF Consistent, OnePlace
      <3>3. p \in items'[j].equipped \/ p = new.at
        BY <1>7, <1>8, <1>12, <3>1, <3>2
      <3>4. new \in defaults' /\ j \in DOMAIN items'
        BY <1>1, <1>8
      <3> QED
        BY <3>3, <3>4, InPlaces
    <2>2. CASE \E f \in defaults : f.at = p
      <3>1. PICK f \in defaults : f.at = p
        BY <2>2
      <3>2. f \in defaults' \/ f.at \in items'[i].equipped
        BY <1>1, <1>3, <1>7, <1>8, <1>14 DEF des
      <3>3. i \in DOMAIN items'
        BY <1>2, <1>8
      <3> QED
        BY <3>1, <3>2, <3>3, InPlaces
    <2> QED
      BY <2>1, <2>2, InPlaces
  <1>19. Equipped(items') = Equipped(items)
    BY <1>2, <1>7, <1>8 DEF Equipped
  <1> QED
    BY <1>15, <1>16, <1>17, <1>18, <1>19

LEMMA SwapWithDefaultKeeps ==
    ASSUME IInv, NEW d \in Defaults, NEW c \in Classes, NEW s \in Slots, SwapWithDefault(d, c, s)
    PROVE  /\ Consistent(items', defaults') /\ Ids
           /\ Places(items', defaults') = Places(items, defaults)
           /\ Equipped(items') = Equipped(items)
  <1> DEFINE new == [def |-> d, at |-> <<c, s>>]
             des == (defaults \ Own(d, c))
  <1>1. PICK o \in OthersInSlot(d, <<c, s>>), e \in Own(d, c) :
           defaults' = ((defaults \ {o}) \ Own(d, c)) \cup {[o EXCEPT !.at = e.at], new}
    BY DEF SwapWithDefault
  <1> DEFINE moved == [o EXCEPT !.at = e.at]
             less == des \ {o}
  <1>2. UNCHANGED <<items, lastId>> /\ InSlot(<<c, s>>) = {}
    BY DEF SwapWithDefault
  <1>3. /\ Consistent(items, defaults)
        /\ o \in defaults /\ o.at = <<c, s>> /\ o.def # d /\ o \in DefaultEquip
        /\ e \in defaults /\ e.def = d /\ e.at[1] = c /\ e \in DefaultEquip
    BY DEF IInv, OthersInSlot, Own, Consistent, Kinds
  <1>4. /\ new \in DefaultEquip /\ new.at = <<c, s>> /\ new.def = d
        /\ moved \in DefaultEquip /\ moved.at = e.at /\ moved.def = o.def
    BY <1>3 DEF DefaultEquip, Place
  <1>5. defaults' = (less \cup {moved}) \cup {new}
    BY <1>1
  <1> HIDE DEF new, moved
  <1>6. \A f \in Own(d, c) : f = e
    BY <1>3 DEF Own, Consistent, OnePlace
  <1>7. Consistent(items, less)
    BY <1>3, FewerDefaults
  <1>8. Free(items, less, e.at) /\ Free(items, less, <<c, s>>)
    <2>1. \A j \in DOMAIN items : e.at \notin items[j].equipped /\ <<c, s>> \notin items[j].equipped
      BY <1>2, <1>3 DEF Consistent, OneThing, InSlot, Held
    <2>2. \A f \in less : f.at # e.at /\ f.at # <<c, s>>
      <3> SUFFICES ASSUME NEW f \in less, f.at = e.at \/ f.at = <<c, s>> PROVE FALSE
        OBVIOUS
      <3>1. f = e \/ f = o
        BY <1>3 DEF Consistent, OneThing
      <3>2. e \in Own(d, c)
        OBVIOUS
      <3> QED
        BY <3>1, <3>2
    <2> QED
      BY <2>1, <2>2 DEF Free
  <1>9. \A f \in less : f.def = moved.def => f.at[1] # moved.at[1]
    <2> SUFFICES ASSUME NEW f \in less, f.def = o.def, f.at[1] = c PROVE FALSE
      BY <1>3, <1>4
    <2>1. f = o
      BY <1>3 DEF Consistent, OnePlace
    <2> QED
      BY <2>1
  <1>10. Consistent(items, less \cup {moved})
    BY <1>4, <1>7, <1>8, <1>9, DefaultPut
  <1>11. e.at # <<c, s>>
    BY <1>3 DEF Consistent, OneThing
  <1>12. Free(items, less \cup {moved}, <<c, s>>)
    BY <1>4, <1>8, <1>11 DEF Free
  <1>13. \A f \in less \cup {moved} : f.def = d => f.at[1] # c
    BY <1>3, <1>4 DEF Own
  <1> HIDE DEF less
  <1>14. Consistent(items', defaults')
    BY <1>2, <1>4, <1>5, <1>10, <1>12, <1>13, DefaultPut
  <1>15. Ids
    BY <1>2, SameIds DEF Held
  <1>16. \A f \in defaults' : \E g \in defaults : g.at = f.at
    BY <1>3, <1>4, <1>5 DEF less
  <1>17. \A f \in defaults : \E g \in defaults' : g.at = f.at
    BY <1>3, <1>4, <1>5, <1>6 DEF less
  <1>18. ASSUME NEW p PROVE p \in Places(items', defaults') <=> p \in Places(items, defaults)
    BY <1>2, <1>16, <1>17, InPlaces
  <1>19. Equipped(items') = Equipped(items)
    BY <1>2
  <1> QED
    BY <1>14, <1>15, <1>18, <1>19

LEMMA UnequipSlotForClassKeeps ==
    ASSUME IInv, NEW c \in Classes, NEW s \in Slots, UnequipSlotForClass(c, s)
    PROVE  Consistent(items', defaults') /\ Ids
  <1>1. /\ items' = FreeItems(items, <<c, s>>) /\ defaults' = FreeDefaults(defaults, <<c, s>>)
        /\ lastId' = lastId
    BY DEF UnequipSlotForClass
  <1>2. Consistent(items', defaults') /\ Held' = Held
    BY <1>1, Freed DEF IInv, FreeItems, Held
  <1> QED
    BY <1>1, <1>2, SameIds

\* One item is in fewer places, and nothing else changes.
LEMMA ShrinksKeeps ==
    ASSUME IInv, NEW i \in Held, NEW places \in SUBSET (items[i].equipped),
           items' = [items EXCEPT ![i].equipped = places], UNCHANGED <<defaults, lastId>>
    PROVE  Consistent(items', defaults') /\ Ids
  <1>1. /\ Consistent(items, defaults) /\ items \in [DOMAIN items -> Item] /\ i \in DOMAIN items
        /\ items[i] \in Item
    BY DEF IInv, Held, Consistent, Kinds
  <1>2. places \in SUBSET Place
    BY <1>1, ItemFields
  <1>3. items' = Moved(items, i, places) /\ DOMAIN items' = DOMAIN items
    BY <1>1, <1>2, MovedFacts
  <1>4. Consistent(Moved(items, i, places), defaults)
    BY <1>1, FewerPlaces
  <1>5. Consistent(items', defaults')
    BY <1>3, <1>4
  <1> QED
    BY <1>3, <1>5, SameIds DEF Held

LEMMA UnequipItemForClassKeeps ==
    ASSUME IInv, NEW i \in Held, NEW c \in Classes, UnequipItemForClass(i, c)
    PROVE  Consistent(items', defaults') /\ Ids
  <1>1. WithoutClass(items[i].equipped, c) \in SUBSET (items[i].equipped)
    BY DEF WithoutClass
  <1>2. /\ items' = [items EXCEPT ![i].equipped = WithoutClass(items[i].equipped, c)]
        /\ UNCHANGED <<defaults, lastId>>
    BY DEF UnequipItemForClass
  <1> QED
    BY <1>1, <1>2, ShrinksKeeps

LEMMA DepositItemKeeps ==
    ASSUME IInv, NEW i \in Held, DepositItem(i)
    PROVE  Consistent(items', defaults') /\ Ids
  <1>1. /\ items' = [items EXCEPT ![i].equipped = {}]
        /\ UNCHANGED <<defaults, lastId>>
    BY DEF DepositItem
  <1>2. {} \in SUBSET (items[i].equipped)
    OBVIOUS
  <1> QED
    BY <1>1, <1>2, ShrinksKeeps

LEMMA UnequipDefaultForClassKeeps ==
    ASSUME IInv, NEW d \in Defaults, NEW c \in Classes, UnequipDefaultForClass(d, c)
    PROVE  Consistent(items', defaults') /\ Ids
  <1>1. defaults' = defaults \ Own(d, c) /\ UNCHANGED <<items, lastId>>
    BY DEF UnequipDefaultForClass
  <1>2. Consistent(items', defaults')
    BY <1>1, FewerDefaults DEF IInv
  <1> QED
    BY <1>1, <1>2, SameIds DEF Held

LEMMA UnsealSprayKeeps ==
    ASSUME IInv, NEW i \in Held, UnsealSpray(i)
    PROVE  Consistent(items', defaults') /\ Ids
  <1> DEFINE at == <<NoTeam, Graffiti>>
             k == lastId + 1
             x == [items[i] EXCEPT !.sealed = FALSE]
             base == Without(With(items, k, x), i)
             its == FreeItems(base, at)
             des == FreeDefaults(defaults, at)
  <1>1. /\ lastId < MaxId /\ lastId' = lastId + 1
        /\ items' = [its EXCEPT ![k].equipped = InClass(@, NoTeam, Graffiti)]
        /\ defaults' = des
    BY DEF UnsealSpray
  <1>2. /\ Consistent(items, defaults) /\ i \in DOMAIN items /\ items[i] \in Item
        /\ lastId \in 0..MaxId /\ MaxId \in Nat /\ DOMAIN items \subseteq 1..lastId
        /\ k \notin DOMAIN items /\ k # i
    BY LoadoutAssumption DEF IInv, Held, Consistent, Kinds
  <1>3. x \in Item /\ x.equipped = items[i].equipped
    BY <1>2 DEF Item
  <1> HIDE DEF x
  <1>4. /\ Consistent(base, defaults) /\ DOMAIN base = (DOMAIN items \cup {k}) \ {i}
    BY <1>2, <1>3, Replaced
  <1> HIDE DEF base
  <1>5. /\ Consistent(its, des) /\ Free(its, des, at) /\ DOMAIN its = DOMAIN base
    BY <1>4, Freed DEF FreeItems
  <1>6. k \in DOMAIN its
    BY <1>2, <1>4, <1>5
  <1> HIDE DEF its, des
  <1>7. Consistent(items', defaults')
    BY <1>1, <1>5, <1>6, LoadoutAssumption, ItemEquipped
  <1>8. DOMAIN items' = (DOMAIN items \cup {k}) \ {i}
    BY <1>1, <1>4, <1>5
  <1>9. Ids
    BY <1>1, <1>2, <1>8 DEF Ids, Held
  <1> QED
    BY <1>7, <1>9

LEMMA CreateItemKeeps ==
    ASSUME IInv, CreateItem PROVE Consistent(items', defaults') /\ Ids
  <1> DEFINE x == [equipped |-> {}, sealed |-> FALSE]
  <1>1. /\ lastId < MaxId /\ lastId' = lastId + 1
        /\ items' = With(items, lastId + 1, x) /\ UNCHANGED defaults
    BY DEF CreateItem
  <1>2. /\ Consistent(items, defaults) /\ lastId \in 0..MaxId /\ MaxId \in Nat
        /\ DOMAIN items \subseteq 1..lastId /\ lastId + 1 \notin DOMAIN items
    BY LoadoutAssumption DEF IInv, Held
  <1>3. x \in Item /\ x.equipped = {}
    BY DEF Item
  <1> HIDE DEF x
  <1>4. Consistent(items', defaults')
    BY <1>1, <1>2, <1>3, Come
  <1>5. Ids
    BY <1>1, <1>2 DEF Ids, Held, With
  <1> QED
    BY <1>4, <1>5

LEMMA DestroyItemKeeps ==
    ASSUME IInv, NEW i \in Held, DestroyItem(i) PROVE Consistent(items', defaults') /\ Ids
  <1>1. items' = Without(items, i) /\ UNCHANGED <<defaults, lastId>>
    BY DEF DestroyItem
  <1>2. Consistent(items', defaults')
    BY <1>1, Gone DEF IInv
  <1>3. Ids
    BY <1>1 DEF IInv, Ids, Held, Without
  <1> QED
    BY <1>2, <1>3

LEMMA NextIInv == IInv /\ [Next]_vars => IInv'
  <1> SUFFICES ASSUME IInv, [Next]_vars PROVE Consistent(items', defaults') /\ Ids
    BY DEF IInv, Ids
  <1>1. ASSUME UNCHANGED inventoryVars PROVE Consistent(items', defaults') /\ Ids
    BY <1>1, SameIds DEF inventoryVars, IInv, Held
  <1>2. HandleSOCacheRequest \/ LeaveServer \/ UNCHANGED vars => UNCHANGED inventoryVars
    BY DEF HandleSOCacheRequest, LeaveServer, vars
  <1> QED
    BY <1>1, <1>2, EquipItemKeeps, EquipDefaultKeeps, SwapWithItemKeeps, SwapWithDefaultKeeps,
       UnequipSlotForClassKeeps, UnequipItemForClassKeeps, UnequipDefaultForClassKeeps,
       UnsealSprayKeeps, CreateItemKeeps, DestroyItemKeeps, DepositItemKeeps DEF Next

LEMMA Invariance == Spec => []IInv
  BY InitIInv, NextIInv, PTL DEF Spec

-------------------------------------------------------------------------------
\* Whether the game server is there is all the other variables add.
LEMMA LinkedType == Spec => [](linked \in BOOLEAN)
  <1>1. Init => linked \in BOOLEAN
    BY DEF Init
  <1>2. ASSUME NEW objects, Publish(objects) PROVE linked' = linked
    BY <1>2 DEF Publish
  <1>3. ASSUME NEW c, NEW s, UnequipSlotForClass(c, s) PROVE linked' = linked
    BY <1>2, <1>3, Zenon DEF UnequipSlotForClass
  <1>4. ASSUME NEW i, NEW c, NEW s, EquipItem(i, c, s) PROVE linked' = linked
    BY <1>2, <1>4, Zenon DEF EquipItem
  <1>5. ASSUME NEW d, NEW c, NEW s, NEW swap, EquipDefault(d, c, s, swap) PROVE linked' = linked
    BY <1>2, <1>5, Zenon DEF EquipDefault
  <1>6. ASSUME NEW d, NEW c, NEW s, SwapWithItem(d, c, s) PROVE linked' = linked
    BY <1>2, <1>6, Zenon DEF SwapWithItem
  <1>7. ASSUME NEW d, NEW c, NEW s, SwapWithDefault(d, c, s) PROVE linked' = linked
    BY <1>2, <1>7, Zenon DEF SwapWithDefault
  <1>8. ASSUME NEW i, NEW c, UnequipItemForClass(i, c) PROVE linked' = linked
    BY <1>2, <1>8, Zenon DEF UnequipItemForClass
  <1>9. ASSUME NEW d, NEW c, UnequipDefaultForClass(d, c) PROVE linked' = linked
    BY <1>2, <1>9, Zenon DEF UnequipDefaultForClass
  <1>10. ASSUME NEW i, UnsealSpray(i) PROVE linked' = linked
    BY <1>2, <1>10, Zenon DEF UnsealSpray
  <1>11. ASSUME NEW i, DestroyItem(i) PROVE linked' = linked
    BY <1>2, <1>11, Zenon DEF DestroyItem
  <1>12. ASSUME NEW i, DepositItem(i) PROVE linked' = linked
    BY <1>2, <1>12, Zenon DEF DepositItem
  <1>13. CreateItem => linked' = linked
    BY <1>2, Zenon DEF CreateItem
  <1>14. HandleSOCacheRequest \/ LeaveServer => linked' \in {TRUE, FALSE}
    BY DEF HandleSOCacheRequest, LeaveServer
  <1>15. Next => linked' = linked \/ linked' \in {TRUE, FALSE}
    BY <1>3, <1>4, <1>5, <1>6, <1>7, <1>8, <1>9, <1>10, <1>11, <1>12, <1>13, <1>14 DEF Next
  <1>16. linked \in BOOLEAN /\ [Next]_vars => (linked \in BOOLEAN)'
    BY <1>15, Zenon DEF vars
  <1> QED
    BY <1>1, <1>16, PTL DEF Spec

\* A place of the loadout holds one thing at most, and a thing is in one slot of a
\* class at most (EquipItem's loops, inventory.cpp:1013-1052, stop at the first find).
THEOREM OneThingInEveryPlace == Spec => []LoadoutConsistent
  <1>1. IInv /\ linked \in BOOLEAN => LoadoutConsistent
    BY DEF IInv, Consistent, Kinds, OneThing, OnePlace, LoadoutConsistent, TypeOK,
           OneThingPerPlace, OnePlacePerClass, Held
  <1> QED
    BY <1>1, Invariance, LinkedType, PTL

\* One step's part of SwapKeepsEverything.
Kept(d, c, s) ==
    SwapWithItem(d, c, s) \/ SwapWithDefault(d, c, s) =>
      /\ {p[2] : p \in {q \in (UNION {items'[i].equipped : i \in DOMAIN items'})
                             \cup {e.at : e \in defaults'} : q[1] = c}}
         = {p[2] : p \in {q \in (UNION {items[i].equipped : i \in Held})
                             \cup {e.at : e \in defaults} : q[1] = c}}
      /\ Equipped(items) = Equipped(items)'

LEMMA SwapKeeps ==
    ASSUME IInv, NEW d \in Defaults, NEW c \in Classes, NEW s \in Slots PROVE Kept(d, c, s)
  <1> DEFINE ItemsAfter == UNION {items'[i].equipped : i \in DOMAIN items'}
             ItemsBefore == UNION {items[i].equipped : i \in Held}
             DefaultsAfter == {e.at : e \in defaults'}
             DefaultsBefore == {e.at : e \in defaults}
  <1> SUFFICES ASSUME SwapWithItem(d, c, s) \/ SwapWithDefault(d, c, s)
               PROVE  /\ {p[2] : p \in {q \in ItemsAfter \cup DefaultsAfter : q[1] = c}}
                         = {p[2] : p \in {q \in ItemsBefore \cup DefaultsBefore : q[1] = c}}
                      /\ Equipped(items) = Equipped(items)'
    BY DEF Kept
  <1>1. /\ ItemsAfter = ItemPlaces(items') /\ DefaultsAfter = DefaultPlaces(defaults')
        /\ ItemsBefore = ItemPlaces(items) /\ DefaultsBefore = DefaultPlaces(defaults)
    BY Zenon DEF ItemPlaces, DefaultPlaces, Held
  <1> HIDE DEF ItemsAfter, ItemsBefore, DefaultsAfter, DefaultsBefore
  <1>2. Places(items', defaults') = Places(items, defaults) /\ Equipped(items') = Equipped(items)
    BY SwapWithItemKeeps, SwapWithDefaultKeeps
  <1>3. ItemsAfter \cup DefaultsAfter = ItemsBefore \cup DefaultsBefore
    BY <1>1, <1>2 DEF Places
  <1> QED
    BY <1>2, <1>3

\* A swap takes nothing out of the loadout (inventory.cpp:1025-1059).
THEOREM NothingFallsOut == Spec => SwapKeepsEverything
  <1>1. IInv /\ [Next]_vars => [\A d \in Defaults, c \in Classes, s \in Slots : Kept(d, c, s)]_vars
    BY SwapKeeps
  <1> QED
    BY <1>1, Invariance, PTL DEF Spec, SwapKeepsEverything, Kept

-------------------------------------------------------------------------------
(* An update, object by object.  FoldLeft is defined through a function on *)
(* all the sets of positions; what it gives for the first n positions is   *)
(* Folded.  Two folds meet here, of Receive and of GameServerItemDirty.    *)
(* (The induction is a least counterexample.)                              *)

Step(k, c, o) == IF k = 1 THEN Receive(c, o) ELSE GameServerItemDirty(c, o)

IsFold(k, f, c, s, n) ==
    f = [x \in SUBSET (1..n) |-> IF x = {} THEN c ELSE Step(k, f[x \ {Max(x)}], s[Max(x)])]

Folds(k, c, s, n) == \E f : IsFold(k, f, c, s, n) /\ \A g : IsFold(k, g, c, s, n) => g = f

Folded(k, c, s, n) == (CHOOSE f : IsFold(k, f, c, s, n))[1..n]

LEMMA MaxIs == ASSUME NEW n \in Nat, NEW x \in SUBSET (1..n), n \in x PROVE Max(x) = n
  <1>1. \A y \in x : n >= y
    OBVIOUS
  <1>2. \A m \in x : (\A y \in x : m >= y) => m = n
    OBVIOUS
  <1> QED
    BY <1>1, <1>2 DEF Max

\* The function for one position more contains the one without it.
LEMMA FoldPart ==
    ASSUME NEW k, NEW c, NEW s, NEW n \in Nat, NEW f, IsFold(k, f, c, s, n + 1)
    PROVE  /\ IsFold(k, [x \in SUBSET (1..n) |-> f[x]], c, s, n)
           /\ \A x \in SUBSET (1 .. n + 1) :
                n + 1 \in x => f[x] = Step(k, f[x \ {n + 1}], s[n + 1])
           /\ \A x \in SUBSET (1 .. n + 1) : n + 1 \in x => x \ {n + 1} \in SUBSET (1..n)
  <1> DEFINE g == [x \in SUBSET (1..n) |-> f[x]]
  <1>1. ASSUME NEW x \in SUBSET (1 .. n + 1)
        PROVE  f[x] = IF x = {} THEN c ELSE Step(k, f[x \ {Max(x)}], s[Max(x)])
    BY Zenon DEF IsFold
  <1>2. ASSUME NEW x \in SUBSET (1..n)
        PROVE  /\ x \in SUBSET (1 .. n + 1) /\ x \ {Max(x)} \in SUBSET (1..n)
    <2>1. 1..n \subseteq 1 .. n + 1
      OBVIOUS
    <2> QED
      BY <2>1, Zenon
  <1>3. ASSUME NEW x \in SUBSET (1..n)
        PROVE  g[x] = IF x = {} THEN c ELSE Step(k, g[x \ {Max(x)}], s[Max(x)])
    <2>1. g[x] = f[x] /\ g[x \ {Max(x)}] = f[x \ {Max(x)}]
      BY <1>2
    <2>2. f[x] = IF x = {} THEN c ELSE Step(k, f[x \ {Max(x)}], s[Max(x)])
      BY <1>1, <1>2
    <2> QED
      BY <2>1, <2>2, Zenon
  <1>4. g = [x \in SUBSET (1..n) |-> IF x = {} THEN c ELSE Step(k, g[x \ {Max(x)}], s[Max(x)])]
    <2>1. g = [x \in SUBSET (1..n) |-> g[x]]
      OBVIOUS
    <2> HIDE DEF g
    <2> QED
      BY <1>3, <2>1
  <1>5. ASSUME NEW x \in SUBSET (1 .. n + 1), n + 1 \in x
        PROVE  f[x] = Step(k, f[x \ {n + 1}], s[n + 1]) /\ x \ {n + 1} \in SUBSET (1..n)
    <2>1. Max(x) = n + 1 /\ x # {}
      BY <1>5, MaxIs
    <2>2. x \ {n + 1} \in SUBSET (1..n)
      OBVIOUS
    <2> QED
      BY <1>1, <2>1, <2>2
  <1> QED
    BY <1>4, <1>5 DEF IsFold

LEMMA FoldZero ==
    ASSUME NEW k, NEW c, NEW s
    PROVE  Folds(k, c, s, 0) /\ Folded(k, c, s, 0) = c
  <1> DEFINE f == [x \in SUBSET (1..0) |-> c]
  <1>1. SUBSET (1..0) = {{}}
    OBVIOUS
  <1>2. IsFold(k, f, c, s, 0)
    BY <1>1 DEF IsFold
  <1>3. ASSUME NEW g, IsFold(k, g, c, s, 0) PROVE g = f
    BY <1>1, <1>3 DEF IsFold
  <1>4. f[1..0] = c
    BY <1>1
  <1> QED
    BY <1>2, <1>3, <1>4 DEF Folds, Folded

LEMMA FoldMore ==
    ASSUME NEW k, NEW c, NEW s, NEW n \in Nat, Folds(k, c, s, n)
    PROVE  Folds(k, c, s, n + 1) /\ Folded(k, c, s, n + 1) = Step(k, Folded(k, c, s, n), s[n + 1])
  <1> DEFINE m == n + 1
  <1>1. PICK f : IsFold(k, f, c, s, n) /\ \A g : IsFold(k, g, c, s, n) => g = f
    BY DEF Folds
  <1> DEFINE h == [x \in SUBSET (1..m) |->
                     IF m \in x THEN Step(k, f[x \ {m}], s[m]) ELSE f[x]]
  <1>2. ASSUME NEW x \in SUBSET (1..m), m \in x
        PROVE  /\ Max(x) = m /\ x # {} /\ x \ {m} \in SUBSET (1..n)
               /\ h[x] = Step(k, f[x \ {m}], s[m]) /\ h[x \ {m}] = f[x \ {m}]
    <2>1. Max(x) = m /\ x # {}
      BY <1>2, MaxIs
    <2>2. x \ {m} \in SUBSET (1..n) /\ x \ {m} \in SUBSET (1..m) /\ m \notin x \ {m}
      OBVIOUS
    <2>3. h[x] = Step(k, f[x \ {m}], s[m])
      BY <1>2, Zenon
    <2>4. h[x \ {m}] = f[x \ {m}]
      BY <2>2, Zenon
    <2> QED
      BY <2>1, <2>2, <2>3, <2>4
  <1>3. ASSUME NEW x \in SUBSET (1..m), m \notin x
        PROVE  h[x] = f[x] /\ h[x \ {Max(x)}] = f[x \ {Max(x)}] /\ x \in SUBSET (1..n)
    <2>1. x \in SUBSET (1..n)
      BY <1>3
    <2>2. x \ {Max(x)} \in SUBSET (1..m) /\ m \notin x \ {Max(x)}
      BY <1>3
    <2>3. h[x] = f[x]
      BY <1>3, Zenon
    <2>4. h[x \ {Max(x)}] = f[x \ {Max(x)}]
      BY <2>2, Zenon
    <2> QED
      BY <2>1, <2>3, <2>4
  <1>4. ASSUME NEW x \in SUBSET (1..n)
        PROVE  f[x] = IF x = {} THEN c ELSE Step(k, f[x \ {Max(x)}], s[Max(x)])
    BY <1>1, Zenon DEF IsFold
  <1>5. h = [x \in SUBSET (1..m) |-> h[x]]
    OBVIOUS
  <1> HIDE DEF h
  <1>6. ASSUME NEW x \in SUBSET (1..m)
        PROVE  h[x] = IF x = {} THEN c ELSE Step(k, h[x \ {Max(x)}], s[Max(x)])
    <2>1. CASE m \in x
      BY <1>2, <2>1
    <2>2. CASE m \notin x
      <3>1. h[x] = f[x] /\ h[x \ {Max(x)}] = f[x \ {Max(x)}] /\ x \in SUBSET (1..n)
        BY <1>3, <2>2
      <3>2. f[x] = IF x = {} THEN c ELSE Step(k, f[x \ {Max(x)}], s[Max(x)])
        BY <1>4, <3>1
      <3> QED
        BY <3>1, <3>2, Zenon
    <2> QED
      BY <2>1, <2>2
  <1>7. IsFold(k, h, c, s, m)
    BY <1>5, <1>6 DEF IsFold
  <1>8. ASSUME NEW g, IsFold(k, g, c, s, m)
        PROVE  g = h /\ g[1..m] = Step(k, f[1..n], s[m])
    <2> DEFINE part == [x \in SUBSET (1..n) |-> g[x]]
    <2>1. /\ IsFold(k, part, c, s, n)
          /\ \A x \in SUBSET (1..m) : m \in x => g[x] = Step(k, g[x \ {m}], s[m])
          /\ \A x \in SUBSET (1..m) : m \in x => x \ {m} \in SUBSET (1..n)
      BY <1>8, FoldPart
    <2>2. part = f
      BY <1>1, <2>1
    <2>3. \A x \in SUBSET (1..n) : g[x] = f[x]
      BY <2>2
    <2>4. g = [x \in SUBSET (1..m) |-> g[x]]
      BY <1>8 DEF IsFold
    <2> HIDE DEF part
    <2>5. ASSUME NEW x \in SUBSET (1..m) PROVE g[x] = h[x]
      <3>1. CASE m \in x
        BY <1>2, <2>1, <2>3, <3>1
      <3>2. CASE m \notin x
        BY <1>3, <2>3, <3>2
      <3> QED
        BY <3>1, <3>2
    <2>6. g = h
      BY <1>5, <2>4, <2>5
    <2>7. g[1..m] = Step(k, f[1..n], s[m])
      <3>1. 1..m \in SUBSET (1..m) /\ m \in 1..m /\ (1..m) \ {m} = 1..n
        OBVIOUS
      <3>2. g[1..m] = Step(k, g[(1..m) \ {m}], s[m])
        BY <2>1, <3>1
      <3>3. g[1..n] = f[1..n]
        BY <2>3
      <3> QED
        BY <3>1, <3>2, <3>3, Zenon
    <2> QED
      BY <2>6, <2>7
  <1>9. Folded(k, c, s, n) = f[1..n]
    BY <1>1 DEF Folded
  <1>10. Folds(k, c, s, m)
    BY <1>7, <1>8 DEF Folds
  <1>11. Folded(k, c, s, m) = Step(k, f[1..n], s[m])
    BY <1>7, <1>8 DEF Folded
  <1> QED
    BY <1>9, <1>10, <1>11

LEMMA FoldsAll == ASSUME NEW k, NEW c, NEW s PROVE \A n \in Nat : Folds(k, c, s, n)
  <1> DEFINE bad == {n \in Nat : ~Folds(k, c, s, n)}
  <1> SUFFICES ASSUME bad # {} PROVE FALSE
    OBVIOUS
  <1>1. PICK n \in bad : \A m \in bad : <<m, n>> \notin OpToRel(<, Nat)
    BY NatLessThanWellFounded, WFMin
  <1>2. n # 0
    BY FoldZero
  <1>3. n - 1 \in Nat /\ (n - 1) + 1 = n /\ <<n - 1, n>> \in OpToRel(<, Nat)
    BY <1>2 DEF OpToRel
  <1>4. n - 1 \notin bad
    BY <1>1, <1>3
  <1>5. Folds(k, c, s, n)
    <2>1. Folds(k, c, s, n - 1)
      BY <1>3, <1>4
    <2>2. Folds(k, c, s, (n - 1) + 1)
      BY <1>3, <2>1, FoldMore
    <2> QED
      BY <1>3, <2>2
  <1> QED
    BY <1>5

LEMMA FoldStep ==
    ASSUME NEW k, NEW c, NEW s, NEW n \in Nat
    PROVE  Folded(k, c, s, n + 1) = Step(k, Folded(k, c, s, n), s[n + 1])
  BY FoldsAll, FoldMore

LEMMA ReceiveFold ==
    ASSUME NEW c, NEW s, NEW n, DOMAIN s = 1..n PROVE FoldLeft(Receive, c, s) = Folded(1, c, s, n)
  <1> DEFINE IsIt(f) == f = [x \in SUBSET (1..n) |->
                               IF x = {} THEN c ELSE Receive(f[x \ {Max(x)}], s[Max(x)])]
  <1>1. \A f : IsIt(f) <=> IsFold(1, f, c, s, n)
    BY DEF IsFold, Step
  <1>2. FoldLeft(Receive, c, s) = (CHOOSE f : IsIt(f))[1..n]
    BY DEF FoldLeft, MapThenFoldSet
  <1> HIDE DEF IsIt
  <1> QED
    BY <1>1, <1>2 DEF Folded

LEMMA FilterFold ==
    ASSUME NEW c, NEW s, NEW n, DOMAIN s = 1..n
    PROVE  FoldLeft(GameServerItemDirty, c, s) = Folded(2, c, s, n)
  <1> DEFINE IsIt(f) == f = [x \in SUBSET (1..n) |->
                               IF x = {} THEN c ELSE GameServerItemDirty(f[x \ {Max(x)}], s[Max(x)])]
  <1>1. \A f : IsIt(f) <=> IsFold(2, f, c, s, n)
    BY DEF IsFold, Step
  <1>2. FoldLeft(GameServerItemDirty, c, s) = (CHOOSE f : IsIt(f))[1..n]
    BY DEF FoldLeft, MapThenFoldSet
  <1> HIDE DEF IsIt
  <1> QED
    BY <1>1, <1>2 DEF Folded

\* The objects beyond the n-th do not count yet.
LEMMA FoldSame ==
    ASSUME NEW k, NEW c, NEW s, NEW t, NEW m \in Nat, \A i \in 1..m : s[i] = t[i]
    PROVE  Folded(k, c, s, m) = Folded(k, c, t, m)
  <1> DEFINE bad == {n \in Nat : n <= m /\ Folded(k, c, s, n) # Folded(k, c, t, n)}
  <1> SUFFICES ASSUME bad # {} PROVE FALSE
    OBVIOUS
  <1>1. PICK n \in bad : \A j \in bad : <<j, n>> \notin OpToRel(<, Nat)
    BY NatLessThanWellFounded, WFMin
  <1>2. n # 0
    BY FoldZero
  <1>3. PICK j \in Nat : n = j + 1
    <2>1. n - 1 \in Nat /\ n = (n - 1) + 1
      BY <1>2
    <2> QED
      BY <2>1
  <1>4. <<j, n>> \in OpToRel(<, Nat) /\ j <= m /\ s[n] = t[n]
    BY <1>3 DEF OpToRel
  <1>5. Folded(k, c, s, j) = Folded(k, c, t, j)
    BY <1>1, <1>4
  <1>6. Folded(k, c, s, j + 1) = Step(k, Folded(k, c, s, j), s[j + 1])
    BY FoldStep
  <1>7. Folded(k, c, t, j + 1) = Step(k, Folded(k, c, t, j), t[j + 1])
    BY FoldStep
  <1> QED
    BY <1>3, <1>4, <1>5, <1>6, <1>7

\* A copy that gets some objects, and the filter that lets them through.
Got(c, objects) == FoldLeft(Receive, c, objects)
Filtered(tr, objects) == FoldLeft(GameServerItemDirty, [tracked |-> tr, objects |-> <<>>], objects)

LEMMA GotNone == ASSUME NEW c PROVE Got(c, <<>>) = c
  <1>1. DOMAIN <<>> = 1..0
    OBVIOUS
  <1>2. Got(c, <<>>) = Folded(1, c, <<>>, 0)
    BY <1>1, ReceiveFold DEF Got
  <1> QED
    BY <1>2, FoldZero

LEMMA FilteredNone == ASSUME NEW tr PROVE Filtered(tr, <<>>) = [tracked |-> tr, objects |-> <<>>]
  <1>1. DOMAIN <<>> = 1..0
    OBVIOUS
  <1>2. Filtered(tr, <<>>) = Folded(2, [tracked |-> tr, objects |-> <<>>], <<>>, 0)
    BY <1>1, FilterFold DEF Filtered
  <1> QED
    BY <1>2, FoldZero

LEMMA FoldAppend ==
    ASSUME NEW S, NEW s \in Seq(S), NEW o, NEW k, NEW c
    PROVE  Folded(k, c, Append(s, o), Len(s) + 1) = Step(k, Folded(k, c, s, Len(s)), o)
  <1> DEFINE t == Append(s, o)
             n == Len(s)
  <1>1. n \in Nat /\ t[n + 1] = o /\ \A i \in 1..n : t[i] = s[i]
    OBVIOUS
  <1> HIDE DEF t, n
  <1>2. Folded(k, c, t, n + 1) = Step(k, Folded(k, c, t, n), o)
    BY <1>1, FoldStep
  <1>3. Folded(k, c, t, n) = Folded(k, c, s, n)
    BY <1>1, FoldSame
  <1> QED
    BY <1>2, <1>3 DEF t, n

LEMMA GotMore ==
    ASSUME NEW S, NEW s \in Seq(S), NEW o \in S, NEW c
    PROVE  Got(c, Append(s, o)) = Receive(Got(c, s), o)
  <1>1. DOMAIN s = 1..Len(s) /\ DOMAIN Append(s, o) = 1..(Len(s) + 1)
    OBVIOUS
  <1>2. Folded(1, c, Append(s, o), Len(s) + 1) = Step(1, Folded(1, c, s, Len(s)), o)
    BY FoldAppend
  <1>3. Got(c, Append(s, o)) = Folded(1, c, Append(s, o), Len(s) + 1)
    BY <1>1, ReceiveFold DEF Got
  <1>4. Got(c, s) = Folded(1, c, s, Len(s))
    BY <1>1, ReceiveFold DEF Got
  <1> QED
    BY <1>2, <1>3, <1>4 DEF Step

LEMMA FilteredMore ==
    ASSUME NEW S, NEW s \in Seq(S), NEW o \in S, NEW tr
    PROVE  Filtered(tr, Append(s, o)) = GameServerItemDirty(Filtered(tr, s), o)
  <1> DEFINE c == [tracked |-> tr, objects |-> <<>>]
  <1>1. DOMAIN s = 1..Len(s) /\ DOMAIN Append(s, o) = 1..(Len(s) + 1)
    OBVIOUS
  <1> HIDE DEF c
  <1>2. Folded(2, c, Append(s, o), Len(s) + 1) = Step(2, Folded(2, c, s, Len(s)), o)
    BY FoldAppend
  <1>3. Filtered(tr, Append(s, o)) = Folded(2, c, Append(s, o), Len(s) + 1)
    BY <1>1, FilterFold DEF Filtered, c
  <1>4. Filtered(tr, s) = Folded(2, c, s, Len(s))
    BY <1>1, FilterFold DEF Filtered, c
  <1> QED
    BY <1>2, <1>3, <1>4 DEF Step

-------------------------------------------------------------------------------
(* Those who are told: the game, and the game server behind its filter.    *)

Objects ==
    [kind : {"item"}, id : Nat, item : Item] \cup [kind : {"destroy"}, id : Nat]
      \cup [kind : {"default"}, def : Defaults \cup {none}, at : Place]

Receivers == [game |-> game, tracked |-> tracked, server |-> server, linked |-> linked]

\* GameServerItemDirty: what is tracked after an object, and whether it goes on.
Tracks(tr, o) ==
    IF o.kind = "default" THEN tr
    ELSE IF o.kind = "item" /\ o.item.equipped # {} THEN tr \cup {o.id} ELSE tr \ {o.id}

Forwards(tr, o) ==
    o.kind = "default" \/ (o.kind = "item" /\ o.item.equipped # {}) \/ o.id \in tr

Told(w, o) ==
    [game |-> Receive(w.game, o), tracked |-> Tracks(w.tracked, o),
     server |-> IF w.linked /\ Forwards(w.tracked, o) THEN Receive(w.server, o) ELSE w.server,
     linked |-> w.linked]

Informed(w, s) ==
    [game |-> Got(w.game, s), tracked |-> Filtered(w.tracked, s).tracked,
     server |-> IF w.linked THEN Got(w.server, Filtered(w.tracked, s).objects) ELSE w.server,
     linked |-> w.linked]

LEMMA OneFiltered ==
    ASSUME NEW tr, NEW q, NEW o \in Objects
    PROVE  GameServerItemDirty([tracked |-> tr, objects |-> q], o)
           = [tracked |-> Tracks(tr, o), objects |-> IF Forwards(tr, o) THEN Append(q, o) ELSE q]
  <1> DEFINE filter == [tracked |-> tr, objects |-> q]
             r == Append(q, o)
             forwarded == [filter EXCEPT !.objects = r]
  <1>1. forwarded = [tracked |-> tr, objects |-> r]
    <2> HIDE DEF r
    <2> QED
      OBVIOUS
  <1>2. /\ [filter EXCEPT !.tracked = tr \ {o.id}] = [tracked |-> tr \ {o.id}, objects |-> q]
        /\ filter.tracked = tr /\ filter.objects = q
    OBVIOUS
  <1>3. GameServerItemDirty(filter, o)
        = IF o.kind = "default" THEN forwarded
          ELSE IF o.kind = "item" /\ o.item.equipped # {}
               THEN [forwarded EXCEPT !.tracked = forwarded.tracked \cup {o.id}]
               ELSE IF o.id \in filter.tracked
                    THEN [forwarded EXCEPT !.tracked = forwarded.tracked \ {o.id}]
                    ELSE [filter EXCEPT !.tracked = filter.tracked \ {o.id}]
    BY DEF GameServerItemDirty
  <1> HIDE DEF r, forwarded, filter
  <1>4. /\ forwarded.tracked = tr
        /\ [forwarded EXCEPT !.tracked = tr \cup {o.id}] = [tracked |-> tr \cup {o.id}, objects |-> r]
        /\ [forwarded EXCEPT !.tracked = tr \ {o.id}] = [tracked |-> tr \ {o.id}, objects |-> r]
    BY <1>1
  <1> QED
    BY <1>1, <1>2, <1>3, <1>4 DEF Tracks, Forwards, filter, r

LEMMA FilteredShape ==
    ASSUME NEW tr, NEW s \in Seq(Objects)
    PROVE  /\ Filtered(tr, s) = [tracked |-> Filtered(tr, s).tracked, objects |-> Filtered(tr, s).objects]
           /\ Filtered(tr, s).objects \in Seq(Objects)
  <1> DEFINE Good(q) == /\ q = [tracked |-> q.tracked, objects |-> q.objects]
                        /\ q.objects \in Seq(Objects)
             c == [tracked |-> tr, objects |-> <<>>]
             n == Len(s)
             bad == {i \in Nat : i <= n /\ ~Good(Folded(2, c, s, i))}
  <1>1. n \in Nat /\ DOMAIN s = 1..n /\ \A i \in 1..n : s[i] \in Objects
    OBVIOUS
  <1>2. Good(Folded(2, c, s, 0))
    <2>1. <<>> \in Seq(Objects)
      OBVIOUS
    <2>2. c = [tracked |-> c.tracked, objects |-> c.objects] /\ c.objects = <<>>
      OBVIOUS
    <2> HIDE DEF c
    <2> QED
      BY <2>1, <2>2, FoldZero
  <1>3. ASSUME NEW j \in Nat, j + 1 <= n, Good(Folded(2, c, s, j)) PROVE Good(Folded(2, c, s, j + 1))
    <2> DEFINE q == Folded(2, c, s, j)
               o == s[j + 1]
    <2>1. Folded(2, c, s, j + 1) = GameServerItemDirty(q, o)
      BY FoldStep DEF Step
    <2>2. o \in Objects
      BY <1>1, <1>3
    <2> HIDE DEF q, o, c, n
    <2>3. q = [tracked |-> q.tracked, objects |-> q.objects] /\ q.objects \in Seq(Objects)
      BY <1>3 DEF q
    <2>4. GameServerItemDirty(q, o)
          = [tracked |-> Tracks(q.tracked, o),
             objects |-> IF Forwards(q.tracked, o) THEN Append(q.objects, o) ELSE q.objects]
      BY <2>2, <2>3, OneFiltered
    <2> DEFINE t == Tracks(q.tracked, o)
               r == IF Forwards(q.tracked, o) THEN Append(q.objects, o) ELSE q.objects
    <2>5. r \in Seq(Objects)
      BY <2>2, <2>3
    <2> HIDE DEF t, r
    <2>6. Good([tracked |-> t, objects |-> r])
      BY <2>5
    <2> QED
      BY <2>1, <2>4, <2>6 DEF t, r
  <1> HIDE DEF Good, c, n
  <1>4. bad = {}
    <2> SUFFICES ASSUME bad # {} PROVE FALSE
      OBVIOUS
    <2>1. PICK i \in bad : \A j \in bad : <<j, i>> \notin OpToRel(<, Nat)
      BY NatLessThanWellFounded, WFMin
    <2>2. i # 0
      BY <1>2
    <2>3. i - 1 \in Nat /\ (i - 1) + 1 = i /\ <<i - 1, i>> \in OpToRel(<, Nat) /\ i <= n /\ i - 1 <= n
      BY <1>1, <2>2 DEF OpToRel
    <2>4. Good(Folded(2, c, s, i - 1))
      BY <2>1, <2>3
    <2>5. Good(Folded(2, c, s, (i - 1) + 1))
      BY <1>3, <2>3, <2>4
    <2> QED
      BY <2>3, <2>5
  <1>5. Good(Folded(2, c, s, n))
    BY <1>1, <1>4
  <1>6. Filtered(tr, s) = Folded(2, c, s, n)
    BY <1>1, FilterFold DEF Filtered, c
  <1> QED
    BY <1>5, <1>6 DEF Good

LEMMA InformedNone ==
    ASSUME NEW w, w = [game |-> w.game, tracked |-> w.tracked, server |-> w.server, linked |-> w.linked]
    PROVE  Informed(w, <<>>) = w
  <1>1. /\ Filtered(w.tracked, <<>>).tracked = w.tracked /\ Filtered(w.tracked, <<>>).objects = <<>>
    BY FilteredNone
  <1>2. Got(w.game, <<>>) = w.game /\ Got(w.server, <<>>) = w.server
    BY GotNone
  <1> QED
    BY <1>1, <1>2 DEF Informed

LEMMA InformedMore ==
    ASSUME NEW w, NEW s \in Seq(Objects), NEW o \in Objects
    PROVE  Informed(w, Append(s, o)) = Told(Informed(w, s), o)
  <1> DEFINE f == Filtered(w.tracked, s)
             h == Filtered(w.tracked, Append(s, o))
             u == Informed(w, s)
  <1>1. f = [tracked |-> f.tracked, objects |-> f.objects] /\ f.objects \in Seq(Objects)
    BY FilteredShape
  <1>2. h = GameServerItemDirty(f, o)
    BY FilteredMore
  <1> HIDE DEF f
  <1>3. h = [tracked |-> Tracks(f.tracked, o),
             objects |-> IF Forwards(f.tracked, o) THEN Append(f.objects, o) ELSE f.objects]
    BY <1>1, <1>2, OneFiltered
  <1> HIDE DEF h
  <1>4. h.tracked = Tracks(f.tracked, o)
        /\ h.objects = IF Forwards(f.tracked, o) THEN Append(f.objects, o) ELSE f.objects
    BY <1>3
  <1>5. Got(w.game, Append(s, o)) = Receive(Got(w.game, s), o)
    BY GotMore
  <1>6. Got(w.server, Append(f.objects, o)) = Receive(Got(w.server, f.objects), o)
    BY <1>1, GotMore
  <1>7. /\ u.game = Got(w.game, s) /\ u.tracked = f.tracked /\ u.linked = w.linked
        /\ u.server = IF w.linked THEN Got(w.server, f.objects) ELSE w.server
    BY DEF Informed, f
  <1>8. Informed(w, Append(s, o))
        = [game |-> Got(w.game, Append(s, o)), tracked |-> h.tracked,
           server |-> IF w.linked THEN Got(w.server, h.objects) ELSE w.server, linked |-> w.linked]
    BY DEF Informed, h
  <1> HIDE DEF u
  <1>9. (IF w.linked THEN Got(w.server, h.objects) ELSE w.server)
        = IF u.linked /\ Forwards(u.tracked, o) THEN Receive(u.server, o) ELSE u.server
    BY <1>4, <1>6, <1>7
  <1> QED
    BY <1>4, <1>5, <1>7, <1>8, <1>9 DEF Told, u

LEMMA PublishInforms ==
    ASSUME NEW objects, Publish(objects) PROVE Receivers' = Informed(Receivers, objects)
  <1>1. /\ game' = Got(game, objects)
        /\ tracked' = Filtered(tracked, objects).tracked
        /\ server' = IF linked THEN Got(server, Filtered(tracked, objects).objects) ELSE server
        /\ linked' = linked
    BY Zenon DEF Publish, Got, Filtered
  <1>2. Receivers' = [game |-> game', tracked |-> tracked', server |-> server', linked |-> linked']
    BY DEF Receivers
  <1>3. /\ Receivers.game = game /\ Receivers.tracked = tracked /\ Receivers.server = server
        /\ Receivers.linked = linked
    BY DEF Receivers
  <1> QED
    BY <1>1, <1>2, <1>3 DEF Informed

-------------------------------------------------------------------------------
(* What they know, of any items and default equips.                        *)

\* f gives the base item of each place.
Mapped(f, des) ==
    /\ f = [at \in DOMAIN f |-> f[at]]
    /\ DOMAIN f = DefaultPlaces(des)
    /\ \A e \in des : f[e.at] = e.def

Copy(c) ==
    /\ c = [items |-> c.items, defaults |-> c.defaults]
    /\ c.items = [i \in DOMAIN c.items |-> c.items[i]]

\* c holds the items ids as they are equipped, and the base items.
Holds(c, ids, its, des) ==
    /\ Copy(c)
    /\ DOMAIN c.items = ids
    /\ \A i \in ids : c.items[i].equipped = its[i].equipped
    /\ Mapped(c.defaults, des)

\* What is not equipped does not matter to the game server.
Serves(c, its, des) ==
    /\ Copy(c)
    /\ Equipped(c.items) = Equipped(its)
    /\ \A i \in Equipped(its) : c.items[i].equipped = its[i].equipped
    /\ Mapped(c.defaults, des)

Known(w, n, its, des) ==
    /\ Holds(w.game, DOMAIN its, its, des)
    /\ w.tracked \subseteq 1..n
    /\ w.linked => w.tracked = Equipped(its) /\ Serves(w.server, its, des)

LEMMA MappedOnce ==
    ASSUME NEW des, NEW f, NEW h, Mapped(f, des), Mapped(h, des) PROVE f = h
  <1>1. \A at \in DOMAIN f : f[at] = h[at]
    BY DEF Mapped, DefaultPlaces
  <1>2. f = [at \in DOMAIN f |-> f[at]] /\ h = [at \in DOMAIN f |-> h[at]]
    BY DEF Mapped
  <1> QED
    BY <1>1, <1>2

\* A base item comes to a place that is empty; one leaves its place.
LEMMA MappedWith ==
    ASSUME NEW des, NEW f, Mapped(f, des), NEW e, \A x \in des : x.at # e.at
    PROVE  Mapped(With(f, e.at, e.def), des \cup {e})
  <1> DEFINE h == With(f, e.at, e.def)
  <1>1. /\ DOMAIN h = DOMAIN f \cup {e.at} /\ h[e.at] = e.def
        /\ \A at \in DOMAIN f \ {e.at} : h[at] = f[at]
        /\ h = [at \in DOMAIN h |-> h[at]]
    BY DEF With
  <1> HIDE DEF h
  <1>2. DefaultPlaces(des \cup {e}) = DefaultPlaces(des) \cup {e.at}
    BY DEF DefaultPlaces
  <1>3. \A x \in des : x.at \in DOMAIN f
    BY DEF Mapped, DefaultPlaces
  <1>4. ASSUME NEW x \in des \cup {e} PROVE h[x.at] = x.def
    BY <1>1, <1>3 DEF Mapped
  <1> QED
    BY <1>1, <1>2, <1>4 DEF Mapped, h

LEMMA MappedWithout ==
    ASSUME NEW des, NEW f, Mapped(f, des), NEW e \in des, \A x \in des : x.at = e.at => x = e
    PROVE  Mapped(Without(f, e.at), des \ {e})
  <1> DEFINE h == Without(f, e.at)
  <1>1. /\ DOMAIN h = DOMAIN f \ {e.at}
        /\ \A at \in DOMAIN h : h[at] = f[at]
        /\ h = [at \in DOMAIN h |-> h[at]]
    BY DEF Without
  <1> HIDE DEF h
  <1>2. DefaultPlaces(des \ {e}) = DefaultPlaces(des) \ {e.at}
    BY DEF DefaultPlaces
  <1>3. \A x \in des \ {e} : x.at \in DOMAIN h
    BY <1>1 DEF Mapped, DefaultPlaces
  <1> QED
    BY <1>1, <1>2, <1>3 DEF Mapped, h

-------------------------------------------------------------------------------
(* One object.                                                             *)

LEMMA CopyRevised ==
    ASSUME NEW c, c = [items |-> c.items, defaults |-> c.defaults], NEW v
    PROVE  [c EXCEPT !.items = v] = [items |-> v, defaults |-> c.defaults]
  OBVIOUS

LEMMA ReceivedItem ==
    ASSUME NEW c, Copy(c), NEW i, NEW x
    PROVE  Receive(c, [kind |-> "item", id |-> i, item |-> x])
           = [items |-> With(c.items, i, x), defaults |-> c.defaults]
  <1>1. Receive(c, [kind |-> "item", id |-> i, item |-> x]) = [c EXCEPT !.items = With(c.items, i, x)]
    BY DEF Receive
  <1> QED
    BY <1>1, CopyRevised DEF Copy

LEMMA ReceivedDestroy ==
    ASSUME NEW c, Copy(c), NEW i
    PROVE  Receive(c, DestroyObject(i)) = [items |-> Without(c.items, i), defaults |-> c.defaults]
  <1>1. Receive(c, DestroyObject(i)) = [c EXCEPT !.items = Without(c.items, i)]
    BY DEF Receive, DestroyObject
  <1> QED
    BY <1>1, CopyRevised DEF Copy

LEMMA ReceivedDefault ==
    ASSUME NEW c, Copy(c), NEW e
    PROVE  /\ e.def # none => Receive(c, DefaultObject(e))
                              = [items |-> c.items, defaults |-> With(c.defaults, e.at, e.def)]
           /\ Receive(c, ClearedObject(e))
              = [items |-> c.items, defaults |-> Without(c.defaults, e.at)]
  BY DEF Receive, Copy, DefaultObject, ClearedObject

\* h is f with x at i; h is f without i.
IsWith(h, f, i, x) ==
    /\ DOMAIN h = DOMAIN f \cup {i} /\ h[i] = x
    /\ \A j \in DOMAIN f : j # i => h[j] = f[j]
    /\ h = [j \in DOMAIN h |-> h[j]]

IsWithout(h, f, i) ==
    /\ DOMAIN h = DOMAIN f \ {i}
    /\ \A j \in DOMAIN f : j # i => h[j] = f[j]
    /\ h = [j \in DOMAIN h |-> h[j]]

LEMMA WithFacts ==
    ASSUME NEW f, NEW i
    PROVE  /\ \A x : IsWith(With(f, i, x), f, i, x)
           /\ IsWithout(Without(f, i), f, i)
  <1>1. ASSUME NEW x PROVE IsWith(With(f, i, x), f, i, x)
    BY DEF IsWith, With
  <1>2. IsWithout(Without(f, i), f, i)
    BY DEF IsWithout, Without
  <1> QED
    BY <1>1, <1>2

\* An item as it is now, where only this one has changed.
LEMMA ItemTold ==
    ASSUME NEW w, NEW n \in Nat, NEW its, NEW des, Known(w, n, its, des), NEW i \in 1..n, NEW its2,
           DOMAIN its2 = DOMAIN its \cup {i},
           \A j \in DOMAIN its : j # i => its2[j].equipped = its[j].equipped
    PROVE  Known(Told(w, ItemObject(i, its2)), n, its2, des)
  <1> DEFINE x == its2[i]
             o == ItemObject(i, its2)
             u == Told(w, o)
             tr == IF x.equipped # {} THEN w.tracked \cup {i} ELSE w.tracked \ {i}
             on == w.linked /\ (x.equipped # {} \/ i \in w.tracked)
  <1>1. /\ u.game = Receive(w.game, o) /\ u.tracked = tr /\ u.linked = w.linked
        /\ u.server = IF on THEN Receive(w.server, o) ELSE w.server
    BY DEF Told, Tracks, Forwards, ItemObject
  <1>2. o = [kind |-> "item", id |-> i, item |-> x]
    BY DEF ItemObject
  <1>3. Holds(w.game, DOMAIN its, its, des) /\ w.tracked \subseteq 1..n
    BY DEF Known
  <1> HIDE DEF u, o, x
  <1>4. Holds(u.game, DOMAIN its2, its2, des)
    <2> DEFINE g == [items |-> With(w.game.items, i, x), defaults |-> w.game.defaults]
    <2>1. u.game = g
      BY <1>1, <1>2, <1>3, ReceivedItem DEF Holds
    <2>2. g.items = With(w.game.items, i, x) /\ g.defaults = w.game.defaults
      OBVIOUS
    <2>3. g = [items |-> g.items, defaults |-> g.defaults]
      OBVIOUS
    <2> HIDE DEF g
    <2>4. /\ DOMAIN g.items = DOMAIN w.game.items \cup {i} /\ g.items[i] = x
          /\ \A j \in DOMAIN w.game.items : j # i => g.items[j] = w.game.items[j]
          /\ g.items = [j \in DOMAIN g.items |-> g.items[j]]
      <3>1. IsWith(g.items, w.game.items, i, x)
        BY <2>2, WithFacts
      <3> QED
        BY <3>1 DEF IsWith
    <2>5. \A j \in DOMAIN its2 : g.items[j].equipped = its2[j].equipped
      BY <1>3, <2>4 DEF Holds, x
    <2> QED
      BY <1>3, <2>1, <2>2, <2>3, <2>4, <2>5 DEF Holds, Copy
  <1>5. u.tracked \subseteq 1..n
    BY <1>1, <1>3
  <1>6. ASSUME u.linked PROVE u.tracked = Equipped(its2) /\ Serves(u.server, its2, des)
    <2>1. w.linked /\ w.tracked = Equipped(its) /\ Serves(w.server, its, des)
      BY <1>1, <1>6 DEF Known
    <2>2. u.tracked = Equipped(its2)
      BY <1>1, <2>1 DEF Equipped, x
    <2>3. CASE on
      <3> DEFINE g == [items |-> With(w.server.items, i, x), defaults |-> w.server.defaults]
      <3>1. u.server = g
        BY <1>1, <1>2, <2>1, <2>3, ReceivedItem DEF Serves
      <3>2. g.items = With(w.server.items, i, x) /\ g.defaults = w.server.defaults
        OBVIOUS
      <3>3. g = [items |-> g.items, defaults |-> g.defaults]
        OBVIOUS
      <3> HIDE DEF g
      <3>4. /\ DOMAIN g.items = DOMAIN w.server.items \cup {i} /\ g.items[i] = x
            /\ \A j \in DOMAIN w.server.items : j # i => g.items[j] = w.server.items[j]
            /\ g.items = [j \in DOMAIN g.items |-> g.items[j]]
        <4>1. IsWith(g.items, w.server.items, i, x)
          BY <3>2, WithFacts
        <4> QED
          BY <4>1 DEF IsWith
      <3>5. ASSUME NEW j PROVE j \in Equipped(g.items) <=> j \in Equipped(its2)
        <4>1. CASE j = i
          BY <3>4, <4>1 DEF Equipped, x
        <4>2. CASE j # i
          <5>1. j \in Equipped(g.items) <=> j \in Equipped(w.server.items)
            BY <3>4, <4>2 DEF Equipped
          <5>2. j \in Equipped(its) <=> j \in Equipped(its2)
            BY <4>2 DEF Equipped
          <5> QED
            BY <2>1, <5>1, <5>2 DEF Serves
        <4> QED
          BY <4>1, <4>2
      <3>6. Equipped(g.items) = Equipped(its2)
        BY <3>5
      <3>7. \A j \in Equipped(its2) : g.items[j].equipped = its2[j].equipped
        <4> SUFFICES ASSUME NEW j \in Equipped(its2), j # i
                     PROVE  g.items[j].equipped = its2[j].equipped
          BY <3>4 DEF x
        <4>1. j \in Equipped(its) /\ j \in DOMAIN w.server.items
          BY <2>1 DEF Equipped, Serves
        <4> QED
          BY <2>1, <3>4, <4>1 DEF Equipped, Serves
      <3> QED
        BY <2>1, <2>2, <3>1, <3>2, <3>3, <3>4, <3>6, <3>7 DEF Serves, Copy
    <2>4. CASE ~on
      <3>1. u.server = w.server /\ x.equipped = {} /\ i \notin Equipped(its)
        BY <1>1, <2>1, <2>4
      <3>2. Equipped(its2) = Equipped(its)
        BY <1>1, <2>1, <2>2, <3>1
      <3>3. \A j \in Equipped(its) : its2[j].equipped = its[j].equipped
        BY <3>1 DEF Equipped
      <3> QED
        BY <2>1, <2>2, <3>1, <3>2, <3>3 DEF Serves
    <2> QED
      BY <2>3, <2>4
  <1> QED
    BY <1>4, <1>5, <1>6 DEF Known, u, o

\* An item that is gone.
LEMMA DestroyTold ==
    ASSUME NEW w, NEW n \in Nat, NEW its, NEW des, Known(w, n, its, des), NEW i, NEW its2,
           DOMAIN its2 = DOMAIN its \ {i},
           \A j \in DOMAIN its2 : its2[j].equipped = its[j].equipped
    PROVE  Known(Told(w, DestroyObject(i)), n, its2, des)
  <1> DEFINE o == DestroyObject(i)
             u == Told(w, o)
             on == w.linked /\ i \in w.tracked
  <1>1. /\ u.game = Receive(w.game, o) /\ u.tracked = w.tracked \ {i} /\ u.linked = w.linked
        /\ u.server = IF on THEN Receive(w.server, o) ELSE w.server
    BY DEF Told, Tracks, Forwards, DestroyObject
  <1>2. Holds(w.game, DOMAIN its, its, des) /\ w.tracked \subseteq 1..n
    BY DEF Known
  <1> HIDE DEF u
  <1>3. Holds(u.game, DOMAIN its2, its2, des)
    <2> DEFINE g == [items |-> Without(w.game.items, i), defaults |-> w.game.defaults]
    <2>1. u.game = g
      BY <1>1, <1>2, ReceivedDestroy DEF Holds
    <2>2. g.items = Without(w.game.items, i) /\ g.defaults = w.game.defaults
      OBVIOUS
    <2>3. g = [items |-> g.items, defaults |-> g.defaults]
      OBVIOUS
    <2> HIDE DEF g
    <2>4. /\ DOMAIN g.items = DOMAIN w.game.items \ {i}
          /\ \A j \in DOMAIN w.game.items : j # i => g.items[j] = w.game.items[j]
          /\ g.items = [j \in DOMAIN g.items |-> g.items[j]]
      <3>1. IsWithout(g.items, w.game.items, i)
        BY <2>2, WithFacts
      <3> QED
        BY <3>1 DEF IsWithout
    <2>5. \A j \in DOMAIN its2 : g.items[j].equipped = its2[j].equipped
      BY <1>2, <2>4 DEF Holds
    <2> QED
      BY <1>2, <2>1, <2>2, <2>3, <2>4, <2>5 DEF Holds, Copy
  <1>4. ASSUME u.linked PROVE u.tracked = Equipped(its2) /\ Serves(u.server, its2, des)
    <2>1. w.linked /\ w.tracked = Equipped(its) /\ Serves(w.server, its, des)
      BY <1>1, <1>4 DEF Known
    <2>2. Equipped(its2) = Equipped(its) \ {i}
      BY DEF Equipped
    <2>3. CASE on
      <3> DEFINE g == [items |-> Without(w.server.items, i), defaults |-> w.server.defaults]
      <3>1. u.server = g
        BY <1>1, <2>1, <2>3, ReceivedDestroy DEF Serves
      <3>2. g.items = Without(w.server.items, i) /\ g.defaults = w.server.defaults
        OBVIOUS
      <3>3. g = [items |-> g.items, defaults |-> g.defaults]
        OBVIOUS
      <3> HIDE DEF g
      <3>4. /\ DOMAIN g.items = DOMAIN w.server.items \ {i}
            /\ \A j \in DOMAIN w.server.items : j # i => g.items[j] = w.server.items[j]
            /\ g.items = [j \in DOMAIN g.items |-> g.items[j]]
        <4>1. IsWithout(g.items, w.server.items, i)
          BY <3>2, WithFacts
        <4> QED
          BY <4>1 DEF IsWithout
      <3>5. Equipped(g.items) = Equipped(w.server.items) \ {i}
        BY <3>4 DEF Equipped
      <3>6. \A j \in Equipped(its2) : g.items[j].equipped = its2[j].equipped
        BY <2>1, <2>2, <3>4 DEF Equipped, Serves
      <3> QED
        BY <1>1, <2>1, <2>2, <3>1, <3>2, <3>3, <3>4, <3>5, <3>6 DEF Serves, Copy
    <2>4. CASE ~on
      <3>1. u.server = w.server /\ i \notin Equipped(its)
        BY <1>1, <2>1, <2>4
      <3>2. Equipped(its2) = Equipped(its)
        BY <2>2, <3>1
      <3>3. \A j \in Equipped(its) : its2[j].equipped = its[j].equipped
        BY <3>2 DEF Equipped
      <3> QED
        BY <1>1, <2>1, <3>1, <3>2, <3>3 DEF Serves
    <2> QED
      BY <2>3, <2>4
  <1> QED
    BY <1>1, <1>2, <1>3, <1>4 DEF Known, u

\* A base item that comes to an empty place, or leaves its place.
LEMMA DefaultTold ==
    ASSUME NEW w, NEW n, NEW its, NEW des, Known(w, n, its, des), NEW o, o.kind = "default",
           NEW des2,
           \A c : Copy(c) /\ Mapped(c.defaults, des) =>
             /\ Copy(Receive(c, o)) /\ Receive(c, o).items = c.items
             /\ Mapped(Receive(c, o).defaults, des2)
    PROVE  Known(Told(w, o), n, its, des2)
  <1> DEFINE u == Told(w, o)
  <1>1. /\ u.game = Receive(w.game, o) /\ u.tracked = w.tracked /\ u.linked = w.linked
        /\ u.server = IF w.linked THEN Receive(w.server, o) ELSE w.server
    BY DEF Told, Tracks, Forwards
  <1> HIDE DEF u
  <1>2. Holds(u.game, DOMAIN its, its, des2)
    BY <1>1 DEF Known, Holds
  <1>3. u.linked => Serves(u.server, its, des2)
    BY <1>1 DEF Known, Serves
  <1> QED
    BY <1>1, <1>2, <1>3 DEF Known, u

LEMMA PutTold ==
    ASSUME NEW w, NEW n, NEW its, NEW des, Known(w, n, its, des),
           NEW e, e.def # none, \A x \in des : x.at # e.at
    PROVE  Known(Told(w, DefaultObject(e)), n, its, des \cup {e})
  <1> DEFINE o == DefaultObject(e)
  <1>1. o.kind = "default"
    BY DEF DefaultObject
  <1>2. ASSUME NEW c, Copy(c), Mapped(c.defaults, des)
        PROVE  /\ Copy(Receive(c, o)) /\ Receive(c, o).items = c.items
               /\ Mapped(Receive(c, o).defaults, des \cup {e})
    <2> DEFINE g == [items |-> c.items, defaults |-> With(c.defaults, e.at, e.def)]
    <2>1. Receive(c, o) = g
      BY <1>2, ReceivedDefault
    <2>2. g.items = c.items /\ g.defaults = With(c.defaults, e.at, e.def)
          /\ g = [items |-> g.items, defaults |-> g.defaults]
      OBVIOUS
    <2> HIDE DEF g, o
    <2>3. Mapped(With(c.defaults, e.at, e.def), des \cup {e})
      BY <1>2, MappedWith
    <2> QED
      BY <1>2, <2>1, <2>2, <2>3 DEF Copy
  <1> HIDE DEF o
  <1>3. Known(Told(w, o), n, its, des \cup {e})
    BY <1>1, <1>2, DefaultTold
  <1> QED
    BY <1>3 DEF o

LEMMA ClearTold ==
    ASSUME NEW w, NEW n, NEW its, NEW des, Known(w, n, its, des),
           NEW e \in des, \A x \in des : x.at = e.at => x = e
    PROVE  Known(Told(w, ClearedObject(e)), n, its, des \ {e})
  <1> DEFINE o == ClearedObject(e)
  <1>1. o.kind = "default"
    BY DEF ClearedObject
  <1>2. ASSUME NEW c, Copy(c), Mapped(c.defaults, des)
        PROVE  /\ Copy(Receive(c, o)) /\ Receive(c, o).items = c.items
               /\ Mapped(Receive(c, o).defaults, des \ {e})
    <2> DEFINE g == [items |-> c.items, defaults |-> Without(c.defaults, e.at)]
    <2>1. Receive(c, o) = g
      BY <1>2, ReceivedDefault
    <2>2. g.items = c.items /\ g.defaults = Without(c.defaults, e.at)
          /\ g = [items |-> g.items, defaults |-> g.defaults]
      OBVIOUS
    <2> HIDE DEF g, o
    <2>3. Mapped(Without(c.defaults, e.at), des \ {e})
      BY <1>2, MappedWithout
    <2> QED
      BY <1>2, <2>1, <2>2, <2>3 DEF Copy
  <1> HIDE DEF o
  <1>3. Known(Told(w, o), n, its, des \ {e})
    BY <1>1, <1>2, DefaultTold
  <1> QED
    BY <1>3 DEF o

-------------------------------------------------------------------------------
(* Updates.                                                                *)

Whole(w) == w = [game |-> w.game, tracked |-> w.tracked, server |-> w.server, linked |-> w.linked]

\* What w knows with the objects s of an update.
Knows(w, s, n, its, des) == s \in Seq(Objects) /\ Known(Informed(w, s), n, its, des)

LEMMA KnowsNothingNew ==
    ASSUME NEW w, Whole(w), NEW n, NEW its, NEW des, Known(w, n, its, des)
    PROVE  Knows(w, <<>>, n, its, des)
  <1>1. <<>> \in Seq(Objects)
    OBVIOUS
  <1> QED
    BY <1>1, InformedNone DEF Knows, Whole

LEMMA KnowsMore ==
    ASSUME NEW w, NEW s, NEW n, NEW its, NEW des, Knows(w, s, n, its, des),
           NEW o \in Objects, NEW its2, NEW des2, Known(Told(Informed(w, s), o), n, its2, des2)
    PROVE  Knows(w, Append(s, o), n, its2, des2)
  <1>1. s \in Seq(Objects)
    BY DEF Knows
  <1>2. Append(s, o) \in Seq(Objects)
    BY <1>1
  <1>3. Informed(w, Append(s, o)) = Told(Informed(w, s), o)
    BY <1>1, InformedMore
  <1> QED
    BY <1>2, <1>3 DEF Knows

LEMMA KnowsItem ==
    ASSUME NEW w, NEW s, NEW n \in Nat, NEW its, NEW des, Knows(w, s, n, its, des),
           NEW i \in 1..n, NEW its2, its2[i] \in Item,
           DOMAIN its2 = DOMAIN its \cup {i},
           \A j \in DOMAIN its : j # i => its2[j].equipped = its[j].equipped
    PROVE  Knows(w, Append(s, ItemObject(i, its2)), n, its2, des)
  <1>1. ItemObject(i, its2) \in Objects
    BY DEF ItemObject, Objects
  <1>2. Known(Told(Informed(w, s), ItemObject(i, its2)), n, its2, des)
    BY ItemTold DEF Knows
  <1> QED
    BY <1>1, <1>2, KnowsMore

LEMMA KnowsDestroyed ==
    ASSUME NEW w, NEW s, NEW n \in Nat, NEW its, NEW des, Knows(w, s, n, its, des),
           NEW i \in 1..n, NEW its2, DOMAIN its2 = DOMAIN its \ {i},
           \A j \in DOMAIN its2 : its2[j].equipped = its[j].equipped
    PROVE  Knows(w, Append(s, DestroyObject(i)), n, its2, des)
  <1>1. DestroyObject(i) \in Objects
    BY DEF DestroyObject, Objects
  <1>2. Known(Told(Informed(w, s), DestroyObject(i)), n, its2, des)
    BY DestroyTold DEF Knows
  <1> QED
    BY <1>1, <1>2, KnowsMore

LEMMA KnowsPut ==
    ASSUME NEW w, NEW s, NEW n, NEW its, NEW des, Knows(w, s, n, its, des),
           NEW e \in DefaultEquip, \A x \in des : x.at # e.at
    PROVE  Knows(w, Append(s, DefaultObject(e)), n, its, des \cup {e})
  <1>1. DefaultObject(e) \in Objects /\ e.def # none
    BY LoadoutAssumption DEF DefaultObject, Objects, DefaultEquip
  <1>2. Known(Told(Informed(w, s), DefaultObject(e)), n, its, des \cup {e})
    BY <1>1, PutTold DEF Knows
  <1> QED
    BY <1>1, <1>2, KnowsMore

LEMMA KnowsCleared ==
    ASSUME NEW w, NEW s, NEW n, NEW its, NEW des, Knows(w, s, n, its, des),
           des \subseteq DefaultEquip, NEW e \in des, \A x \in des : x.at = e.at => x = e
    PROVE  Knows(w, Append(s, ClearedObject(e)), n, its, des \ {e})
  <1>1. ClearedObject(e) \in Objects
    BY DEF ClearedObject, Objects, DefaultEquip
  <1>2. Known(Told(Informed(w, s), ClearedObject(e)), n, its, des \ {e})
    BY ClearTold DEF Knows
  <1> QED
    BY <1>1, <1>2, KnowsMore

\* The sets an operation lists have one element at most.
LEMMA ListedOne ==
    /\ SetToSeq({}) = <<>>
    /\ \A x : SetToSeq({x}) = <<x>>
  <1>1. SetToSeq({}) = <<>>
    <2>1. Cardinality({}) = 0
      BY FS_EmptySet
    <2>2. SetToSeq({}) = CHOOSE f \in [1..0 -> {}] : IsInjective(f)
      BY <2>1 DEF SetToSeq
    <2>3. <<>> \in [1..0 -> {}] /\ IsInjective(<<>>)
      BY DEF IsInjective
    <2>4. \A f \in [1..0 -> {}] : f = <<>>
      OBVIOUS
    <2> QED
      BY <2>2, <2>3, <2>4
  <1>2. ASSUME NEW x PROVE SetToSeq({x}) = <<x>>
    <2>1. Cardinality({x}) = 1
      BY FS_Singleton
    <2>2. SetToSeq({x}) = CHOOSE f \in [1..1 -> {x}] : IsInjective(f)
      BY <2>1 DEF SetToSeq
    <2>3. <<x>> \in [1..1 -> {x}] /\ IsInjective(<<x>>)
      BY DEF IsInjective
    <2>4. \A f \in [1..1 -> {x}] : f = <<x>>
      OBVIOUS
    <2> QED
      BY <2>2, <2>3, <2>4
  <1> QED
    BY <1>1, <1>2

LEMMA Appended ==
    ASSUME NEW s \in Seq(Objects), NEW o \in Objects
    PROVE  s \o <<o>> = Append(s, o) /\ s \o <<>> = s /\ <<>> \o s = s
  OBVIOUS

LEMMA KnowsAllCleared ==
    ASSUME NEW w, NEW s, NEW n, NEW its, NEW des, Knows(w, s, n, its, des),
           des \subseteq DefaultEquip, \A x, y \in des : x.at = y.at => x = y,
           NEW some \in SUBSET des, \A x, y \in some : x = y
    PROVE  /\ Knows(w, s \o SetToSeq({ClearedObject(e) : e \in some}), n, its, des \ some)
           /\ SetToSeq({ClearedObject(e) : e \in some}) \in Seq(Objects)
  <1> DEFINE S == {ClearedObject(e) : e \in some}
  <1>1. s \in Seq(Objects)
    BY DEF Knows
  <1>2. CASE some = {}
    <2>1. S = {} /\ des \ some = des
      BY <1>2
    <2>2. SetToSeq(S) = <<>>
      BY <2>1, ListedOne
    <2>3. s \o <<>> = s /\ <<>> \in Seq(Objects)
      BY <1>1
    <2> QED
      BY <2>1, <2>2, <2>3
  <1>3. CASE some # {}
    <2>1. PICK e \in some : some = {e}
      BY <1>3
    <2>2. S = {ClearedObject(e)}
      BY <2>1
    <2>3. SetToSeq(S) = <<ClearedObject(e)>>
      BY <2>2, ListedOne
    <2>4. ClearedObject(e) \in Objects
      BY DEF ClearedObject, Objects, DefaultEquip
    <2>5. s \o <<ClearedObject(e)>> = Append(s, ClearedObject(e)) /\ <<ClearedObject(e)>> \in Seq(Objects)
      BY <1>1, <2>4
    <2>6. Knows(w, Append(s, ClearedObject(e)), n, its, des \ {e})
      BY KnowsCleared
    <2> HIDE DEF S
    <2> QED
      BY <2>1, <2>3, <2>5, <2>6 DEF S
  <1> QED
    BY <1>2, <1>3

\* What UnequipSlotForClass announces.  its may have items of which w does not know yet.
FreedOf(its, ids, at) ==
    [j \in ids \cup {i \in DOMAIN its : at \in its[i].equipped} |-> FreeItems(its, at)[j]]

LEMMA KnowsFreed ==
    ASSUME NEW w, NEW s, NEW n \in Nat, NEW known, NEW its, NEW des, Knows(w, s, n, known, des),
           Consistent(its, des), DOMAIN its \subseteq 1..n,
           DOMAIN known \subseteq DOMAIN its,
           \A j \in DOMAIN known : known[j].equipped = its[j].equipped, NEW at
    PROVE  /\ Knows(w, s \o FreeObjects(its, des, at), n, FreedOf(its, DOMAIN known, at),
                    FreeDefaults(des, at))
           /\ FreeObjects(its, des, at) \in Seq(Objects)
  <1> DEFINE free == FreeItems(its, at)
             some == {i \in DOMAIN its : at \in its[i].equipped}
             S == {ItemObject(i, free) : i \in some}
             gone == des \ FreeDefaults(des, at)
             T == {ClearedObject(e) : e \in gone}
             after == FreedOf(its, DOMAIN known, at)
  <1>1. s \in Seq(Objects)
    BY DEF Knows
  <1>2. /\ DOMAIN free = DOMAIN its /\ free \in [DOMAIN its -> Item]
        /\ \A i \in DOMAIN its : free[i].equipped = its[i].equipped \ {at}
    BY FreedFacts DEF Consistent, Kinds
  <1>3. /\ DOMAIN after = DOMAIN known \cup some
        /\ \A j \in DOMAIN after : after[j] = free[j]
    BY DEF FreedOf
  <1>4. \A i, j \in some : i = j
    BY DEF Consistent, OneThing
  <1>5. \A x, y \in gone : x = y
    BY DEF FreeDefaults, Consistent, OneThing
  <1>6. FreeObjects(its, des, at) = SetToSeq(S) \o SetToSeq(T)
    BY DEF FreeObjects
  <1> HIDE DEF free, after
  <1>7. Knows(w, s \o SetToSeq(S), n, after, des) /\ SetToSeq(S) \in Seq(Objects)
    <2>1. CASE some = {}
      <3>1. S = {}
        BY <2>1
      <3>2. SetToSeq(S) = <<>>
        BY <3>1, ListedOne
      <3>3. s \o <<>> = s /\ <<>> \in Seq(Objects)
        BY <1>1
      <3>4. /\ DOMAIN after = DOMAIN known
            /\ \A j \in DOMAIN known : after[j].equipped = known[j].equipped
        <4>1. DOMAIN after = DOMAIN known
          BY <1>3, <2>1
        <4>2. ASSUME NEW j \in DOMAIN known PROVE after[j].equipped = known[j].equipped
          <5>1. j \in DOMAIN its /\ j \notin some /\ after[j] = free[j]
            BY <1>3, <2>1, <4>1
          <5>2. at \notin its[j].equipped
            BY <5>1
          <5>3. its[j].equipped \ {at} = its[j].equipped
            BY <5>2
          <5>4. known[j].equipped = its[j].equipped
            OBVIOUS
          <5> QED
            BY <1>2, <5>1, <5>3, <5>4
        <4> QED
          BY <4>1, <4>2
      <3>5. Equipped(after) = Equipped(known)
        BY <3>4 DEF Equipped
      <3>6. Known(Informed(w, s), n, after, des)
        <4>1. Known(Informed(w, s), n, known, des)
          BY DEF Knows
        <4>2. \A j \in Equipped(known) : after[j].equipped = known[j].equipped
          BY <3>4 DEF Equipped
        <4> QED
          BY <3>4, <3>5, <4>1, <4>2 DEF Known, Holds, Serves
      <3> HIDE DEF S
      <3> QED
        BY <1>1, <3>2, <3>3, <3>6 DEF Knows
    <2>2. CASE some # {}
      <3>1. PICK i \in some : some = {i}
        BY <1>4, <2>2
      <3> DEFINE o == ItemObject(i, free)
      <3>2. S = {o}
        BY <3>1
      <3>3. SetToSeq(S) = <<o>>
        BY <3>2, ListedOne
      <3>4. i \in DOMAIN its /\ i \in 1..n /\ i \in DOMAIN after /\ after[i] = free[i] /\ free[i] \in Item
        BY <1>2, <1>3
      <3>5. o \in Objects
        BY <3>4 DEF ItemObject, Objects
      <3>6. s \o <<o>> = Append(s, o) /\ <<o>> \in Seq(Objects)
        BY <1>1, <3>5
      <3>7. o = ItemObject(i, after)
        BY <3>4 DEF ItemObject
      <3>8. /\ DOMAIN after = DOMAIN known \cup {i}
            /\ \A j \in DOMAIN known : j # i => after[j].equipped = known[j].equipped
        <4>1. DOMAIN after = DOMAIN known \cup {i}
          BY <1>3, <3>1
        <4>2. ASSUME NEW j \in DOMAIN known, j # i PROVE after[j].equipped = known[j].equipped
          <5>1. j \in DOMAIN its /\ j \notin some /\ after[j] = free[j]
            BY <1>3, <3>1, <4>1, <4>2
          <5>2. at \notin its[j].equipped
            BY <5>1
          <5>3. its[j].equipped \ {at} = its[j].equipped
            BY <5>2
          <5>4. known[j].equipped = its[j].equipped
            OBVIOUS
          <5> QED
            BY <1>2, <5>1, <5>3, <5>4
        <4> QED
          BY <4>1, <4>2
      <3>9. Knows(w, Append(s, ItemObject(i, after)), n, after, des)
        BY <3>4, <3>8, KnowsItem
      <3> HIDE DEF S, o
      <3> QED
        BY <3>3, <3>6, <3>7, <3>9
    <2> QED
      BY <2>1, <2>2
  <1> DEFINE q == s \o SetToSeq(S)
  <1>8. des \subseteq DefaultEquip /\ (\A x, y \in des : x.at = y.at => x = y) /\ gone \in SUBSET des
    BY DEF Consistent, Kinds, OneThing
  <1>9. des \ gone = FreeDefaults(des, at)
    BY DEF FreeDefaults
  <1> HIDE DEF gone, S
  <1>10. Knows(w, q \o SetToSeq(T), n, after, des \ gone) /\ SetToSeq(T) \in Seq(Objects)
    BY <1>5, <1>7, <1>8, KnowsAllCleared
  <1> HIDE DEF T
  <1>11. (s \o SetToSeq(S)) \o SetToSeq(T) = s \o (SetToSeq(S) \o SetToSeq(T))
    BY <1>1, <1>7, <1>10
  <1>12. SetToSeq(S) \o SetToSeq(T) \in Seq(Objects)
    BY <1>7, <1>10
  <1> QED
    BY <1>6, <1>9, <1>10, <1>11, <1>12 DEF after

\* The items of the place, of which w knew.
LEMMA KnowsPlaceFreed ==
    ASSUME NEW w, NEW s, NEW n \in Nat, NEW its, NEW des, Knows(w, s, n, its, des),
           Consistent(its, des), DOMAIN its \subseteq 1..n, NEW at
    PROVE  /\ Knows(w, s \o FreeObjects(its, des, at), n, FreeItems(its, at), FreeDefaults(des, at))
           /\ FreeObjects(its, des, at) \in Seq(Objects)
  <1>1. /\ Knows(w, s \o FreeObjects(its, des, at), n, FreedOf(its, DOMAIN its, at),
                 FreeDefaults(des, at))
        /\ FreeObjects(its, des, at) \in Seq(Objects)
    BY KnowsFreed
  <1>2. FreedOf(its, DOMAIN its, at) = FreeItems(its, at)
    <2>1. DOMAIN its \cup {i \in DOMAIN its : at \in its[i].equipped} = DOMAIN its
      OBVIOUS
    <2>2. FreeItems(its, at) = [i \in DOMAIN its |-> FreeItems(its, at)[i]]
      BY DEF FreeItems
    <2> QED
      BY <2>1, <2>2 DEF FreedOf
  <1> QED
    BY <1>1, <1>2

-------------------------------------------------------------------------------
(* Every operation publishes what has become of the loadout.               *)

KInv ==
    /\ Known(Receivers, lastId, items, defaults)
    /\ ~linked => server = Nothing

LEMMA Tells ==
    ASSUME KInv, NEW objects, Publish(objects),
           Knows(Receivers, objects, lastId', items', defaults')
    PROVE  KInv'
  <1>1. Receivers' = Informed(Receivers, objects)
    BY PublishInforms
  <1>2. Known(Receivers', lastId', items', defaults')
    BY <1>1, Zenon DEF Knows
  <1>3. linked' = linked /\ (~linked => server' = server)
    BY Zenon DEF Publish
  <1>4. ~linked' => server' = Nothing
    BY <1>3, Zenon DEF KInv
  <1> QED
    BY <1>2, <1>4, Zenon DEF KInv, Nothing

\* What is used of the loadout before and after a step.
LEMMA Loadouts ==
    ASSUME IInv, IInv'
    PROVE  /\ Consistent(items, defaults) /\ Consistent(items', defaults')
           /\ \A i \in DOMAIN items : items[i] \in Item
           /\ \A i \in DOMAIN items' : items'[i] \in Item
           /\ items \in [DOMAIN items -> Item] /\ defaults \subseteq DefaultEquip
           /\ DOMAIN items \subseteq 1..lastId /\ DOMAIN items' \subseteq 1..lastId'
           /\ lastId \in Nat /\ lastId' \in Nat
  <1>1. Consistent(items, defaults) /\ Consistent(items', defaults')
    BY DEF IInv
  <1>2. MaxId \in Nat
    BY LoadoutAssumption
  <1>3. /\ DOMAIN items \subseteq 1..lastId /\ DOMAIN items' \subseteq 1..lastId'
        /\ lastId \in 0..MaxId /\ lastId' \in 0..MaxId
    BY DEF IInv, Held
  <1>4. items \in [DOMAIN items -> Item] /\ items' \in [DOMAIN items' -> Item]
        /\ defaults \subseteq DefaultEquip
    BY <1>1 DEF Consistent, Kinds
  <1> QED
    BY <1>1, <1>2, <1>3, <1>4

\* What they know before an update, which may use a new id.
LEMMA KnownBefore ==
    ASSUME KInv, lastId \in Nat, NEW n \in Nat, lastId <= n
    PROVE  Knows(Receivers, <<>>, n, items, defaults)
  <1>1. Whole(Receivers)
    BY DEF Whole, Receivers
  <1>2. Known(Receivers, lastId, items, defaults)
    BY DEF KInv
  <1>3. 1..lastId \subseteq 1..n
    OBVIOUS
  <1>4. Known(Receivers, n, items, defaults)
    BY <1>2, <1>3 DEF Known
  <1> QED
    BY <1>1, <1>4, KnowsNothingNew

\* One item is new, or has changed.
LEMMA ItemTells ==
    ASSUME IInv, IInv', KInv, lastId <= lastId', NEW i \in DOMAIN items',
           DOMAIN items' = DOMAIN items \cup {i},
           \A j \in DOMAIN items : j # i => items'[j].equipped = items[j].equipped,
           defaults' = defaults, Publish(<<ItemObject(i, items')>>)
    PROVE  KInv'
  <1>1. lastId' \in Nat /\ i \in 1..lastId' /\ items'[i] \in Item /\ lastId \in Nat
    BY Loadouts
  <1>2. Knows(Receivers, <<>>, lastId', items, defaults)
    BY <1>1, KnownBefore
  <1>3. Knows(Receivers, Append(<<>>, ItemObject(i, items')), lastId', items', defaults)
    BY <1>1, <1>2, KnowsItem
  <1>4. Append(<<>>, ItemObject(i, items')) = <<ItemObject(i, items')>>
    OBVIOUS
  <1> QED
    BY <1>3, <1>4, Tells

\* One item that is held is in other places.
LEMMA MoveTells ==
    ASSUME IInv, IInv', KInv, NEW i \in Held, NEW places \in SUBSET (items[i].equipped),
           items' = [items EXCEPT ![i].equipped = places], UNCHANGED <<defaults, lastId>>,
           Publish(<<ItemObject(i, items')>>)
    PROVE  KInv'
  <1>1. items \in [DOMAIN items -> Item] /\ i \in DOMAIN items /\ lastId \in Nat /\ items[i] \in Item
    BY Loadouts DEF Held
  <1>2. places \in SUBSET Place
    BY <1>1, ItemFields
  <1>3. items' = Moved(items, i, places)
    BY <1>1, <1>2, MovedFacts
  <1>4. /\ DOMAIN Moved(items, i, places) = DOMAIN items
        /\ \A j \in DOMAIN items \ {i} : Moved(items, i, places)[j].equipped = items[j].equipped
    BY <1>1, <1>2, MovedFacts
  <1>5. /\ DOMAIN items' = DOMAIN items
        /\ \A j \in DOMAIN items \ {i} : items'[j].equipped = items[j].equipped
    BY <1>3, <1>4, Zenon
  <1>6. i \in DOMAIN items' /\ DOMAIN items' = DOMAIN items \cup {i} /\ lastId <= lastId'
    BY <1>1, <1>5
  <1> QED
    BY <1>5, <1>6, ItemTells

LEMMA UnequipItemForClassTells ==
    ASSUME IInv, IInv', KInv, NEW i \in Held, NEW c \in Classes, UnequipItemForClass(i, c)
    PROVE  KInv'
  <1>1. WithoutClass(items[i].equipped, c) \in SUBSET (items[i].equipped)
    BY DEF WithoutClass
  <1>2. /\ items' = [items EXCEPT ![i].equipped = WithoutClass(items[i].equipped, c)]
        /\ UNCHANGED <<defaults, lastId>> /\ Publish(<<ItemObject(i, items')>>)
    BY DEF UnequipItemForClass
  <1> QED
    BY <1>1, <1>2, MoveTells

LEMMA DepositItemTells ==
    ASSUME IInv, IInv', KInv, NEW i \in Held, DepositItem(i)
    PROVE  KInv'
  <1>1. /\ items' = [items EXCEPT ![i].equipped = {}]
        /\ UNCHANGED <<defaults, lastId>> /\ Publish(<<ItemObject(i, items')>>)
    BY DEF DepositItem
  <1>2. {} \in SUBSET (items[i].equipped)
    OBVIOUS
  <1> QED
    BY <1>1, <1>2, MoveTells

LEMMA CreateItemTells ==
    ASSUME IInv, IInv', KInv, CreateItem PROVE KInv'
  <1> DEFINE x == [equipped |-> {}, sealed |-> FALSE]
  <1>1. /\ lastId' = lastId + 1 /\ items' = With(items, lastId', x)
        /\ Publish(<<ItemObject(lastId', items')>>) /\ defaults' = defaults
    BY DEF CreateItem
  <1> HIDE DEF x
  <1>2. lastId \in Nat /\ DOMAIN items \subseteq 1..lastId
    BY Loadouts
  <1>3. lastId' \notin DOMAIN items /\ lastId <= lastId'
    BY <1>1, <1>2
  <1>4. /\ DOMAIN items' = DOMAIN items \cup {lastId'}
        /\ \A j \in DOMAIN items : j # lastId' => items'[j] = items[j]
    <2>1. IsWith(items', items, lastId', x)
      BY <1>1, WithFacts
    <2> QED
      BY <2>1 DEF IsWith
  <1> QED
    BY <1>1, <1>3, <1>4, ItemTells

LEMMA DestroyItemTells ==
    ASSUME IInv, IInv', KInv, NEW i \in Held, DestroyItem(i) PROVE KInv'
  <1>1. items' = Without(items, i) /\ UNCHANGED <<defaults, lastId>> /\ Publish(<<DestroyObject(i)>>)
    BY DEF DestroyItem
  <1>2. lastId \in Nat /\ lastId' = lastId /\ i \in 1..lastId'
    BY <1>1, Loadouts DEF Held
  <1>3. Knows(Receivers, <<>>, lastId', items, defaults)
    BY <1>2, KnownBefore
  <1>4. /\ DOMAIN items' = DOMAIN items \ {i}
        /\ \A j \in DOMAIN items' : items'[j].equipped = items[j].equipped
    <2>1. IsWithout(items', items, i)
      BY <1>1, WithFacts
    <2> QED
      BY <2>1 DEF IsWithout
  <1>5. Knows(Receivers, Append(<<>>, DestroyObject(i)), lastId', items', defaults)
    BY <1>2, <1>3, <1>4, KnowsDestroyed
  <1>6. Append(<<>>, DestroyObject(i)) = <<DestroyObject(i)>>
    OBVIOUS
  <1> QED
    BY <1>1, <1>5, <1>6, Tells

\* What is in the place leaves it, and is announced.
LEMMA FreeTells ==
    ASSUME IInv, IInv', KInv, lastId' = lastId, NEW at
    PROVE  /\ Knows(Receivers, FreeObjects(items, defaults, at), lastId', FreeItems(items, at),
                    FreeDefaults(defaults, at))
           /\ FreeObjects(items, defaults, at) \in Seq(Objects)
  <1>1. lastId \in Nat /\ Consistent(items, defaults) /\ DOMAIN items \subseteq 1..lastId
    BY Loadouts
  <1>2. Knows(Receivers, <<>>, lastId', items, defaults)
    BY <1>1, KnownBefore
  <1> DEFINE F == FreeObjects(items, defaults, at)
  <1>3. /\ Knows(Receivers, <<>> \o F, lastId', FreeItems(items, at), FreeDefaults(defaults, at))
        /\ F \in Seq(Objects)
    BY <1>1, <1>2, KnowsPlaceFreed
  <1> HIDE DEF F
  <1>4. <<>> \o F = F
    BY <1>3
  <1> QED
    BY <1>3, <1>4 DEF F

LEMMA UnequipSlotForClassTells ==
    ASSUME IInv, IInv', KInv, NEW c \in Classes, NEW s \in Slots, UnequipSlotForClass(c, s)
    PROVE  KInv'
  <1> DEFINE at == <<c, s>>
  <1>1. /\ items' = FreeItems(items, at) /\ defaults' = FreeDefaults(defaults, at)
        /\ Publish(FreeObjects(items, defaults, at)) /\ lastId' = lastId
    BY DEF UnequipSlotForClass
  <1> HIDE DEF at
  <1>2. Knows(Receivers, FreeObjects(items, defaults, at), lastId', items', defaults')
    BY <1>1, FreeTells
  <1> QED
    BY <1>1, <1>2, Tells

LEMMA EquipItemTells ==
    ASSUME IInv, IInv', KInv, NEW i \in Held, NEW c \in Classes, NEW s \in Slots, EquipItem(i, c, s)
    PROVE  KInv'
  <1> DEFINE at == <<c, s>>
             free == FreeItems(items, at)
             left == FreeDefaults(defaults, at)
             F == FreeObjects(items, defaults, at)
             o == ItemObject(i, items')
  <1>1. /\ items' = [free EXCEPT ![i].equipped = InClass(@, c, s)]
        /\ defaults' = left /\ lastId' = lastId /\ Publish(Append(F, o))
    BY DEF EquipItem
  <1>2. Knows(Receivers, F, lastId', free, left)
    BY <1>1, FreeTells
  <1>3. /\ Consistent(items, defaults) /\ i \in DOMAIN items /\ lastId' \in Nat /\ i \in 1..lastId'
        /\ \A j \in DOMAIN items' : items'[j] \in Item
    BY <1>1, Loadouts DEF Held
  <1>4. /\ Consistent(free, left) /\ Free(free, left, at) /\ DOMAIN free = DOMAIN items
        /\ free \in [DOMAIN free -> Item]
    BY <1>3, Freed, FreedFacts DEF Consistent, Kinds
  <1> HIDE DEF free, left, F
  <1> DEFINE places == InClass(free[i].equipped, c, s)
  <1>5. items' = Moved(free, i, places) /\ places \in SUBSET Place
    <2>1. i \in DOMAIN free /\ free[i].equipped \subseteq Place
      BY <1>3, <1>4 DEF Item
    <2>2. places \in SUBSET Place
      BY <2>1 DEF InClass, WithoutClass, Place
    <2>3. items' = [free EXCEPT ![i].equipped = places]
      BY <1>1
    <2> HIDE DEF places
    <2> QED
      BY <1>4, <2>1, <2>2, <2>3, MovedFacts
  <1> HIDE DEF places, at
  <1>6. /\ DOMAIN Moved(free, i, places) = DOMAIN free
        /\ \A j \in DOMAIN free \ {i} : Moved(free, i, places)[j].equipped = free[j].equipped
    BY <1>3, <1>4, <1>5, MovedFacts
  <1>7. /\ DOMAIN items' = DOMAIN free \cup {i}
        /\ \A j \in DOMAIN free : j # i => items'[j].equipped = free[j].equipped
    BY <1>3, <1>4, <1>5, <1>6, Zenon
  <1>8. items'[i] \in Item
    BY <1>3, <1>7
  <1>9. Knows(Receivers, Append(F, o), lastId', items', left)
    BY <1>2, <1>3, <1>7, <1>8, KnowsItem
  <1> QED
    BY <1>1, <1>9, Tells

LEMMA EquipDefaultTells ==
    ASSUME IInv, IInv', KInv, NEW d \in Defaults, NEW c \in Classes, NEW s \in Slots, NEW swap,
           EquipDefault(d, c, s, swap)
    PROVE  KInv'
  <1> DEFINE at == <<c, s>>
             free == FreeItems(items, at)
             left == FreeDefaults(defaults, at)
             F == FreeObjects(items, defaults, at)
             new == [def |-> d, at |-> at]
             some == left \cap Own(d, c)
             S == SetToSeq({ClearedObject(e) : e \in some})
  <1>1. /\ items' = free /\ defaults' = (left \ Own(d, c)) \cup {new} /\ lastId' = lastId
        /\ Publish(F \o S \o <<DefaultObject(new)>>)
    BY DEF EquipDefault
  <1>2. Knows(Receivers, F, lastId', free, left) /\ F \in Seq(Objects)
    BY <1>1, FreeTells
  <1>3. Consistent(items, defaults)
    BY Loadouts
  <1>4. /\ left \subseteq DefaultEquip /\ \A x, y \in left : x.at = y.at => x = y
        /\ \A x, y \in some : x = y
        /\ \A x \in left : x.at # at
    BY <1>3 DEF FreeDefaults, Own, Consistent, Kinds, OneThing, OnePlace
  <1>5. new \in DefaultEquip /\ new.at = at
    BY DEF DefaultEquip, Place
  <1>6. left \ some = left \ Own(d, c) /\ some \in SUBSET left
    OBVIOUS
  <1> HIDE DEF free, left, F, new, at, some
  <1>7. Knows(Receivers, F \o S, lastId', free, left \ some)
    BY <1>2, <1>4, <1>6, KnowsAllCleared
  <1> HIDE DEF S
  <1>8. \A x \in left \ some : x.at # new.at
    BY <1>4, <1>5
  <1>9. Knows(Receivers, Append(F \o S, DefaultObject(new)), lastId', free, (left \ some) \cup {new})
    BY <1>5, <1>7, <1>8, KnowsPut
  <1>10. Append(F \o S, DefaultObject(new)) = F \o S \o <<DefaultObject(new)>>
    <2>1. F \o S \in Seq(Objects)
      BY <1>7 DEF Knows
    <2> DEFINE b == F \o S
    <2> HIDE DEF b
    <2>2. b \o <<DefaultObject(new)>> = Append(b, DefaultObject(new))
      BY <2>1 DEF b
    <2> QED
      BY <2>2 DEF b
  <1> QED
    BY <1>1, <1>6, <1>9, <1>10, Tells

LEMMA SwapWithItemTells ==
    ASSUME IInv, IInv', KInv, NEW d \in Defaults, NEW c \in Classes, NEW s \in Slots,
           SwapWithItem(d, c, s)
    PROVE  KInv'
  <1> DEFINE at == <<c, s>>
             new == [def |-> d, at |-> at]
             own == Own(d, c)
             S == SetToSeq({ClearedObject(x) : x \in own})
  <1>1. PICK i \in InSlot(at), e \in own :
           /\ items' = [items EXCEPT ![i].equipped = InClass(@, c, e.at[2])]
           /\ defaults' = (defaults \ own) \cup {new}
           /\ Publish(<<ItemObject(i, items')>> \o S \o <<DefaultObject(new)>>)
    BY DEF SwapWithItem
  <1> DEFINE places == InClass(items[i].equipped, c, e.at[2])
             o == ItemObject(i, items')
  <1>2. lastId' = lastId
    BY DEF SwapWithItem
  <1>3. /\ Consistent(items, defaults) /\ i \in DOMAIN items /\ lastId' \in Nat /\ i \in 1..lastId'
        /\ \A j \in DOMAIN items' : items'[j] \in Item
        /\ items \in [DOMAIN items -> Item] /\ items[i] \in Item /\ lastId <= lastId'
    BY <1>2, Loadouts DEF Held, InSlot
  <1>4. e.at[2] \in Slots /\ at \in items[i].equipped
    BY <1>3 DEF Own, Consistent, Kinds, DefaultEquip, Place, InSlot
  <1>5. places \in SUBSET Place
    <2>1. items[i].equipped \subseteq Place
      BY <1>3 DEF Item
    <2> QED
      BY <1>4, <2>1 DEF InClass, WithoutClass, Place
  <1>6. items' = [items EXCEPT ![i].equipped = places]
    BY <1>1
  <1>7. /\ new \in DefaultEquip /\ new.at = at
        /\ own \in SUBSET defaults /\ defaults \subseteq DefaultEquip
        /\ \A x, y \in defaults : x.at = y.at => x = y
        /\ \A x, y \in own : x = y
        /\ \A x \in defaults \ own : x.at # at
    BY <1>3, <1>4 DEF Own, Consistent, Kinds, OneThing, OnePlace, DefaultEquip, Place
  <1> HIDE DEF places, at, new, own
  <1>8. items' = Moved(items, i, places)
    BY <1>3, <1>5, <1>6, MovedFacts
  <1>9. /\ DOMAIN Moved(items, i, places) = DOMAIN items
        /\ \A j \in DOMAIN items \ {i} : Moved(items, i, places)[j].equipped = items[j].equipped
    BY <1>3, <1>5, MovedFacts
  <1>10. /\ DOMAIN items' = DOMAIN items \cup {i}
         /\ \A j \in DOMAIN items : j # i => items'[j].equipped = items[j].equipped
    BY <1>3, <1>8, <1>9, Zenon
  <1>11. items'[i] \in Item
    BY <1>3, <1>10
  <1>12. Knows(Receivers, <<>>, lastId', items, defaults)
    BY <1>3, KnownBefore, Loadouts
  <1>13. Knows(Receivers, Append(<<>>, o), lastId', items', defaults)
    BY <1>3, <1>10, <1>11, <1>12, KnowsItem
  <1>14. Append(<<>>, o) = <<o>>
    OBVIOUS
  <1> HIDE DEF o
  <1>15. Knows(Receivers, <<o>> \o S, lastId', items', defaults \ own)
    <2>1. Knows(Receivers, <<o>>, lastId', items', defaults)
      BY <1>13, <1>14
    <2> QED
      BY <1>7, <2>1, KnowsAllCleared
  <1> DEFINE b == <<o>> \o S
  <1> HIDE DEF S, b
  <1>16. Knows(Receivers, b, lastId', items', defaults \ own)
    BY <1>15 DEF b
  <1>17. Knows(Receivers, Append(b, DefaultObject(new)), lastId', items', (defaults \ own) \cup {new})
    BY <1>7, <1>16, KnowsPut
  <1>18. Append(b, DefaultObject(new)) = b \o <<DefaultObject(new)>>
    BY <1>16 DEF Knows
  <1>19. Publish(b \o <<DefaultObject(new)>>)
    BY <1>1 DEF b, o
  <1> QED
    BY <1>1, <1>17, <1>18, <1>19, Tells

LEMMA SwapWithDefaultTells ==
    ASSUME IInv, IInv', KInv, NEW d \in Defaults, NEW c \in Classes, NEW s \in Slots,
           SwapWithDefault(d, c, s)
    PROVE  KInv'
  <1> DEFINE at == <<c, s>>
             new == [def |-> d, at |-> at]
             own == Own(d, c)
             S == SetToSeq({ClearedObject(x) : x \in own})
  <1>1. PICK o \in OthersInSlot(d, at), e \in own :
           /\ defaults' = ((defaults \ {o}) \ own) \cup {[o EXCEPT !.at = e.at], new}
           /\ Publish(<<ClearedObject(o)>> \o S
                        \o <<DefaultObject([o EXCEPT !.at = e.at]), DefaultObject(new)>>)
    BY DEF SwapWithDefault
  <1> DEFINE moved == [o EXCEPT !.at = e.at]
             less == defaults \ {o}
  <1>2. UNCHANGED <<items, lastId>>
    BY DEF SwapWithDefault
  <1>3. Consistent(items, defaults) /\ lastId \in Nat /\ lastId' = lastId /\ items' = items
    BY <1>2, Loadouts
  <1>4. /\ o \in defaults /\ o.at = at /\ o.def # d /\ o \in DefaultEquip
        /\ e \in defaults /\ e.def = d /\ e.at[1] = c /\ e \in DefaultEquip
    BY <1>3 DEF OthersInSlot, Own, Consistent, Kinds
  <1>5. /\ new \in DefaultEquip /\ new.at = at
        /\ moved \in DefaultEquip /\ moved.at = e.at
    BY <1>4 DEF DefaultEquip, Place
  <1>6. /\ defaults \subseteq DefaultEquip /\ \A x, y \in defaults : x.at = y.at => x = y
        /\ own \in SUBSET less /\ \A x, y \in own : x = y
    BY <1>3, <1>4 DEF Own, Consistent, Kinds, OneThing, OnePlace
  <1>7. e.at # at
    BY <1>4, <1>6
  <1> HIDE DEF at, new, own, moved
  <1>8. less \subseteq DefaultEquip /\ \A x, y \in less : x.at = y.at => x = y
    BY <1>6
  <1>9. Knows(Receivers, <<>>, lastId', items', defaults)
    BY <1>3, KnownBefore
  <1>10. Knows(Receivers, Append(<<>>, ClearedObject(o)), lastId', items', less)
    BY <1>4, <1>6, <1>9, KnowsCleared
  <1>11. Append(<<>>, ClearedObject(o)) = <<ClearedObject(o)>>
    OBVIOUS
  <1> HIDE DEF less
  <1>12. Knows(Receivers, <<ClearedObject(o)>>, lastId', items', less)
    BY <1>10, <1>11
  <1>13. Knows(Receivers, <<ClearedObject(o)>> \o S, lastId', items', less \ own)
    BY <1>6, <1>8, <1>12, KnowsAllCleared
  <1> DEFINE b == <<ClearedObject(o)>> \o S
  <1> HIDE DEF S, b
  <1>14. Knows(Receivers, b, lastId', items', less \ own)
    BY <1>13 DEF b
  <1>15. \A x \in less \ own : x.at # moved.at /\ x.at # at
    BY <1>4, <1>5, <1>6 DEF less
  <1>16. Knows(Receivers, Append(b, DefaultObject(moved)), lastId', items', (less \ own) \cup {moved})
    BY <1>5, <1>14, <1>15, KnowsPut
  <1>17. \A x \in (less \ own) \cup {moved} : x.at # new.at
    BY <1>5, <1>7, <1>15
  <1>18. Knows(Receivers, Append(Append(b, DefaultObject(moved)), DefaultObject(new)), lastId', items',
               ((less \ own) \cup {moved}) \cup {new})
    BY <1>5, <1>16, <1>17, KnowsPut
  <1>19. Append(Append(b, DefaultObject(moved)), DefaultObject(new))
         = b \o <<DefaultObject(moved), DefaultObject(new)>>
    <2>1. /\ b \in Seq(Objects) /\ DefaultObject(moved) \in Objects /\ DefaultObject(new) \in Objects
      BY <1>5, <1>14 DEF Knows, DefaultObject, Objects, DefaultEquip
    <2> QED
      BY <2>1
  <1>20. Publish(b \o <<DefaultObject(moved), DefaultObject(new)>>)
    BY <1>1 DEF b, moved
  <1>21. defaults' = ((less \ own) \cup {moved}) \cup {new}
    BY <1>1 DEF less, moved
  <1> QED
    BY <1>18, <1>19, <1>20, <1>21, Tells

LEMMA UnequipDefaultForClassTells ==
    ASSUME IInv, IInv', KInv, NEW d \in Defaults, NEW c \in Classes, UnequipDefaultForClass(d, c)
    PROVE  KInv'
  <1> DEFINE own == Own(d, c)
             S == SetToSeq({ClearedObject(e) : e \in own})
  <1>1. /\ defaults' = defaults \ own /\ items' = items /\ lastId' = lastId /\ Publish(S)
    BY DEF UnequipDefaultForClass
  <1>2. Consistent(items, defaults) /\ lastId \in Nat
    BY Loadouts
  <1>3. Knows(Receivers, <<>>, lastId', items', defaults)
    BY <1>1, <1>2, KnownBefore
  <1>4. /\ defaults \subseteq DefaultEquip /\ \A x, y \in defaults : x.at = y.at => x = y
        /\ own \in SUBSET defaults /\ \A x, y \in own : x = y
    BY <1>2 DEF Own, Consistent, Kinds, OneThing, OnePlace
  <1> HIDE DEF own
  <1>5. /\ Knows(Receivers, <<>> \o S, lastId', items', defaults \ own)
        /\ S \in Seq(Objects)
    BY <1>3, <1>4, KnowsAllCleared
  <1> HIDE DEF S
  <1>6. <<>> \o S = S
    BY <1>5
  <1> QED
    BY <1>1, <1>5, <1>6, Tells

LEMMA UnsealSprayTells ==
    ASSUME IInv, IInv', KInv, NEW i \in Held, UnsealSpray(i)
    PROVE  KInv'
  <1> DEFINE at == <<NoTeam, Graffiti>>
             x == [items[i] EXCEPT !.sealed = FALSE]
             k == lastId + 1
             base == Without(With(items, k, x), i)
             known == Without(items, i)
             free == FreeItems(base, at)
             F == FreeObjects(base, defaults, at)
             left == FreeDefaults(defaults, at)
             places == InClass(free[k].equipped, NoTeam, Graffiti)
             gone == DestroyObject(i)
  <1>1. /\ lastId' = k
        /\ items' = [free EXCEPT ![k].equipped = places]
        /\ defaults' = left
        /\ Publish(<<gone>> \o F \o <<ItemObject(k, items')>>)
    BY DEF UnsealSpray
  <1>2. /\ Consistent(items, defaults) /\ i \in DOMAIN items /\ items[i] \in Item
        /\ lastId \in Nat /\ DOMAIN items \subseteq 1..lastId
        /\ \A j \in DOMAIN items' : items'[j] \in Item
    BY Loadouts DEF Held
  <1>3. k \in Nat /\ k \notin DOMAIN items /\ k # i /\ i \in 1..k /\ k \in 1..k /\ lastId <= k
    BY <1>2
  <1>4. x \in Item /\ x.equipped = items[i].equipped
    BY <1>2 DEF Item
  <1> HIDE DEF x, k
  <1>5. /\ Consistent(base, defaults) /\ DOMAIN base = (DOMAIN items \cup {k}) \ {i}
    BY <1>2, <1>3, <1>4, Replaced
  <1>6. \A j \in DOMAIN items \ {i} : base[j] = items[j]
    BY <1>3 DEF With, Without
  <1>7. DOMAIN known = DOMAIN items \ {i} /\ \A j \in DOMAIN known : known[j] = items[j]
    BY DEF Without
  <1> HIDE DEF base, known
  <1>8. /\ DOMAIN free = DOMAIN base /\ free \in [DOMAIN free -> Item]
    BY <1>5, FreedFacts DEF Consistent, Kinds
  <1>9. k \in DOMAIN free /\ free[k].equipped \subseteq Place
    BY <1>3, <1>5, <1>8 DEF Item
  <1>10. places \in SUBSET Place
    BY <1>9, LoadoutAssumption DEF InClass, WithoutClass, Place
  <1>11. Knows(Receivers, <<>>, k, items, defaults)
    BY <1>2, <1>3, KnownBefore
  <1>12. Knows(Receivers, Append(<<>>, gone), k, known, defaults)
    BY <1>3, <1>7, <1>11, KnowsDestroyed
  <1>13. Append(<<>>, gone) = <<gone>>
    OBVIOUS
  <1> HIDE DEF gone, at
  <1>14. Knows(Receivers, <<gone>>, k, known, defaults)
    BY <1>12, <1>13
  <1> DEFINE told == FreedOf(base, DOMAIN known, at)
  <1>15. Knows(Receivers, <<gone>> \o F, k, told, left) /\ F \in Seq(Objects)
    <2>1. DOMAIN base \subseteq 1..k /\ DOMAIN known \subseteq DOMAIN base
      BY <1>2, <1>3, <1>5, <1>7
    <2>2. \A j \in DOMAIN known : known[j].equipped = base[j].equipped
      BY <1>6, <1>7
    <2> QED
      BY <1>3, <1>5, <1>14, <2>1, <2>2, KnowsFreed
  <1>16. /\ DOMAIN told \cup {k} = DOMAIN base
         /\ \A j \in DOMAIN told : told[j] = free[j]
    BY <1>3, <1>5, <1>7 DEF FreedOf
  <1> HIDE DEF told, F, left, free, places
  <1>17. items' = Moved(free, k, places)
    BY <1>1, <1>8, <1>9, <1>10, MovedFacts
  <1>18. /\ DOMAIN Moved(free, k, places) = DOMAIN free
         /\ \A j \in DOMAIN free \ {k} : Moved(free, k, places)[j].equipped = free[j].equipped
    BY <1>8, <1>9, <1>10, MovedFacts
  <1>19. /\ DOMAIN items' = DOMAIN free
         /\ \A j \in DOMAIN free \ {k} : items'[j].equipped = free[j].equipped
    BY <1>17, <1>18, Zenon
  <1>20. /\ DOMAIN items' = DOMAIN told \cup {k} /\ items'[k] \in Item
         /\ \A j \in DOMAIN told : j # k => items'[j].equipped = told[j].equipped
    BY <1>2, <1>8, <1>9, <1>16, <1>19
  <1> DEFINE b == <<gone>> \o F
             o == ItemObject(k, items')
  <1> HIDE DEF b
  <1>21. Knows(Receivers, b, k, told, left)
    BY <1>15 DEF b
  <1>22. Knows(Receivers, Append(b, o), k, items', left)
    BY <1>3, <1>20, <1>21, KnowsItem
  <1> HIDE DEF o
  <1>23. Append(b, o) = b \o <<o>>
    BY <1>21 DEF Knows
  <1>24. Publish(b \o <<o>>)
    BY <1>1 DEF b, o
  <1> QED
    BY <1>1, <1>22, <1>23, <1>24, Tells

\* A snapshot is a copy of what it was made of.
LEMMA SnapshotHolds ==
    ASSUME NEW its, NEW des, Consistent(its, des), NEW ids \in SUBSET DOMAIN its
    PROVE  /\ Copy(Snapshot(its, des, ids))
           /\ DOMAIN Snapshot(its, des, ids).items = ids
           /\ \A i \in ids : Snapshot(its, des, ids).items[i] = its[i]
           /\ Mapped(Snapshot(its, des, ids).defaults, des)
  <1> DEFINE held == [i \in ids |-> its[i]]
             map == [at \in {e.at : e \in des} |-> (CHOOSE e \in des : e.at = at).def]
  <1>1. Snapshot(its, des, ids) = [items |-> held, defaults |-> map]
    BY DEF Snapshot
  <1>2. DOMAIN held = ids /\ (\A i \in ids : held[i] = its[i]) /\ held = [i \in DOMAIN held |-> held[i]]
    OBVIOUS
  <1>3. ASSUME NEW e \in des PROVE map[e.at] = e.def
    <2>1. (CHOOSE f \in des : f.at = e.at) = e
      BY DEF Consistent, OneThing
    <2>2. map[e.at] = (CHOOSE f \in des : f.at = e.at).def
      OBVIOUS
    <2> QED
      BY <2>1, <2>2
  <1>4. DOMAIN map = DefaultPlaces(des) /\ map = [at \in DOMAIN map |-> map[at]]
    BY DEF DefaultPlaces
  <1> HIDE DEF held, map
  <1> QED
    BY <1>1, <1>2, <1>3, <1>4 DEF Copy, Mapped

LEMMA HandleSOCacheRequestTells ==
    ASSUME IInv, KInv, HandleSOCacheRequest PROVE KInv'
  <1> DEFINE some == Equipped(items)
  <1>1. /\ linked' = (linked \/ Accepts(some)) /\ tracked' = some
        /\ server' = IF Accepts(some) THEN Snapshot(items, defaults, some) ELSE server
        /\ items' = items /\ defaults' = defaults /\ lastId' = lastId /\ game' = game
    BY DEF HandleSOCacheRequest, inventoryVars
  <1>2. Consistent(items, defaults) /\ DOMAIN items \subseteq 1..lastId
    BY DEF IInv, Held
  <1>3. some \in SUBSET DOMAIN items
    BY DEF Equipped
  <1>4. /\ Holds(game, DOMAIN items, items, defaults)
        /\ linked => Serves(server, items, defaults)
        /\ ~linked => server = Nothing
    BY DEF KInv, Known, Receivers
  <1>5. ASSUME Accepts(some) PROVE Serves(server', items, defaults)
    <2> DEFINE c == Snapshot(items, defaults, some)
    <2>1. /\ Copy(c) /\ DOMAIN c.items = some /\ (\A i \in some : c.items[i] = items[i])
          /\ Mapped(c.defaults, defaults)
      BY <1>2, <1>3, SnapshotHolds
    <2>2. server' = c
      BY <1>1, <1>5
    <2> HIDE DEF c
    <2>3. Equipped(c.items) = some
      BY <2>1 DEF Equipped
    <2> QED
      BY <2>1, <2>2, <2>3 DEF Serves
  <1>6. ASSUME linked' PROVE Serves(server', items, defaults)
    BY <1>1, <1>4, <1>5, <1>6
  <1>7. ASSUME ~linked' PROVE server' = Nothing
    BY <1>1, <1>4, <1>7
  <1>8. some \subseteq 1..lastId
    BY <1>2, <1>3
  <1>9. Known([game |-> game', tracked |-> tracked', server |-> server', linked |-> linked'],
              lastId, items, defaults)
    BY <1>1, <1>4, <1>6, <1>8 DEF Known
  <1>10. Receivers' = [game |-> game', tracked |-> tracked', server |-> server', linked |-> linked']
    BY DEF Receivers
  <1>11. Known(Receivers', lastId', items', defaults')
    BY <1>1, <1>9, <1>10
  <1> QED
    BY <1>7, <1>11, Zenon DEF KInv, Nothing

LEMMA LeaveServerTells ==
    ASSUME KInv, LeaveServer PROVE KInv'
  <1>1. /\ linked' = FALSE /\ server' = Nothing /\ tracked' = tracked /\ game' = game
        /\ items' = items /\ defaults' = defaults /\ lastId' = lastId
    BY DEF LeaveServer, inventoryVars
  <1>2. Holds(game, DOMAIN items, items, defaults) /\ tracked \subseteq 1..lastId
    BY DEF KInv, Known, Receivers
  <1>3. Known([game |-> game, tracked |-> tracked, server |-> Nothing, linked |-> FALSE],
              lastId, items, defaults)
    BY <1>2 DEF Known
  <1>4. Receivers' = [game |-> game', tracked |-> tracked', server |-> server', linked |-> linked']
    BY DEF Receivers
  <1>5. Known(Receivers', lastId', items', defaults')
    BY <1>1, <1>3, <1>4
  <1> QED
    BY <1>1, <1>5, Zenon DEF KInv, Nothing

LEMMA InitKInv == Init => KInv
  <1> SUFFICES ASSUME Init PROVE KInv
    OBVIOUS
  <1>1. /\ game = Snapshot(items, defaults, DOMAIN items) /\ tracked = {} /\ linked = FALSE
        /\ server = Nothing
    BY DEF Init, Held
  <1>2. Consistent(items, defaults)
    BY InitIInv DEF IInv
  <1>3. /\ Copy(game) /\ DOMAIN game.items = DOMAIN items
        /\ \A i \in DOMAIN items : game.items[i] = items[i]
        /\ Mapped(game.defaults, defaults)
    BY <1>1, <1>2, SnapshotHolds
  <1>4. Holds(game, DOMAIN items, items, defaults)
    BY <1>3 DEF Holds
  <1>5. Known(Receivers, lastId, items, defaults)
    BY <1>1, <1>4 DEF Known, Receivers
  <1> QED
    BY <1>1, <1>5 DEF KInv

LEMMA NextKInv == IInv /\ IInv' /\ KInv /\ [Next]_vars => KInv'
  <1> SUFFICES ASSUME IInv, IInv', KInv, [Next]_vars PROVE KInv'
    OBVIOUS
  <1>1. ASSUME UNCHANGED vars PROVE KInv'
    <2>1. UNCHANGED <<items, defaults, lastId, tracked, game, linked, server>>
      BY <1>1 DEF vars, inventoryVars
    <2>2. Receivers' = Receivers
      BY <2>1 DEF Receivers
    <2>3. Known(Receivers', lastId', items', defaults')
      BY <2>1, <2>2 DEF KInv
    <2> QED
      BY <2>1, <2>3, Zenon DEF KInv, Nothing
  <1> QED
    BY <1>1, EquipItemTells, EquipDefaultTells, SwapWithItemTells, SwapWithDefaultTells,
       UnequipSlotForClassTells, UnequipItemForClassTells, UnequipDefaultForClassTells,
       UnsealSprayTells, CreateItemTells, DestroyItemTells, DepositItemTells,
       HandleSOCacheRequestTells, LeaveServerTells DEF Next

LEMMA Knowing == Spec => [](IInv /\ KInv)
  <1>1. Init => IInv /\ KInv
    BY InitIInv, InitKInv
  <1>2. (IInv /\ KInv) /\ [Next]_vars => (IInv /\ KInv)'
    BY NextIInv, NextKInv
  <1> QED
    BY <1>1, <1>2, PTL DEF Spec

\* After every operation the game's copy is the inventory again: a base item that is
\* displaced clears its place before another is published there (inventory.cpp:1085-1091).
THEOREM GameIsTold == Spec => []GameMirrorsLoadout
  <1>1. ASSUME IInv, KInv PROVE GameMirrorsLoadout
    <2>1. Holds(game, Held, items, defaults)
      BY <1>1 DEF KInv, Known, Receivers, Held
    <2>2. Mapped(Snapshot(items, defaults, Held).defaults, defaults)
      BY <1>1, SnapshotHolds DEF IInv, Held
    <2>3. game.defaults = Snapshot(items, defaults, Held).defaults
      BY <2>1, <2>2, MappedOnce DEF Holds
    <2> QED
      BY <2>1, <2>3 DEF Holds, GameMirrorsLoadout
  <1> QED
    BY <1>1, Knowing, PTL

\* The game server knows exactly what is equipped, though items that are not, and were
\* not, are left out of its updates, and whether or not it accepts the next snapshot
\* (gc_client.cpp:1427-1443, 1530-1591).
THEOREM FilterLosesNothing == Spec => []ServerSeesLoadout
  <1>1. ASSUME IInv, KInv PROVE ServerSeesLoadout
    <2>1. /\ Holds(game, DOMAIN items, items, defaults) /\ tracked \subseteq 1..lastId
          /\ linked => tracked = Equipped(items) /\ Serves(server, items, defaults)
          /\ ~linked => server = Nothing
      BY <1>1 DEF KInv, Known, Receivers
    <2>2. linked => server.defaults = game.defaults
      BY <2>1, MappedOnce DEF Holds, Serves
    <2> QED
      BY <2>1, <2>2 DEF Serves, ServerSeesLoadout
  <1> QED
    BY <1>1, Knowing, PTL
===============================================================================

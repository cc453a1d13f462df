---------------------------- MODULE Storage_proofs ----------------------------
(***************************************************************************)
(* For any capacity, any number of items and whatever file was there       *)
(* first, over restarts and crashes: no item takes the place of another.   *)
(* And as long as every file loaded was the program's own and had no       *)
(* reference to a missing casket, what is in a casket can be taken out     *)
(* again, fits its capacity, and is in the casket it was put into.         *)
(*                                                                         *)
(* The argument: in a session ids only grow, so a casket that is created   *)
(* finds no reference to its id lying around (Below); from then on its     *)
(* counter and its contents change together, and destroying an item can    *)
(* only make the contents smaller (Counted); an unsealed spray takes the   *)
(* place of its original.  The file is an earlier inventory and has its    *)
(* properties (Sound, Consistent); while it is read, the items and the     *)
(* entries that are left make it up (Partly), and in the end Below holds   *)
(* again, because every reference in the file is to an entry of it.        *)
(***************************************************************************)
EXTENDS Storage, FiniteSetTheorems, TLAPS

Types ==
    /\ Held \subseteq 1..MaxId
    /\ items \in [Held -> Item]
    /\ lastHighId \in 0..MaxId
    /\ made \in 0..MaxId

Ids == \A i \in Held : i <= lastHighId

Born ==
    /\ \A i \in Held : items[i].born \in 1..made
    /\ \A i, j \in Held : items[i].born = items[j].born => i = j

\* Caskets are not put into caskets.
NoNesting == \A i \in Held : items[i].casket => items[i].storedIn = 0

\* What holds whatever was loaded.
Core == Types /\ Ids /\ NoNesting /\ Born

\* Every id in a reference has been handed out.
Below == \A i \in Held : items[i].storedIn <= lastHighId

Counted ==
    \A c \in Held : items[c].casket =>
        /\ items[c].count = none => Contents(c) = {}
        /\ items[c].count # none => /\ Cardinality(Contents(c)) <= items[c].count
                                    /\ items[c].count <= Capacity

Meaning ==
    \A i, c \in Held : items[i].storedIn = c => /\ items[i].home = items[c].born
                                               /\ items[c].casket

\* What holds while every file that was loaded was clean.
Tied == Below /\ Counted /\ Meaning

\* The same of the entries of a file, but for the last id, which a file does not have.
Sound(entries) ==
    /\ entries \subseteq Entry
    /\ \A e \in entries : e.item.casket => e.item.storedIn = 0
    /\ \A e \in entries : e.item.born \in 1..made
    /\ \A e, g \in entries : e.item.born = g.item.born => e = g

Inside(entries, c) == {i \in 1..MaxId : \E e \in entries : e.id = i /\ e.item.storedIn = c}

Consistent(entries) ==
    /\ \A e \in entries : e.id \in 1..MaxId
    /\ \A e, g \in entries : e.id = g.id => e = g
    /\ \A c \in entries : c.item.casket =>
         /\ c.item.count = none => Inside(entries, c.id) = {}
         /\ c.item.count # none => /\ Cardinality(Inside(entries, c.id)) <= c.item.count
                                   /\ c.item.count <= Capacity
    /\ \A e, c \in entries : e.item.storedIn = c.id => /\ e.item.home = c.item.born
                                                      /\ c.item.casket

\* Every reference is to something in the file.
Resolves(entries) ==
    \A e \in entries : e.item.storedIn = 0 \/ \E g \in entries : e.item.storedIn = g.id

\* Of a clean file, some entries have become items and the others are left.
Partly ==
    /\ Written \cup reading = file
    /\ \A e \in reading : e.id \notin Held
    /\ Resolves(file)

Apart == \A e \in reading, i \in Held : e.item.born # items[i].born

Alive == alive = {items[i].born : i \in Held} \cup Births(reading)

IInv ==
    /\ Core
    /\ Sound(file)
    /\ Sound(reading)
    /\ Apart
    /\ Alive
    /\ clean \in BOOLEAN
    /\ clean => /\ Consistent(file)
                /\ Counted
                /\ Meaning
                /\ reading = {} => Below
                /\ reading # {} => Partly

\* The steps that change the items and nothing else.
ItemsChange ==
    \/ \E casket \in BOOLEAN : CreateItem(casket)
    \/ \E i \in Held : DestroyItem(i) \/ UnsealSpray(i) \/ PrepareCasketForNaming(i)
    \/ \E c, i \in Held : DepositItemToStorage(c, i) \/ WithdrawItemFromStorage(c, i)

-------------------------------------------------------------------------------
LEMMA Bounds == Capacity \in Nat /\ MaxId \in Nat /\ none \notin Nat
  BY StorageAssumption

LEMMA ContentsFinite ==
    ASSUME Types, NEW c
    PROVE  /\ IsFiniteSet(Contents(c))
           /\ Cardinality(Contents(c)) \in Nat
  <1>1. IsFiniteSet(1..MaxId)
    BY Bounds, FS_Interval
  <1>2. Contents(c) \subseteq 1..MaxId
    BY DEF Types, Contents
  <1> QED BY <1>1, <1>2, FS_Subset, FS_CardinalityType

\* In a session the next id is free.
LEMMA NextId ==
    ASSUME Core, NEW id \in 1..MaxId, AllocateItem(0, id)
    PROVE  id = lastHighId + 1 /\ id \notin Held /\ lastHighId' = id
  <1>1. lastHighId \in Nat /\ MaxId \in Nat /\ \A i \in Held : i <= lastHighId
    BY Bounds DEF Core, Types, Ids
  <1>2. /\ id >= lastHighId + 1 /\ id \notin Held
        /\ \A j \in 1..MaxId : lastHighId + 1 <= j /\ j < id => j \in Held
        /\ lastHighId' = IF id > lastHighId THEN id ELSE lastHighId
    BY DEF AllocateItem
  <1>3. lastHighId + 1 \in 1..MaxId /\ lastHighId + 1 \notin Held
    BY <1>1, <1>2
  <1> QED BY <1>1, <1>2, <1>3

\* What a creation does to the items and to the contents of every casket.
LEMMA Creating ==
    ASSUME Core, NEW casket \in BOOLEAN, CreateItem(casket), NEW n, n = lastHighId + 1
    PROVE  /\ n \in 1..MaxId /\ n \notin Held
           /\ Held' = Held \cup {n}
           /\ items' = [i \in Held' |-> items'[i]]
           /\ items'[n] = [casket |-> casket, count |-> none, storedIn |-> 0, born |-> made + 1, home |-> 0]
           /\ \A i \in Held : items'[i] = items[i]
           /\ \A c \in Held : Contents(c)' = Contents(c)
           /\ Below => Contents(n)' = {}
           /\ made' = made + 1 /\ made < MaxId /\ lastHighId' = n
  <1>pick. PICK id \in 1..MaxId :
              /\ AllocateItem(0, id)
              /\ items' = [i \in Held \cup {id} |->
                   IF i = id
                   THEN [casket |-> casket, count |-> none, storedIn |-> 0, born |-> made', home |-> 0]
                   ELSE items[i]]
    BY DEF CreateItem
  <1>1. n = id /\ n \in 1..MaxId /\ n \notin Held /\ lastHighId' = n
    BY <1>pick, NextId
  <1>made. made' = made + 1 /\ made < MaxId
    BY DEF CreateItem
  <1>2. /\ Held' = Held \cup {n}
        /\ items' = [i \in Held' |-> items'[i]]
        /\ items'[n] = [casket |-> casket, count |-> none, storedIn |-> 0, born |-> made + 1, home |-> 0]
        /\ \A i \in Held : items'[i] = items[i]
    BY <1>pick, <1>1, <1>made DEF Held
  <1>3. /\ items'[n].storedIn = 0 /\ 0 \notin Held /\ n # 0
        /\ \A i \in Held : items'[i].storedIn = items[i].storedIn
    BY <1>1, <1>2 DEF Core, Types
  <1>4. Below => \A i \in Held : items[i].storedIn # n
    BY DEF Core, Types, Below, Item
  <1>5. ASSUME NEW c \in Held
        PROVE  Contents(c)' = Contents(c)
    <2>1. ASSUME NEW i PROVE i \in Contents(c)' <=> i \in Contents(c)
      BY <1>1, <1>2, <1>3 DEF Contents
    <2> QED BY <2>1
  <1>6. Below => Contents(n)' = {}
    BY <1>2, <1>3, <1>4 DEF Contents
  <1> QED BY <1>1, <1>2, <1>made, <1>5, <1>6

\* A copy that takes the place of its original leaves every casket as full as it was.
LEMMA Unsealing ==
    ASSUME Core, NEW i \in Held, UnsealSpray(i), NEW n, n = lastHighId + 1
    PROVE  /\ n \in 1..MaxId /\ n \notin Held
           /\ Held' = (Held \ {i}) \cup {n}
           /\ items' = [j \in Held' |-> items'[j]]
           /\ items'[n] = [items[i] EXCEPT !.born = made + 1]
           /\ \A j \in Held \ {i} : items'[j] = items[j]
           /\ \A c \in Held \ {i} : Cardinality(Contents(c)') = Cardinality(Contents(c))
           /\ made' = made + 1 /\ made < MaxId /\ lastHighId' = n /\ ~items[i].casket
  <1>pick. PICK id \in 1..MaxId :
              /\ AllocateItem(0, id)
              /\ items' = [j \in (Held \ {i}) \cup {id} |->
                   IF j = id THEN [items[i] EXCEPT !.born = made'] ELSE items[j]]
    BY DEF UnsealSpray
  <1>1. n = id /\ n \in 1..MaxId /\ n \notin Held /\ lastHighId' = n
    BY <1>pick, NextId
  <1>made. made' = made + 1 /\ made < MaxId /\ ~items[i].casket
    BY DEF UnsealSpray
  <1>2. /\ Held' = (Held \ {i}) \cup {n}
        /\ items' = [j \in Held' |-> items'[j]]
        /\ items'[n] = [items[i] EXCEPT !.born = made + 1]
        /\ \A j \in Held \ {i} : items'[j] = items[j]
    BY <1>pick, <1>1, <1>made DEF Held
  <1>3. /\ items'[n].storedIn = items[i].storedIn
        /\ \A j \in Held \ {i} : items'[j].storedIn = items[j].storedIn
    BY <1>2 DEF Core, Types, Item
  <1>4. ASSUME NEW c \in Held \ {i}
        PROVE  Cardinality(Contents(c)') = Cardinality(Contents(c))
    <2>1. CASE items[i].storedIn = c
      <3>1. ASSUME NEW j PROVE j \in Contents(c)' <=> j \in (Contents(c) \ {i}) \cup {n}
        BY <1>1, <1>2, <1>3, <2>1 DEF Contents
      <3>2. Contents(c)' = (Contents(c) \ {i}) \cup {n}
        BY <3>1
      <3>3. i \in Contents(c) /\ n \notin Contents(c)
        BY <1>1, <2>1 DEF Contents
      <3>4. IsFiniteSet(Contents(c)) /\ Cardinality(Contents(c)) \in Nat
        BY ContentsFinite DEF Core
      <3>5. /\ IsFiniteSet(Contents(c) \ {i})
            /\ Cardinality(Contents(c) \ {i}) = Cardinality(Contents(c)) - 1
        BY <3>3, <3>4, FS_RemoveElement
      <3>6. Cardinality((Contents(c) \ {i}) \cup {n}) = Cardinality(Contents(c) \ {i}) + 1
        BY <3>3, <3>5, FS_AddElement
      <3> QED BY <3>2, <3>4, <3>5, <3>6
    <2>2. CASE items[i].storedIn # c
      <3>1. ASSUME NEW j PROVE j \in Contents(c)' <=> j \in Contents(c)
        BY <1>1, <1>2, <1>3, <2>2 DEF Contents
      <3>2. Contents(c)' = Contents(c)
        BY <3>1
      <3> QED BY <3>2
    <2> QED BY <2>1, <2>2
  <1> QED BY <1>1, <1>2, <1>made, <1>4

LEMMA ItemStep ==
    ASSUME Core, ItemsChange
    PROVE  Core' /\ (Tied => Tied')
  <1> USE Bounds
  <1>1. ASSUME NEW casket \in BOOLEAN, CreateItem(casket)
        PROVE  Core' /\ (Tied => Tied')
    <2> SUFFICES ASSUME NEW n, n = lastHighId + 1
                 PROVE  Core' /\ (Tied => Tied')
      OBVIOUS
    <2>1. /\ n \in 1..MaxId /\ n \notin Held
          /\ Held' = Held \cup {n}
          /\ items'[n] = [casket |-> casket, count |-> none, storedIn |-> 0, born |-> made + 1, home |-> 0]
          /\ \A i \in Held : items'[i] = items[i]
          /\ \A c \in Held : Contents(c)' = Contents(c)
          /\ Below => Contents(n)' = {}
      BY <1>1, Creating
    <2>2. made' = made + 1 /\ made < MaxId /\ lastHighId' = n
      BY <1>1, Creating
    <2>3. Types'
      <3>1. items'[n] \in Item
        BY <2>1, <2>2 DEF Item, Core, Types
      <3>2. \A i \in Held' : items'[i] \in Item
        BY <2>1, <3>1 DEF Core, Types
      <3>3. items' = [i \in Held' |-> items'[i]]
        BY <1>1, Creating
      <3>4. items' \in [Held' -> Item]
        BY <3>2, <3>3
      <3>5. Held' \subseteq 1..MaxId /\ lastHighId' \in 0..MaxId /\ made' \in 0..MaxId
        BY <2>1, <2>2 DEF Core, Types
      <3> QED BY <2>2, <3>4, <3>5 DEF Core, Types
    <2>4. Ids' /\ (Tied => Below')
      <3>2. lastHighId \in Nat /\ \A i \in Held : items[i].storedIn \in Nat /\ i \in Nat
        BY DEF Core, Types, Item
      <3> QED BY <2>1, <2>2, <3>2 DEF Core, Ids, Tied, Below
    <2>5. Tied => Counted'
      BY <2>1 DEF Tied, Counted
    <2>6. NoNesting'
      BY <2>1 DEF Core, NoNesting
    <2>7. Born'
      <3>1. items'[n].born = made + 1 /\ \A i \in Held : items'[i].born = items[i].born
        BY <2>1
      <3>2. made \in Nat /\ \A i \in Held : items[i].born \in 1..made
        BY DEF Core, Types, Born
      <3>3. \A i \in Held' : items'[i].born \in 1..made'
        BY <2>1, <2>2, <3>1, <3>2
      <3>4. \A i, j \in Held' : items'[i].born = items'[j].born => i = j
        BY <2>1, <3>1, <3>2 DEF Core, Born
      <3> QED BY <3>3, <3>4 DEF Born
    <2>8. Tied => Meaning'
      <3>1. items'[n].storedIn = 0 /\ 0 \notin Held'
        BY <2>1 DEF Core, Types
      <3>2. Below => \A i \in Held : items[i].storedIn # n
        BY DEF Core, Types, Below, Item
      <3> QED BY <2>1, <3>1, <3>2 DEF Tied, Meaning
    <2> QED BY <2>3, <2>4, <2>5, <2>6, <2>7, <2>8 DEF Core, Tied
  <1>2. ASSUME NEW i \in Held, DestroyItem(i)
        PROVE  Core' /\ (Tied => Tied')
    <2>1. /\ Held' = Held \ {i}
          /\ \A j \in Held' : items'[j] = items[j]
          /\ items' \in [Held' -> Item]
      BY <1>2 DEF DestroyItem, Held, Core, Types
    <2>2. UNCHANGED <<lastHighId, made>>
      BY <1>2 DEF DestroyItem
    <2>3. ASSUME NEW c \in Held
          PROVE  /\ Contents(c)' \subseteq Contents(c)
                 /\ Cardinality(Contents(c)') <= Cardinality(Contents(c))
                 /\ Cardinality(Contents(c)') \in Nat
      <3>1. Contents(c)' \subseteq Contents(c)
        BY <2>1 DEF Contents
      <3> QED BY <3>1, ContentsFinite, FS_Subset, FS_CardinalityType DEF Core
    <2>4. \A c \in Held : Cardinality(Contents(c)) \in Nat
      BY ContentsFinite DEF Core
    <2>5. Tied => Counted'
      <3>1. \A c \in Held : items[c].count \in Nat \cup {none}
        BY DEF Core, Types, Item
      <3> QED BY <2>1, <2>3, <2>4, <3>1 DEF Tied, Counted
    <2>6. Types' /\ Ids' /\ NoNesting' /\ Born'
      BY <2>1, <2>2 DEF Core, Types, Ids, NoNesting, Born
    <2>7. Tied => Below' /\ Meaning'
      BY <2>1, <2>2 DEF Tied, Below, Meaning
    <2> QED BY <2>5, <2>6, <2>7 DEF Core, Tied
  <1>3. ASSUME NEW c \in Held, PrepareCasketForNaming(c)
        PROVE  Core' /\ (Tied => Tied')
    <2>1. /\ Held' = Held
          /\ items' \in [Held -> Item]
          /\ \A j \in Held : /\ items'[j].casket = items[j].casket
                             /\ items'[j].storedIn = items[j].storedIn
                             /\ items'[j].born = items[j].born
                             /\ items'[j].home = items[j].home
                             /\ items[j].count # none => items'[j].count = items[j].count
                             /\ items'[j].count \in {items[j].count, 0}
      BY <1>3 DEF PrepareCasketForNaming, Held, Core, Types, Item
    <2>2. \A d : Contents(d)' = Contents(d)
      BY <2>1 DEF Contents
    <2>3. \A d \in Held : Contents(d) = {} => Cardinality(Contents(d)) = 0
      BY FS_EmptySet
    <2>4. Tied => Counted'
      BY <2>1, <2>2, <2>3 DEF Tied, Counted
    <2>5. UNCHANGED <<lastHighId, made>>
      BY <1>3 DEF PrepareCasketForNaming
    <2>6. Types' /\ Ids' /\ NoNesting' /\ Born'
      BY <2>1, <2>5 DEF Core, Types, Ids, NoNesting, Born
    <2>7. Tied => Below' /\ Meaning'
      BY <2>1, <2>5 DEF Tied, Below, Meaning
    <2> QED BY <2>4, <2>6, <2>7 DEF Core, Tied
  <1>4. ASSUME NEW c \in Held, NEW i \in Held, DepositItemToStorage(c, i)
        PROVE  Core' /\ (Tied => Tied')
    <2> DEFINE x == [items[c] EXCEPT !.count = items[c].count + 1]
               y == [items[i] EXCEPT !.storedIn = c, !.home = items[c].born]
    <2>1. /\ items[c] \in Item /\ items[i] \in Item
          /\ c \in Nat \ {0} /\ i \in Nat \ {0}
      BY DEF Core, Types
    <2>2. /\ c # i /\ items[c].casket /\ ~items[i].casket
          /\ items[i].storedIn = 0
          /\ items[c].count \in Nat /\ items[c].count + 1 \in Nat
          /\ items[c].count + 1 <= Capacity
      BY <1>4, <2>1 DEF DepositItemToStorage, CounterAccepts, Item
    <2>3. items' = [items EXCEPT ![c] = x, ![i] = y]
      BY <1>4, <2>2 DEF DepositItemToStorage
    <2>4. /\ x \in Item /\ x.count = items[c].count + 1 /\ x.casket = items[c].casket
          /\ x.storedIn = items[c].storedIn /\ x.born = items[c].born
          /\ x.home = items[c].home
      BY <2>1, <2>2 DEF Item
    <2>5. /\ y \in Item /\ y.storedIn = c /\ y.casket = items[i].casket
          /\ y.count = items[i].count /\ y.born = items[i].born /\ y.home = items[c].born
      BY <2>1 DEF Item
    <2> HIDE DEF x, y
    <2>6. /\ Held' = Held
          /\ items' \in [Held -> Item]
          /\ items'[c] = x /\ items'[i] = y
          /\ \A j \in Held \ {c, i} : items'[j] = items[j]
      BY <2>2, <2>3, <2>4, <2>5 DEF Held, Core, Types
    <2>7. \A j \in Held : items'[j].born = items[j].born /\ items'[j].casket = items[j].casket
      BY <2>4, <2>5, <2>6
    <2>8. /\ items'[i].storedIn = c /\ items'[i].home = items[c].born
          /\ \A j \in Held \ {i} : /\ items'[j].storedIn = items[j].storedIn
                                  /\ items'[j].home = items[j].home
      BY <2>4, <2>5, <2>6
    <2>9. UNCHANGED <<lastHighId, made>>
      BY <1>4 DEF DepositItemToStorage
    <2>11. Types' /\ Ids'
      BY <2>6, <2>9 DEF Core, Types, Ids
    <2>12. Tied => Below'
      BY <2>6, <2>8, <2>9 DEF Core, Ids, Tied, Below
    <2>13. NoNesting'
      BY <2>2, <2>6, <2>7, <2>8 DEF Core, NoNesting
    <2>14. Born'
      BY <2>6, <2>7, <2>9 DEF Core, Born
    <2>15. ASSUME Tied PROVE Counted'
      <3>1. i \notin Contents(c) /\ Contents(c)' = Contents(c) \cup {i}
        <4>1. i \notin Contents(c)
          BY <2>1, <2>2 DEF Contents
        <4>2. ASSUME NEW j PROVE j \in Contents(c)' <=> j \in Contents(c) \cup {i}
          BY <2>1, <2>6, <2>8 DEF Contents
        <4> QED BY <4>1, <4>2
      <3>2. Cardinality(Contents(c)') = Cardinality(Contents(c)) + 1
        BY <3>1, ContentsFinite, FS_AddElement DEF Core
      <3>3. Cardinality(Contents(c)) \in Nat
        BY ContentsFinite DEF Core
      <3>4. Cardinality(Contents(c)) <= items[c].count /\ items[c].count <= Capacity
        BY <2>2, <2>15, Bounds DEF Tied, Counted
      <3>5. /\ items'[c].count # none
            /\ Cardinality(Contents(c)') <= items'[c].count
            /\ items'[c].count <= Capacity
        BY <2>2, <2>4, <2>6, <3>2, <3>3, <3>4, Bounds
      <3>6. ASSUME NEW d \in Held \ {c}
            PROVE  Contents(d)' = Contents(d)
        <4>1. d # 0
          BY DEF Core, Types
        <4>2. ASSUME NEW j PROVE j \in Contents(d)' <=> j \in Contents(d)
          BY <2>2, <2>6, <2>8, <4>1 DEF Contents
        <4> QED BY <4>2
      <3>7. ASSUME NEW d \in Held \ {c}, items'[d].casket
            PROVE  items[d].casket /\ items'[d] = items[d]
        BY <2>2, <2>6, <2>7, <3>7
      <3> QED BY <2>6, <2>15, <3>5, <3>6, <3>7 DEF Tied, Counted
    <2>16. Tied => Meaning'
      BY <2>2, <2>6, <2>7, <2>8 DEF Tied, Meaning
    <2> QED BY <2>11, <2>12, <2>13, <2>14, <2>15, <2>16 DEF Core, Tied
  <1>5. ASSUME NEW c \in Held, NEW i \in Held, WithdrawItemFromStorage(c, i)
        PROVE  Core' /\ (Tied => Tied')
    <2> DEFINE x == [items[c] EXCEPT !.count = items[c].count - 1]
               y == [items[i] EXCEPT !.storedIn = 0]
    <2>1. /\ items[c] \in Item /\ items[i] \in Item
          /\ c \in Nat \ {0} /\ i \in Nat \ {0}
      BY DEF Core, Types
    <2>2. /\ c # i /\ items[c].casket /\ ~items[i].casket
          /\ items[i].storedIn = c
          /\ items[c].count \in Nat /\ items[c].count - 1 \in Nat
      BY <1>5, <2>1 DEF WithdrawItemFromStorage, Item, Core, NoNesting
    <2>3. items' = [items EXCEPT ![c] = x, ![i] = y]
      BY <1>5, <2>2 DEF WithdrawItemFromStorage
    <2>4. /\ x \in Item /\ x.count = items[c].count - 1 /\ x.casket = items[c].casket
          /\ x.storedIn = items[c].storedIn /\ x.born = items[c].born
          /\ x.home = items[c].home
      BY <2>1, <2>2 DEF Item
    <2>5. /\ y \in Item /\ y.storedIn = 0 /\ y.casket = items[i].casket
          /\ y.count = items[i].count /\ y.born = items[i].born /\ y.home = items[i].home
      BY <2>1 DEF Item
    <2> HIDE DEF x, y
    <2>6. /\ Held' = Held
          /\ items' \in [Held -> Item]
          /\ items'[c] = x /\ items'[i] = y
          /\ \A j \in Held \ {c, i} : items'[j] = items[j]
      BY <2>2, <2>3, <2>4, <2>5 DEF Held, Core, Types
    <2>7. \A j \in Held : items'[j].born = items[j].born /\ items'[j].casket = items[j].casket
      BY <2>4, <2>5, <2>6
    <2>8. /\ items'[i].storedIn = 0
          /\ \A j \in Held \ {i} : items'[j].storedIn = items[j].storedIn
          /\ \A j \in Held : items'[j].home = items[j].home
      BY <2>4, <2>5, <2>6
    <2>9. UNCHANGED <<lastHighId, made>>
      BY <1>5 DEF WithdrawItemFromStorage
    <2>11. Types' /\ Ids'
      BY <2>6, <2>9 DEF Core, Types, Ids
    <2>12. Tied => Below'
      <3>1. lastHighId \in Nat
        BY DEF Core, Types
      <3> QED BY <2>6, <2>8, <2>9, <3>1 DEF Tied, Below
    <2>13. NoNesting'
      BY <2>2, <2>6, <2>7, <2>8 DEF Core, NoNesting
    <2>14. Born'
      BY <2>6, <2>7, <2>9 DEF Core, Born
    <2>15. ASSUME Tied PROVE Counted'
      <3>1. i \in Contents(c) /\ Contents(c)' = Contents(c) \ {i}
        <4>1. i \in Contents(c)
          BY <2>1, <2>2 DEF Contents
        <4>2. ASSUME NEW j PROVE j \in Contents(c)' <=> j \in Contents(c) \ {i}
          BY <2>1, <2>6, <2>8 DEF Contents
        <4> QED BY <4>1, <4>2
      <3>2. Cardinality(Contents(c)') = Cardinality(Contents(c)) - 1
        BY <3>1, ContentsFinite, FS_RemoveElement DEF Core
      <3>3. Cardinality(Contents(c)) \in Nat
        BY ContentsFinite DEF Core
      <3>4. Cardinality(Contents(c)) <= items[c].count /\ items[c].count <= Capacity
        BY <2>2, <2>15, Bounds DEF Tied, Counted
      <3>5. /\ items'[c].count # none
            /\ Cardinality(Contents(c)') <= items'[c].count
            /\ items'[c].count <= Capacity
        BY <2>2, <2>4, <2>6, <3>2, <3>3, <3>4, Bounds
      <3>6. ASSUME NEW d \in Held \ {c}
            PROVE  Contents(d)' = Contents(d)
        <4>1. d # 0
          BY DEF Core, Types
        <4>2. ASSUME NEW j PROVE j \in Contents(d)' <=> j \in Contents(d)
          BY <2>2, <2>6, <2>8, <4>1 DEF Contents
        <4> QED BY <4>2
      <3>7. ASSUME NEW d \in Held \ {c}, items'[d].casket
            PROVE  items[d].casket /\ items'[d] = items[d]
        BY <2>2, <2>6, <2>7, <3>7
      <3> QED BY <2>6, <2>15, <3>5, <3>6, <3>7 DEF Tied, Counted
    <2>16. Tied => Meaning'
      <3>1. 0 \notin Held
        BY DEF Core, Types
      <3> QED BY <2>6, <2>7, <2>8, <3>1 DEF Tied, Meaning
    <2> QED BY <2>11, <2>12, <2>13, <2>14, <2>15, <2>16 DEF Core, Tied
  <1>6. ASSUME NEW i \in Held, UnsealSpray(i)
        PROVE  Core' /\ (Tied => Tied')
    <2> SUFFICES ASSUME NEW n, n = lastHighId + 1
                 PROVE  Core' /\ (Tied => Tied')
      OBVIOUS
    <2>1. /\ n \in 1..MaxId /\ n \notin Held
          /\ Held' = (Held \ {i}) \cup {n}
          /\ items'[n] = [items[i] EXCEPT !.born = made + 1]
          /\ \A j \in Held \ {i} : items'[j] = items[j]
          /\ \A c \in Held \ {i} : Cardinality(Contents(c)') = Cardinality(Contents(c))
      BY <1>6, Unsealing
    <2>2. /\ made' = made + 1 /\ made < MaxId /\ lastHighId' = n
          /\ ~items[i].casket
      BY <1>6, Unsealing
    <2>3. /\ items[i] \in Item /\ items'[n] \in Item
          /\ items'[n].casket = items[i].casket
          /\ items'[n].storedIn = items[i].storedIn /\ items'[n].born = made + 1
          /\ items'[n].home = items[i].home
      <3>1. items[i] \in Item /\ made + 1 \in Nat
        BY DEF Core, Types
      <3>2. \A b \in Nat : LET x == [items[i] EXCEPT !.born = b] IN
              /\ x \in Item /\ x.casket = items[i].casket
              /\ x.storedIn = items[i].storedIn /\ x.born = b /\ x.home = items[i].home
        BY <3>1 DEF Item
      <3> QED BY <2>1, <3>1, <3>2
    <2>4. /\ made \in Nat /\ \A j \in Held : items[j].born \in 1..made
          /\ lastHighId \in Nat /\ \A j \in Held : items[j].storedIn \in Nat
          /\ Tied => \A j \in Held : items[j].storedIn <= lastHighId
      BY DEF Core, Types, Born, Tied, Below, Item
    <2>held. /\ n \in Nat /\ n \notin Held /\ n = lastHighId + 1
           /\ Held' = (Held \ {i}) \cup {n}
           /\ \A j \in Held \ {i} : items'[j] = items[j]
      BY <2>1
    <2>5. Types'
      <3>1. items' = [j \in Held' |-> items'[j]]
        BY <1>6, Unsealing
      <3>2. \A j \in Held' : items'[j] \in Item
        BY <2>1, <2>3 DEF Core, Types
      <3>3. items' \in [Held' -> Item]
        BY <3>1, <3>2
      <3> QED BY <2>1, <2>2, <2>4, <3>3 DEF Core, Types
    <2>6. Ids' /\ (Tied => Below')
      <3>1. \A j \in Held : j <= lastHighId /\ j \in Nat
        BY DEF Core, Types, Ids
      <3>2. \A j \in Held' : j <= n
        BY <2>4, <2>held, <3>1
      <3>3. Tied => \A j \in Held' : items'[j].storedIn <= n
        BY <2>3, <2>4, <2>held
      <3> QED BY <2>2, <3>2, <3>3 DEF Ids, Below
    <2>7. ASSUME Tied PROVE Counted'
      <3>1. ASSUME NEW c \in Held', items'[c].casket
            PROVE  /\ c \in Held \ {i} /\ items'[c] = items[c]
                   /\ Cardinality(Contents(c)') = Cardinality(Contents(c))
        BY <2>1, <2>2, <2>3, <3>1
      <3>2. ASSUME NEW c \in Held', items'[c].casket, Contents(c) = {}
            PROVE  Contents(c)' = {}
        <4>1. Types'
          BY <2>5
        <4>2. IsFiniteSet(Contents(c)')
          <5>1. IsFiniteSet(1..MaxId) BY Bounds, FS_Interval
          <5>2. Contents(c)' \subseteq 1..MaxId BY <4>1 DEF Types, Contents
          <5> QED BY <5>1, <5>2, FS_Subset
        <4> QED BY <3>1, <3>2, <4>2, FS_EmptySet
      <3> QED BY <2>7, <3>1, <3>2 DEF Tied, Counted
    <2>8. NoNesting'
      BY <2>1, <2>2, <2>3 DEF Core, NoNesting
    <2>9. Born'
      <3>1. \A j, k \in Held : items[j].born = items[k].born => j = k
        BY DEF Core, Born
      <3>2. \A j \in Held' : items'[j].born \in 1..(made + 1)
        BY <2>3, <2>4, <2>held
      <3>3. \A j, k \in Held' : items'[j].born = items'[k].born => j = k
        BY <2>3, <2>4, <2>held, <3>1
      <3> QED BY <2>2, <3>2, <3>3 DEF Born
    <2>10. ASSUME Tied PROVE Meaning'
      <3>1. \A j \in Held : items[j].storedIn # n
        BY <2>4, <2>held, <2>10
      <3> QED BY <2>3, <2>held, <2>10, <3>1 DEF Tied, Meaning
    <2> QED BY <2>5, <2>6, <2>7, <2>8, <2>9, <2>10 DEF Core, Tied
  <1> QED
    BY <1>1, <1>2, <1>3, <1>4, <1>5, <1>6 DEF ItemsChange

\* What these steps leave alone, and the creations, which only grow.
LEMMA FileStep ==
    ASSUME IInv, ItemsChange
    PROVE  /\ reading = {} /\ reading' = {} /\ UNCHANGED <<file, clean>>
           /\ Sound(file)' /\ Sound(reading)' /\ Apart'
  <1>1. /\ reading = {} /\ reading' = {} /\ UNCHANGED <<file, clean>>
        /\ made' \in {made, made + 1}
    BY DEF ItemsChange, Ready, CreateItem, DestroyItem, UnsealSpray, PrepareCasketForNaming,
           DepositItemToStorage, WithdrawItemFromStorage
  <1>2. \A e \in file : e.item.born \in 1..made'
    BY <1>1 DEF IInv, Core, Types, Sound
  <1> QED BY <1>1, <1>2 DEF IInv, Sound, Apart

\* What was made and not removed is there.
LEMMA AliveStep ==
    ASSUME IInv, ItemsChange
    PROVE  Alive'
  <1>1. reading = {} /\ reading' = {}
    BY FileStep
  <1>2. alive = {items[i].born : i \in Held}
    BY <1>1 DEF IInv, Alive, Births
  <1> SUFFICES alive' = {items'[i].born : i \in Held'}
    BY <1>1 DEF Alive, Births
  <1>3. ASSUME NEW casket \in BOOLEAN, CreateItem(casket)
        PROVE  alive' = {items'[i].born : i \in Held'}
    <2>1. PICK n : n = lastHighId + 1
      OBVIOUS
    <2>core. Core
      BY DEF IInv
    <2>2. /\ Held' = Held \cup {n} /\ n \notin Held
          /\ items'[n] = [casket |-> casket, count |-> none, storedIn |-> 0, born |-> made + 1, home |-> 0]
          /\ made' = made + 1
          /\ \A i \in Held : items'[i] = items[i]
      BY <1>3, <2>core, <2>1, Creating
    <2>3. alive' = alive \cup {made'}
      BY <1>3 DEF CreateItem
    <2> QED BY <1>2, <2>2, <2>3
  <1>4. ASSUME NEW i \in Held, DestroyItem(i)
        PROVE  alive' = {items'[j].born : j \in Held'}
    <2>1. /\ Held' = Held \ {i} /\ alive' = alive \ {items[i].born}
          /\ \A j \in Held' : items'[j] = items[j]
      BY <1>4 DEF DestroyItem, Held
    <2>2. \A j \in Held : items[j].born = items[i].born => j = i
      BY DEF IInv, Core, Born
    <2> QED BY <1>2, <2>1, <2>2
  <1>5. ASSUME NEW i \in Held, UnsealSpray(i)
        PROVE  alive' = {items'[j].born : j \in Held'}
    <2>1. PICK n : n = lastHighId + 1
      OBVIOUS
    <2>2. /\ Held' = (Held \ {i}) \cup {n} /\ n \notin Held
          /\ items'[n] = [items[i] EXCEPT !.born = made + 1] /\ made' = made + 1
          /\ \A j \in Held \ {i} : items'[j] = items[j]
      BY <1>5, <2>1, Unsealing DEF IInv
    <2>3. items'[n].born = made'
      BY <2>2 DEF IInv, Core, Types, Item
    <2>4. alive' = (alive \ {items[i].born}) \cup {made'}
      BY <1>5 DEF UnsealSpray
    <2>5. \A j \in Held : items[j].born = items[i].born => j = i
      BY DEF IInv, Core, Born
    <2>6. {items[j].born : j \in Held \ {i}} = alive \ {items[i].born}
      BY <1>2, <2>5
    <2>7. {items'[j].born : j \in Held'} = {items[j].born : j \in Held \ {i}} \cup {made'}
      BY <2>2, <2>3
    <2> QED BY <2>4, <2>6, <2>7
  <1>6. ASSUME NEW c \in Held, NEW i \in Held,
               \/ PrepareCasketForNaming(c)
               \/ DepositItemToStorage(c, i)
               \/ WithdrawItemFromStorage(c, i)
        PROVE  alive' = {items'[j].born : j \in Held'}
    <2>1. alive' = alive
      BY <1>6 DEF PrepareCasketForNaming, DepositItemToStorage, WithdrawItemFromStorage
    <2>2. \A j \in Held : items[j] \in Item
      BY DEF IInv, Core, Types
    <2>3. CASE PrepareCasketForNaming(c)
      <3>1. Held' = Held /\ \A j \in Held : items'[j].born = items[j].born
        BY <2>2, <2>3 DEF PrepareCasketForNaming, Held, Item
      <3> QED BY <1>2, <2>1, <3>1
    <2>4. CASE DepositItemToStorage(c, i)
      <3>1. Held' = Held /\ \A j \in Held : items'[j].born = items[j].born
        BY <2>2, <2>4 DEF DepositItemToStorage, Held, Item
      <3> QED BY <1>2, <2>1, <3>1
    <2>5. CASE WithdrawItemFromStorage(c, i)
      <3>1. Held' = Held /\ \A j \in Held : items'[j].born = items[j].born
        BY <2>2, <2>5 DEF WithdrawItemFromStorage, Held, Item
      <3> QED BY <1>2, <2>1, <3>1
    <2> QED BY <1>6, <2>3, <2>4, <2>5
  <1> QED
    BY <1>3, <1>4, <1>5, <1>6 DEF ItemsChange

\* An inventory is what its file should be.
LEMMA FileOfInventory ==
    /\ Core => Sound(Written)
    /\ Core /\ Tied => Consistent(Written)
  <1>1. \A e \in Written : e.id \in Held /\ e.item = items[e.id] /\ e = [id |-> e.id, item |-> items[e.id]]
    BY DEF Written
  <1>2. \A i \in Held : [id |-> i, item |-> items[i]] \in Written
    BY DEF Written
  <1>3. ASSUME Core PROVE Sound(Written)
    <2>1. Written \subseteq Entry
      BY <1>1, <1>3 DEF Core, Types, Entry
    <2>2. \A e, g \in Written : e.item.born = g.item.born => e = g
      BY <1>1, <1>3 DEF Core, Born
    <2> QED BY <1>1, <1>3, <2>1, <2>2 DEF Core, NoNesting, Born, Sound
  <1>4. ASSUME Core, Tied PROVE Consistent(Written)
    <2>1. \A e \in Written : e.id \in 1..MaxId
      BY <1>1, <1>4 DEF Core, Types
    <2>2. \A e, g \in Written : e.id = g.id => e = g
      BY <1>1
    <2>3. ASSUME NEW c \in Held
          PROVE  Inside(Written, c) = Contents(c)
      <3>1. ASSUME NEW i \in Inside(Written, c) PROVE i \in Contents(c)
        BY <1>1, <3>1 DEF Inside, Contents
      <3>2. ASSUME NEW i \in Contents(c) PROVE i \in Inside(Written, c)
        <4>1. i \in Held /\ i \in 1..MaxId /\ items[i].storedIn = c
          BY <1>4, <3>2 DEF Core, Types, Contents
        <4> QED BY <1>2, <4>1 DEF Inside
      <3> QED BY <3>1, <3>2
    <2>4. \A c \in Written : c.item.casket =>
            /\ c.item.count = none => Inside(Written, c.id) = {}
            /\ c.item.count # none => /\ Cardinality(Inside(Written, c.id)) <= c.item.count
                                      /\ c.item.count <= Capacity
      BY <1>1, <1>4, <2>3 DEF Tied, Counted
    <2>5. \A e, c \in Written : e.item.storedIn = c.id => /\ e.item.home = c.item.born
                                                          /\ c.item.casket
      BY <1>1, <1>4 DEF Tied, Meaning
    <2> QED BY <2>1, <2>2, <2>4, <2>5 DEF Consistent
  <1> QED BY <1>3, <1>4

\* Part of a clean file is as consistent as the whole, and all of it as an inventory.
LEMMA PartOfFile ==
    ASSUME Core', Consistent(file)', Partly'
    PROVE  Counted' /\ Meaning' /\ (reading' = {} => Below')
  <1>1. \A i \in Held' : /\ [id |-> i, item |-> items'[i]] \in file'
                         /\ i \in 1..MaxId /\ i <= lastHighId'
    BY DEF Partly, Written, Core, Types, Ids
  <1>2. Meaning'
    <2>1. ASSUME NEW i \in Held', NEW c \in Held', items'[i].storedIn = c
          PROVE  items'[i].home = items'[c].born /\ items'[c].casket
      <3> DEFINE e == [id |-> i, item |-> items'[i]]
                 g == [id |-> c, item |-> items'[c]]
      <3>1. e \in file' /\ g \in file' /\ e.item.storedIn = g.id
        BY <1>1, <2>1
      <3>2. e.item.home = g.item.born /\ g.item.casket
        BY <3>1 DEF Consistent
      <3> QED BY <3>2
    <2> QED BY <2>1 DEF Meaning
  <1>3. Counted'
    <2>1. ASSUME NEW c \in Held', items'[c].casket
          PROVE  /\ items'[c].count = none => Contents(c)' = {}
                 /\ items'[c].count # none => /\ Cardinality(Contents(c)') <= items'[c].count
                                              /\ items'[c].count <= Capacity
      <3> DEFINE g == [id |-> c, item |-> items'[c]]
                 inside == Inside(file, c)'
      <3>1. g \in file' /\ g.item.casket
        BY <1>1, <2>1
      <3>2. /\ items'[c].count = none => inside = {}
            /\ items'[c].count # none => /\ Cardinality(inside) <= items'[c].count
                                         /\ items'[c].count <= Capacity
        BY <3>1 DEF Consistent
      <3>3. Contents(c)' \subseteq inside
        <4>1. ASSUME NEW i \in Contents(c)' PROVE i \in inside
          <5>1. i \in Held' /\ items'[i].storedIn = c
            BY <4>1 DEF Contents
          <5> QED BY <1>1, <5>1 DEF Inside
        <4> QED BY <4>1
      <3>4. /\ Cardinality(Contents(c)') <= Cardinality(inside)
            /\ Cardinality(Contents(c)') \in Nat /\ Cardinality(inside) \in Nat
        <4>1. IsFiniteSet(inside)
          <5>1. inside \subseteq 1..MaxId BY DEF Inside
          <5>2. IsFiniteSet(1..MaxId) BY Bounds, FS_Interval
          <5> HIDE DEF inside
          <5> QED BY <5>1, <5>2, FS_Subset
        <4> QED BY <3>3, <4>1, FS_Subset, FS_CardinalityType
      <3>5. items'[c].count \in Nat \cup {none}
        BY <2>1 DEF Core, Types, Item
      <3> HIDE DEF inside
      <3> QED BY <3>2, <3>3, <3>4, <3>5, Bounds
    <2> QED BY <2>1 DEF Counted
  <1>4. ASSUME reading' = {} PROVE Below'
    <2>1. ASSUME NEW i \in Held'
          PROVE  items'[i].storedIn <= lastHighId'
      <3>1. lastHighId' \in Nat
        BY DEF Core, Types
      <3>2. CASE items'[i].storedIn = 0
        BY <3>1, <3>2
      <3>3. CASE items'[i].storedIn # 0
        <4>1. PICK g \in file' : items'[i].storedIn = g.id
          BY <1>1, <3>3 DEF Partly, Resolves
        <4>2. g.id \in Held'
          BY <1>4, <4>1 DEF Partly, Written
        <4> QED BY <1>1, <4>1, <4>2
      <3> QED BY <3>2, <3>3
    <2> QED BY <2>1 DEF Below
  <1> QED BY <1>2, <1>3, <1>4

\* Reading an entry: its item gets a free id, its own if the file is the program's.
LEMMA ReadStep ==
    ASSUME IInv, NEW e \in reading, ReadFromFile(e)
    PROVE  IInv'
  <1>1. PICK id \in 1..MaxId :
          /\ AllocateItem(e.id, id)
          /\ items' = [i \in Held \cup {id} |-> IF i = id THEN e.item ELSE items[i]]
    BY DEF ReadFromFile
  <1>2. reading' = reading \ {e} /\ UNCHANGED <<file, made, alive, clean>>
    BY DEF ReadFromFile
  <1>3. /\ e \in Entry /\ e.id \in Nat /\ e.item \in Item
        /\ e.item.casket => e.item.storedIn = 0
        /\ e.item.born \in 1..made
        /\ \A g \in reading : g.item.born = e.item.born => g = e
        /\ \A i \in Held : items[i].born # e.item.born
    BY DEF IInv, Sound, Entry, Apart
  <1>4. /\ Held' = Held \cup {id}
        /\ items' = [i \in Held' |-> items'[i]]
        /\ items'[id] = e.item
        /\ \A i \in Held : items'[i] = items[i]
        /\ id \notin Held
    <2>1. id \notin Held
      BY <1>1 DEF AllocateItem
    <2> QED BY <1>1, <2>1 DEF Held
  <1>5. /\ lastHighId' \in 0..MaxId /\ lastHighId <= lastHighId' /\ id <= lastHighId'
        /\ lastHighId \in Nat
    BY <1>1, Bounds DEF AllocateItem, IInv, Core, Types
  <1>6. Core'
    <2>1. Types'
      <3>1. \A i \in Held' : items'[i] \in Item
        BY <1>3, <1>4 DEF IInv, Core, Types
      <3>2. items' \in [Held' -> Item]
        BY <1>4, <3>1
      <3> QED BY <1>2, <1>4, <1>5, <3>2 DEF IInv, Core, Types
    <2>2. Ids'
      <3>1. \A i \in Held : i \in Nat /\ i <= lastHighId
        BY DEF IInv, Core, Types, Ids
      <3> QED BY <1>4, <1>5, <3>1 DEF Ids
    <2>3. NoNesting'
      BY <1>3, <1>4 DEF IInv, Core, NoNesting
    <2>4. Born'
      BY <1>2, <1>3, <1>4 DEF IInv, Core, Born
    <2> QED BY <2>1, <2>2, <2>3, <2>4 DEF Core
  <1>7. Sound(file)' /\ Sound(reading)'
    BY <1>2 DEF IInv, Sound
  <1>8. Apart'
    BY <1>2, <1>3, <1>4 DEF IInv, Apart
  <1>9. Alive'
    <2>1. alive = {items[i].born : i \in Held} \cup {g.item.born : g \in reading}
      BY DEF IInv, Alive, Births
    <2>2. {items'[i].born : i \in Held'} = {items[i].born : i \in Held} \cup {e.item.born}
      BY <1>4
    <2>3. {g.item.born : g \in reading} = {g.item.born : g \in reading'} \cup {e.item.born}
      BY <1>2
    <2>4. alive' = {items'[i].born : i \in Held'} \cup {g.item.born : g \in reading'}
      BY <1>2, <2>1, <2>2, <2>3
    <2> QED BY <2>4 DEF Alive, Births
  <1>10. clean' \in BOOLEAN /\ clean' = clean
    BY <1>2 DEF IInv
  <1>11. ASSUME clean PROVE Consistent(file)' /\ Partly'
    <2>1. Consistent(file)'
      BY <1>2, <1>11 DEF IInv, Consistent, Inside
    <2>2. Partly /\ Consistent(file)
      BY <1>11 DEF IInv
    <2>3. e.id \in 1..MaxId /\ e.id \notin Held
      BY <2>2 DEF Partly, Consistent
    <2>4. id = e.id
      <3>1. /\ id >= e.id
            /\ \A j \in 1..MaxId : e.id <= j /\ j < id => j \in Held
        BY <1>1, <2>3, Bounds DEF AllocateItem
      <3> QED BY <2>3, <3>1, Bounds
    <2>5. Written' = Written \cup {e}
      <3>1. e = [id |-> e.id, item |-> e.item]
        BY <1>3 DEF Entry
      <3>2. Written' = {[id |-> i, item |-> items'[i]] : i \in Held'}
        BY DEF Written
      <3> QED BY <1>4, <2>4, <3>1, <3>2 DEF Written
    <2>6. Written' \cup reading' = file'
      BY <1>2, <2>2, <2>5 DEF Partly
    <2>7. \A g \in reading' : g.id \notin Held'
      <3>1. \A g \in reading : g \in file
        BY <2>2 DEF Partly
      <3>2. \A g \in reading : g.id = e.id => g = e
        BY <2>2, <3>1 DEF Consistent
      <3> QED BY <1>2, <1>4, <2>2, <2>4, <3>2 DEF Partly
    <2>8. Resolves(file)'
      BY <1>2, <2>2 DEF Partly, Resolves
    <2> QED BY <2>1, <2>6, <2>7, <2>8 DEF Partly
  <1>12. clean' => /\ Consistent(file)' /\ Partly' /\ Counted' /\ Meaning'
                   /\ reading' = {} => Below'
    BY <1>6, <1>10, <1>11, PartOfFile
  <1> QED BY <1>6, <1>7, <1>8, <1>9, <1>10, <1>12 DEF IInv

\* A session begins with its file unread.
LEMMA RestartStep ==
    ASSUME IInv, Restart
    PROVE  IInv'
  <1>1. PICK saved \in {Written, file} :
          /\ file' = saved /\ reading' = saved /\ alive' = Births(saved)
          /\ clean' = (clean /\ \A e \in saved : \/ e.item.storedIn = 0
                                                 \/ \E g \in saved : e.item.storedIn = g.id)
    BY DEF Restart
  <1>2. /\ items' = <<>> /\ lastHighId' = 0 /\ made' = made /\ reading = {}
        /\ Held' = {} /\ Written' = {}
    BY DEF Restart, Held, Written
  <1>3. Sound(saved) /\ (clean => Consistent(saved))
    BY <1>2, FileOfInventory DEF IInv, Tied
  <1>4. Core'
    BY <1>2, Bounds DEF IInv, Core, Types, Ids, NoNesting, Born
  <1>5. Sound(file)' /\ Sound(reading)'
    BY <1>1, <1>2, <1>3 DEF Sound
  <1>6. Apart' /\ Alive'
    BY <1>1, <1>2 DEF Apart, Alive, Births
  <1>7. clean' \in BOOLEAN /\ (clean' => clean)
    BY <1>1 DEF IInv
  <1>8. ASSUME clean' PROVE Consistent(file)' /\ Partly'
    <2>1. Consistent(file)'
      <3>1. Consistent(saved) /\ file' = saved
        BY <1>1, <1>3, <1>7, <1>8
      <3>2. \A c : Inside(saved, c) = Inside(file, c)'
        BY <3>1 DEF Inside
      <3> QED BY <3>1, <3>2 DEF Consistent
    <2>2. Resolves(file)'
      BY <1>1, <1>8 DEF Resolves
    <2> QED BY <1>1, <1>2, <2>1, <2>2 DEF Partly
  <1>9. clean' => /\ Consistent(file)' /\ Partly' /\ Counted' /\ Meaning'
                  /\ reading' = {} => Below'
    BY <1>4, <1>8, PartOfFile
  <1> QED BY <1>4, <1>5, <1>6, <1>7, <1>9 DEF IInv

LEMMA Inductive ==
    ASSUME IInv, [Next]_vars
    PROVE  IInv'
  <1>1. CASE ItemsChange
    <2>1. Core' /\ (Tied => Tied')
      BY <1>1, ItemStep DEF IInv
    <2>2. /\ reading = {} /\ reading' = {} /\ UNCHANGED <<file, clean>>
          /\ Sound(file)' /\ Sound(reading)' /\ Apart'
      BY <1>1, FileStep
    <2>3. Alive'
      BY <1>1, AliveStep
    <2>4. Consistent(file) => Consistent(file)'
      BY <2>2 DEF Consistent, Inside
    <2> QED BY <2>1, <2>2, <2>3, <2>4 DEF IInv, Tied
  <1>2. CASE Save
    <2>1. /\ file' = Written /\ reading = {} /\ reading' = {}
          /\ UNCHANGED <<items, lastHighId, made, alive, clean>>
      BY <1>2 DEF Save, Ready
    <2>2. Core' /\ (Tied => Tied')
      BY <2>1 DEF IInv, Core, Types, Ids, NoNesting, Born, Tied, Below, Counted, Meaning,
                  Held, Contents
    <2>3. Sound(file)' /\ Sound(reading)'
      BY <2>1, FileOfInventory DEF IInv, Sound
    <2>4. Apart' /\ Alive'
      BY <2>1 DEF IInv, Apart, Alive, Births, Held
    <2>5. Core /\ Tied => Consistent(file)'
      BY <2>1, FileOfInventory DEF Consistent, Inside
    <2> QED BY <2>1, <2>2, <2>3, <2>4, <2>5 DEF IInv, Tied
  <1>3. CASE UNCHANGED vars
    <2>1. UNCHANGED <<items, lastHighId, file, reading, made, alive, clean>>
      BY <1>3 DEF vars
    <2>2. Core' /\ Sound(file)' /\ Sound(reading)' /\ Apart' /\ Alive'
      BY <2>1 DEF IInv, Core, Types, Ids, NoNesting, Born, Held, Sound, Apart, Alive, Births
    <2>3. clean => Counted' /\ Meaning' /\ (reading' = {} => Below')
      BY <2>1 DEF IInv, Counted, Meaning, Below, Held, Contents
    <2>4. clean => Consistent(file)' /\ (reading' # {} => Partly')
      BY <2>1 DEF IInv, Consistent, Inside, Partly, Written, Resolves, Held
    <2> QED BY <2>1, <2>2, <2>3, <2>4 DEF IInv
  <1> QED
    BY <1>1, <1>2, <1>3, ReadStep, RestartStep DEF Next, ItemsChange

LEMMA Initial == Init => IInv
  <1> SUFFICES ASSUME Init PROVE IInv
    OBVIOUS
  <1>1. /\ items = <<>> /\ lastHighId = 0 /\ Held = {}
        /\ file \in FirstFiles /\ reading = file
        /\ made = Cardinality(file) /\ alive = Births(file) /\ clean = (file = {})
    BY DEF Init, Held
  <1>2. /\ file \subseteq Entry
        /\ IsFiniteSet(file) /\ Cardinality(file) <= MaxId
        /\ \A e \in file : /\ e.item.casket => e.item.storedIn = 0
                           /\ e.item.born \in 1..Cardinality(file)
        /\ \A e, g \in file : e.item.born = g.item.born => e = g
    BY <1>1, StorageAssumption
  <1>3. made \in 0..MaxId
    BY <1>1, <1>2, Bounds, FS_CardinalityType
  <1>4. Core
    BY <1>1, <1>3, Bounds DEF Core, Types, Ids, NoNesting, Born
  <1>5. Sound(file) /\ Sound(reading)
    BY <1>1, <1>2 DEF Sound
  <1>6. Apart /\ Alive
    BY <1>1 DEF Apart, Alive
  <1>7. ASSUME clean PROVE Consistent(file) /\ Counted /\ Meaning /\ Below /\ reading = {}
    BY <1>1, <1>7 DEF Consistent, Counted, Meaning, Below
  <1> QED
    BY <1>1, <1>4, <1>5, <1>6, <1>7 DEF IInv

LEMMA InvariantHolds == Spec => []IInv
  BY Initial, Inductive, PTL DEF Spec

-------------------------------------------------------------------------------
\* What the code keeps in its map, its counters and its file is of the right type.
THEOREM TypeCorrect == Spec => []TypeOK
  <1>1. Init => restarts \in Nat
    BY DEF Init
  <1>2. ASSUME restarts \in Nat, [Next]_vars
        PROVE  (restarts \in Nat)'
    <2>1. CASE ItemsChange
      BY <1>2, <2>1 DEF ItemsChange, CreateItem, DestroyItem, UnsealSpray, PrepareCasketForNaming,
                        DepositItemToStorage, WithdrawItemFromStorage
    <2>2. CASE Save \/ (\E e \in reading : ReadFromFile(e)) \/ UNCHANGED vars
      BY <1>2, <2>2 DEF Save, ReadFromFile, vars
    <2>3. CASE Restart
      BY <1>2, <2>3 DEF Restart
    <2> QED BY <1>2, <2>1, <2>2, <2>3 DEF Next, ItemsChange
  <1>3. ASSUME IInv, restarts \in Nat
        PROVE  TypeOK
    <2>1. /\ Held \subseteq 1..MaxId /\ items \in [Held -> Item]
          /\ lastHighId \in 0..MaxId /\ made \in 0..MaxId
      BY <1>3 DEF IInv, Core, Types
    <2>2. file \subseteq Entry /\ reading \subseteq Entry
      BY <1>3 DEF IInv, Sound
    <2>3. clean \in BOOLEAN
      BY <1>3 DEF IInv
    <2>4. alive \subseteq 1..MaxId
      <3>1. \A n \in 1..made : n \in 1..MaxId
        BY <2>1, Bounds
      <3>2. /\ \A i \in Held : items[i].born \in 1..made
            /\ \A e \in reading : e.item.born \in 1..made
        BY <1>3 DEF IInv, Core, Born, Sound
      <3> QED BY <1>3, <3>1, <3>2 DEF IInv, Alive, Births
    <2> QED BY <1>3, <2>1, <2>2, <2>3, <2>4 DEF TypeOK
  <1>4. Spec => [](restarts \in Nat)
    BY <1>1, <1>2, PTL DEF Spec
  <1> QED BY <1>3, <1>4, InvariantHolds, PTL

\* What was made and not removed is there: no item takes the place of another, over
\* restarts and crashes, and whatever numbers the entries of the first file had.
THEOREM Unique == Spec => []NothingIsOverwritten
  <1>1. IInv => NothingIsOverwritten
    BY DEF IInv, Core, Ids, Born, Alive, NothingIsOverwritten
  <1> QED BY <1>1, InvariantHolds, PTL

\* ModifyStorageCounter never refuses to let an item out of a casket that exists, and
\* what is really inside never exceeds the capacity.
THEOREM WithdrawalsSucceed == Spec => []ContentsCounted
  <1>1. IInv => ContentsCounted
    BY DEF IInv, Counted, ContentsCounted
  <1> QED BY <1>1, InvariantHolds, PTL

\* What an item's reference names is the casket it was put into, or nothing any more,
\* although ids of deleted caskets live on in references.
THEOREM ReferencesKept == Spec => []ReferencesKeepTheirMeaning
  <1>1. IInv => ReferencesKeepTheirMeaning
    BY DEF IInv, Core, NoNesting, Meaning, ReferencesKeepTheirMeaning
  <1> QED BY <1>1, InvariantHolds, PTL
===============================================================================

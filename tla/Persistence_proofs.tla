-------------------------- MODULE Persistence_proofs --------------------------
(***************************************************************************)
(* For any file, any configuration and any number of coordinators: what a  *)
(* durable operation reported survives a crash, one whose save fails       *)
(* leaves no trace, no save drops an item that was not removed, and a game *)
(* that has fetched everything holds the inventory.                        *)
(*                                                                         *)
(* The argument: a durable operation, whatever it does on the way, is one  *)
(* of two atomic steps (Outcome): everything is in the file and in memory, *)
(* or nothing has changed.  What is in the file and not in memory has been *)
(* removed since the file was read (Accounted).  What an operation         *)
(* announces takes a cache with the old inventory to one with the new      *)
(* inventory (Told), however long the announcement is.                     *)
(***************************************************************************)
EXTENDS Persistence, FiniteSetTheorems, TLAPS

\* The items the code makes: a weapon has its counter from the start, and nothing is
\* counted on a subscription.
Sane ==
    {item \in Item :
        /\ item.def = "weapon" => item.attr # none
        /\ item.def = "subscription" => item.attr = none /\ item.spray = 0}

Good(its, n) == DOMAIN its \subseteq 1..n /\ its \in [DOMAIN its -> Sane]

Seasons == Cards \cup {NoCard, none}

Kinds ==
    /\ lastId \in 0..MaxId
    /\ Good(items, lastId)
    /\ level \in 1..MaxLevel
    /\ season \in Seasons
    /\ favorites \subseteq Events
    /\ removed \subseteq 1..lastId

Process ==
    /\ version \in 0..MaxVersion /\ nextVersion \in 0..MaxVersion
    /\ saveEnabled \in BOOLEAN /\ running \in BOOLEAN /\ hidden \in BOOLEAN
    /\ configured \in Configs
    /\ creations \in 0..MaxCreations

FileKinds ==
    file # none =>
        /\ Good(file.items, MaxId)
        /\ file.level \in 1..MaxLevel
        /\ file.season \in Seasons
        /\ file.favorites \subseteq Events

\* Of the item x with id i, what a file with these items gives back: all but whether it
\* was acknowledged.
Kept(x, i, its) == IF i \in DOMAIN its THEN its[i] ELSE NewItem(x.def)
Survives(x, i, its) == x = [Kept(x, i, its) EXCEPT !.placed = x.placed]

Durable ==
    running =>
        LET read == Loaded(IF saveEnabled THEN file ELSE none, configured) IN
        /\ level = read.level
        /\ season = read.season
        /\ favorites = read.favorites
        /\ \A i \in Held : Survives(items[i], i, read.items)

\* What is in the file and not in memory was removed.
Accounted ==
    running /\ saveEnabled /\ file # none => DOMAIN file.items \ removed \subseteq Held

IInv == Kinds /\ Process /\ FileKinds /\ Durable /\ Accounted

-------------------------------------------------------------------------------
(* Items, and what the operations do to a map of them and undo.            *)

LEMMA NewItemSane == ASSUME NEW def \in Defs PROVE NewItem(def) \in Sane
  <1>1. 0 \in 0..(Word - 1) /\ none # 0
    BY PersistenceAssumption, NoneAssumption
  <1> QED
    BY <1>1 DEF NewItem, Sane, Item

LEMMA Restored ==
    ASSUME NEW x \in Sane, NEW def
    PROVE  [[x EXCEPT !.def = def] EXCEPT !.def = x.def] = x
  BY DEF Sane, Item

LEMMA Promoted ==
    ASSUME NEW x \in Sane PROVE [x EXCEPT !.def = "medal2"] \in Sane
  BY DEF Sane, Item, Defs

LEMMA Counted ==
    ASSUME NEW x \in Sane, x.def # "subscription", NEW a \in 0..(Word - 1)
    PROVE  [x EXCEPT !.attr = a] \in Sane /\ [x EXCEPT !.attr = a].def = x.def
  BY NoneAssumption DEF Sane, Item

LEMMA Sprayed ==
    ASSUME NEW x \in Sane, x.def # "subscription", NEW s \in 0..1
    PROVE  [x EXCEPT !.spray = s] \in Sane
  BY DEF Sane, Item

LEMMA Acknowledged ==
    ASSUME NEW x \in Sane, NEW b \in BOOLEAN
    PROVE  [x EXCEPT !.placed = b] \in Sane
  BY DEF Sane, Item

LEMMA SurvivesItself ==
    ASSUME NEW i, NEW its, i \in DOMAIN its, its[i] \in Sane
    PROVE  Survives(its[i], i, its)
  BY DEF Survives, Kept, Sane, Item

\* What is neither in the file nor ever changed is as it was made.
LEMMA SurvivesNew ==
    ASSUME NEW x \in Sane, NEW i, NEW its, i \notin DOMAIN its,
           x = [NewItem(x.def) EXCEPT !.placed = x.placed]
    PROVE  Survives(x, i, its)
  BY DEF Survives, Kept

LEMMA SubscriptionIsNew ==
    ASSUME NEW x \in Sane, x.def = "subscription"
    PROVE  x = [NewItem(x.def) EXCEPT !.placed = x.placed]
  BY DEF Sane, Item, NewItem

LEMMA NewIsNew ==
    ASSUME NEW def \in Defs
    PROVE  /\ NewItem(def).def = def
           /\ NewItem(def) = [NewItem(NewItem(def).def) EXCEPT !.placed = NewItem(def).placed]
  BY DEF NewItem

\* The player's acknowledgement is all that may change without a save.
LEMMA SurvivesPlaced ==
    ASSUME NEW x \in Sane, NEW i, NEW its, i \in DOMAIN its => its[i] \in Sane,
           Survives(x, i, its), NEW b \in BOOLEAN, NEW y, y = [x EXCEPT !.placed = b]
    PROVE  Survives(y, i, its)
  <1> DEFINE k == Kept(x, i, its)
  <1>1. k \in Item
    <2>1. x.def \in Defs
      BY DEF Sane, Item
    <2>2. NewItem(x.def) \in Sane
      BY <2>1, NewItemSane
    <2> QED
      BY <2>2 DEF Kept, Sane
  <1>2. y.def = x.def /\ y.placed = b
    BY DEF Sane, Item
  <1>3. Kept(y, i, its) = k
    BY <1>2 DEF Kept
  <1>4. x = [k EXCEPT !.placed = x.placed]
    BY DEF Survives
  <1> HIDE DEF k
  <1>5. y = [k EXCEPT !.placed = b]
    BY <1>1, <1>4 DEF Item
  <1> QED
    BY <1>2, <1>3, <1>5 DEF Survives

\* What a file gives back.
LEMMA Deduplicated ==
    ASSUME NEW its, NEW n \in Nat, Good(its, n)
    PROVE  /\ Good(DeduplicateStatsSubscriptions(its), n)
           /\ DOMAIN DeduplicateStatsSubscriptions(its) = DOMAIN its \ Superseded(its)
           /\ \A i \in DOMAIN its \ Superseded(its) :
                DeduplicateStatsSubscriptions(its)[i] = its[i]
           /\ Superseded(its) \subseteq DOMAIN its
           /\ \A i \in Superseded(its) : its[i].def = "subscription"
  BY DEF Good, DeduplicateStatsSubscriptions, Superseded

LEMMA Dropped ==
    ASSUME NEW g, g = [j \in DOMAIN g |-> g[j]], NEW m, m \notin DOMAIN g,
           NEW f, DOMAIN f = DOMAIN g \cup {m}, \A j \in DOMAIN g : f[j] = g[j]
    PROVE  Without(f, m) = g
  <1>1. (DOMAIN f) \ {m} = DOMAIN g
    OBVIOUS
  <1>2. Without(f, m) = [j \in DOMAIN g |-> f[j]]
    BY <1>1 DEF Without
  <1> QED
    BY <1>2

LEMMA Added ==
    ASSUME NEW its, NEW n \in Nat, Good(its, n), NEW x \in Sane
    PROVE  /\ DOMAIN With(its, n + 1, x) = DOMAIN its \cup {n + 1}
           /\ Good(With(its, n + 1, x), n + 1)
           /\ Without(With(its, n + 1, x), n + 1) = its
  <1>1. n + 1 \notin DOMAIN its /\ its = [j \in DOMAIN its |-> its[j]]
    BY DEF Good
  <1>2. With(its, n + 1, x) = [j \in DOMAIN its \cup {n + 1} |-> IF j = n + 1 THEN x ELSE its[j]]
    BY DEF With
  <1>3. Good(With(its, n + 1, x), n + 1)
    BY <1>1, <1>2 DEF Good
  <1>4. Without(With(its, n + 1, x), n + 1) = its
    <2>1. /\ DOMAIN With(its, n + 1, x) = DOMAIN its \cup {n + 1}
          /\ \A j \in DOMAIN its : With(its, n + 1, x)[j] = its[j]
      BY <1>1, <1>2
    <2> QED
      BY <1>1, <2>1, Dropped
  <1> QED
    BY <1>1, <1>2, <1>3, <1>4

LEMMA Taken ==
    ASSUME NEW its, NEW n \in Nat, Good(its, n), NEW i \in DOMAIN its
    PROVE  /\ DOMAIN Without(its, i) = DOMAIN its \ {i}
           /\ Good(Without(its, i), n)
           /\ With(Without(its, i), i, its[i]) = its
  <1>1. its = [j \in DOMAIN its |-> its[j]]
    BY DEF Good
  <1> QED
    BY <1>1 DEF Good, With, Without

\* One comes, one goes, and back again in either order.
LEMMA Exchanged ==
    ASSUME NEW its, NEW n \in Nat, Good(its, n), NEW x \in Sane, NEW i \in DOMAIN its,
           NEW after, after = Without(With(its, n + 1, x), i)
    PROVE  /\ DOMAIN after = (DOMAIN its \cup {n + 1}) \ {i}
           /\ Good(after, n + 1)
           /\ With(Without(after, n + 1), i, its[i]) = its
           /\ Without(With(after, i, its[i]), n + 1) = its
  <1>1. n + 1 \notin DOMAIN its /\ its = [j \in DOMAIN its |-> its[j]] /\ n + 1 # i
    BY DEF Good
  <1>2. after = [j \in (DOMAIN its \cup {n + 1}) \ {i} |-> IF j = n + 1 THEN x ELSE its[j]]
    BY DEF With, Without
  <1>3. Good(after, n + 1)
    BY <1>1, <1>2 DEF Good
  <1>4. With(Without(after, n + 1), i, its[i]) = its
    <2>1. Without(after, n + 1) = [j \in DOMAIN its \ {i} |-> its[j]]
      BY <1>1, <1>2 DEF Without
    <2>2. With(Without(after, n + 1), i, its[i]) = [j \in DOMAIN its |-> its[j]]
      BY <2>1 DEF With
    <2> QED
      BY <1>1, <2>2
  <1>5. Without(With(after, i, its[i]), n + 1) = its
    <2>1. With(after, i, its[i])
          = [j \in DOMAIN its \cup {n + 1} |-> IF j = n + 1 THEN x ELSE its[j]]
      BY <1>1, <1>2 DEF With
    <2>2. /\ DOMAIN With(after, i, its[i]) = DOMAIN its \cup {n + 1}
          /\ \A j \in DOMAIN its : With(after, i, its[i])[j] = its[j]
      BY <1>1, <2>1
    <2> QED
      BY <1>1, <2>2, Dropped
  <1> QED
    BY <1>2, <1>3, <1>4, <1>5

LEMMA Changed ==
    ASSUME NEW its, NEW n \in Nat, Good(its, n), NEW i \in DOMAIN its, NEW x \in Sane
    PROVE  /\ DOMAIN [its EXCEPT ![i] = x] = DOMAIN its
           /\ Good([its EXCEPT ![i] = x], n)
           /\ [[its EXCEPT ![i] = x] EXCEPT ![i] = its[i]] = its
  BY DEF Good

\* One is changed, another goes, and back again.
Put(f, k, x) == [f EXCEPT ![k] = x]

LEMMA ChangedAndTaken ==
    ASSUME NEW its, NEW n \in Nat, Good(its, n), NEW i \in DOMAIN its, NEW k \in DOMAIN its,
           i # k, NEW x \in Sane
    PROVE  /\ DOMAIN Without(Put(its, k, x), i) = DOMAIN its \ {i}
           /\ Good(Without(Put(its, k, x), i), n)
           /\ Put(With(Without(Put(its, k, x), i), i, its[i]), k, its[k]) = its
  <1> DEFINE after == Without(Put(its, k, x), i)
  <1>1. its = [j \in DOMAIN its |-> its[j]]
    BY DEF Good
  <1>2. after = [j \in DOMAIN its \ {i} |-> IF j = k THEN x ELSE its[j]]
    BY <1>1 DEF Without, Put
  <1>3. Good(after, n)
    BY <1>1, <1>2 DEF Good
  <1>4. With(after, i, its[i]) = [j \in DOMAIN its |-> IF j = k THEN x ELSE its[j]]
    BY <1>2 DEF With
  <1>5. Put(With(after, i, its[i]), k, its[k]) = [j \in DOMAIN its |-> its[j]]
    BY <1>4 DEF Put
  <1> QED
    BY <1>1, <1>2, <1>3, <1>5

-------------------------------------------------------------------------------
(* A durable operation is one of two steps.                                *)

Saved ==
    /\ saveEnabled
    /\ file' = Content(items', level', season', favorites')
    /\ Kinds' /\ (version \in 0..MaxVersion)'
    /\ Held \subseteq (Held \cup removed)' /\ removed \subseteq removed'

NoTrace == UNCHANGED <<memory, version, sent, file, removed>>

Outcome(saved) ==
    /\ running /\ UNCHANGED <<process, hidden>>
    /\ IF saved THEN Saved ELSE NoTrace

LEMMA Published ==
    ASSUME Process, NEW objects, Len(objects) \in Nat, Publish(objects)
    PROVE  (version \in 0..MaxVersion)' /\ UNCHANGED hidden
  BY PersistenceAssumption DEF Process, Publish

LEMMA Bounds == MaxId \in Nat /\ MaxVersion \in Nat /\ MaxCreations \in Nat /\ 1 \in 1..MaxLevel
  BY PersistenceAssumption

\* An operation that publishes or keeps quiet when it has saved, and is undone when not.
LEMMA Concluded ==
    ASSUME Kinds, Process, running, UNCHANGED process, NEW saved \in BOOLEAN,
           NEW n \in lastId..MaxId, NEW after, Good(after, n),
           NEW lvl \in 1..MaxLevel, NEW sea \in Seasons, NEW fav \in SUBSET Events,
           NEW gone \in SUBSET (1..n), Held \subseteq DOMAIN after \cup gone,
           NEW objects, Len(objects) \in Nat,
           WriteToFile(saved, Content(after, lvl, sea, fav)),
           saved => /\ items' = after /\ level' = lvl /\ season' = sea /\ favorites' = fav
                    /\ lastId' = n /\ removed' = removed \cup gone
                    /\ Publish(objects) \/ Silent,
           ~saved => UNCHANGED <<items, level, season, favorites, lastId, removed>> /\ Silent
    PROVE  Outcome(saved)
  <1>1. UNCHANGED hidden
    BY Published DEF Silent, toGame
  <1>2. ASSUME saved PROVE Saved
    <2>1. (version \in 0..MaxVersion)'
      BY <1>2, Published DEF Silent, toGame, Process
    <2>2. Kinds'
      <3>1. lastId' = n /\ items' = after /\ removed' = removed \cup gone
        BY <1>2
      <3>2. n \in 0..MaxId /\ removed' \subseteq 1..n
        BY <3>1, Bounds DEF Kinds
      <3>3. (level \in 1..MaxLevel /\ season \in Seasons /\ favorites \subseteq Events)'
        BY <1>2
      <3> QED
        BY <3>1, <3>2, <3>3 DEF Kinds, Good
    <2>3. saveEnabled /\ file' = Content(items', level', season', favorites')
      BY <1>2 DEF WriteToFile
    <2> QED
      BY <1>2, <2>1, <2>2, <2>3 DEF Saved, Held
  <1>3. ASSUME ~saved PROVE NoTrace
    BY <1>3 DEF NoTrace, WriteToFile, Silent, toGame, memory
  <1> QED
    BY <1>1, <1>2, <1>3 DEF Outcome

LEMMA BestIsMedal ==
    ASSUME HasItemDefinition("medal1"), ~HasItemDefinition("medal2")
    PROVE  Best \in Held /\ items[Best].def = "medal1"
  <1>1. Best = CHOOSE i \in Held : items[i].def = "medal1"
    BY DEF Best
  <1>2. \E i \in Held : items[i].def = "medal1"
    BY DEF HasItemDefinition
  <1> HIDE DEF Best
  <1> QED
    BY <1>1, <1>2

LEMMA ClaimPrestigeMedalOutcome ==
    ASSUME Kinds, Process, NEW saved \in BOOLEAN, ClaimPrestigeMedal(saved)
    PROVE  Outcome(saved)
  <1> DEFINE created == ~HasItemDefinition("medal1")
             id == IF created THEN lastId + 1 ELSE Best
             after == IF created THEN With(items, id, NewItem("medal1"))
                      ELSE [items EXCEPT ![id].def = "medal2"]
             n == IF created THEN id ELSE lastId
             back == IF created THEN Without(after, id)
                     ELSE [after EXCEPT ![id].def = items[id].def]
             objects == <<ItemObject(id, after[id]), LevelObject(1)>>
  <1>1. /\ running /\ ~HasItemDefinition("medal2")
        /\ id <= MaxId
        /\ WriteToFile(saved, Content(after, 1, season, favorites))
        /\ \/ /\ saved
              /\ items' = after /\ level' = 1 /\ lastId' = n
              /\ Publish(objects)
           \/ /\ ~saved
              /\ items' = back
              /\ UNCHANGED <<level, lastId>> /\ Silent
        /\ UNCHANGED <<season, favorites, process, removed>>
    BY DEF ClaimPrestigeMedal
  <1>2. Len(objects) \in Nat
    OBVIOUS
  <1>3. lastId \in Nat /\ Good(items, lastId)
    BY Bounds DEF Kinds
  <1>4. /\ Good(after, n) /\ n \in lastId..MaxId
        /\ Held \subseteq DOMAIN after
        /\ back = items
    <2>1. CASE created
      <3>1. NewItem("medal1") \in Sane
        BY NewItemSane DEF Defs
      <3>2. /\ DOMAIN after = Held \cup {lastId + 1}
            /\ Good(after, lastId + 1)
            /\ Without(after, lastId + 1) = items
        BY <1>3, <2>1, <3>1, Added DEF Held
      <3> QED
        BY <1>1, <1>3, <2>1, <3>2, Bounds
    <2>2. CASE ~created
      <3>1. id \in Held /\ n = lastId
        BY <1>1, <2>2, BestIsMedal
      <3> HIDE DEF id
      <3>2. items[id] \in Sane
        BY <1>3, <3>1 DEF Good, Held
      <3> DEFINE x == [items[id] EXCEPT !.def = "medal2"]
      <3>3. x \in Sane
        BY <3>2, Promoted
      <3>4. [x EXCEPT !.def = items[id].def] = items[id]
        BY <3>2, Restored
      <3>5. after = [items EXCEPT ![id] = x]
        BY <2>2
      <3>6. back = [after EXCEPT ![id] = [after[id] EXCEPT !.def = items[id].def]]
        BY <2>2
      <3>7. after[id] = x
        BY <1>3, <3>1, <3>5 DEF Good, Held
      <3> HIDE DEF x, after, back
      <3>8. back = [after EXCEPT ![id] = items[id]]
        BY <3>4, <3>6, <3>7
      <3>9. /\ DOMAIN after = Held
            /\ Good(after, lastId)
            /\ [after EXCEPT ![id] = items[id]] = items
        BY <1>3, <3>1, <3>3, <3>5, Changed DEF Held
      <3> QED
        BY <1>3, <3>1, <3>8, <3>9, Bounds DEF Kinds
    <2> QED
      BY <2>1, <2>2
  <1>5. Held \subseteq DOMAIN after \cup {}
    BY <1>4
  <1>6. /\ saved => removed' = removed \cup {} /\ favorites' = favorites /\ season' = season
        /\ ~saved => UNCHANGED <<items, level, season, favorites, lastId, removed>> /\ Silent
    BY <1>1, <1>4
  <1> HIDE DEF id, after, n, back, objects
  <1>7. {} \in SUBSET (1..n) /\ season \in Seasons /\ favorites \in SUBSET Events
    BY DEF Kinds
  <1> QED
    BY <1>1, <1>2, <1>4, <1>5, <1>6, <1>7, Bounds, Concluded

LEMMA SetEventFavoriteOutcome ==
    ASSUME Kinds, Process, NEW saved \in BOOLEAN, NEW e \in Events, NEW favorite \in BOOLEAN,
           SetEventFavorite(e, favorite, saved)
    PROVE  Outcome(saved)
  <1> DEFINE after == IF favorite THEN favorites \cup {e} ELSE favorites \ {e}
             undone == IF favorite THEN after \ {e} ELSE after \cup {e}
  <1>1. /\ running /\ (e \in favorites) # favorite
        /\ WriteToFile(saved, Content(items, level, season, after))
        /\ favorites' = IF saved THEN after ELSE undone
        /\ Silent
        /\ UNCHANGED <<items, level, season, lastId, process, removed>>
    BY DEF SetEventFavorite
  <1>2. undone = favorites
    <2>1. CASE favorite
      BY <1>1, <2>1
    <2>2. CASE ~favorite
      BY <1>1, <2>2
    <2> QED
      BY <2>1, <2>2
  <1>3. after \in SUBSET Events
    BY DEF Kinds
  <1>4. /\ Good(items, lastId) /\ level \in 1..MaxLevel /\ season \in Seasons
        /\ lastId \in lastId..MaxId /\ {} \in SUBSET (1..lastId) /\ Len(<<>>) \in Nat
        /\ Held \subseteq DOMAIN items \cup {}
    BY Bounds DEF Kinds, Held
  <1> HIDE DEF after, undone
  <1>5. /\ saved => favorites' = after /\ removed' = removed \cup {}
        /\ ~saved => UNCHANGED <<items, level, season, favorites, lastId, removed>>
    BY <1>1, <1>2
  <1> QED
    BY <1>1, <1>3, <1>4, <1>5, Concluded

LEMMA SelectSeasonalMissionCardOutcome ==
    ASSUME Kinds, Process, NEW saved \in BOOLEAN, NEW card \in Cards,
           SelectSeasonalMissionCard(card, saved)
    PROVE  Outcome(saved)
  <1> DEFINE objects == <<SeasonObject(card)>>
  <1>1. /\ running
        /\ WriteToFile(saved, Content(items, level, card, favorites))
        /\ \/ saved /\ season' = card /\ Publish(objects)
           \/ ~saved /\ UNCHANGED season /\ Silent
        /\ UNCHANGED <<items, level, favorites, lastId, process, removed>>
    BY DEF SelectSeasonalMissionCard
  <1>2. Len(objects) \in Nat
    OBVIOUS
  <1>3. /\ Good(items, lastId) /\ level \in 1..MaxLevel /\ card \in Seasons
        /\ favorites \in SUBSET Events
        /\ lastId \in lastId..MaxId /\ {} \in SUBSET (1..lastId)
        /\ Held \subseteq DOMAIN items \cup {}
    BY Bounds DEF Kinds, Held, Seasons
  <1> HIDE DEF objects
  <1>4. /\ saved => season' = card /\ removed' = removed \cup {} /\ Publish(objects)
        /\ ~saved => UNCHANGED <<items, level, season, favorites, lastId, removed>> /\ Silent
    BY <1>1
  <1> QED
    BY <1>1, <1>2, <1>3, <1>4, Concluded

LEMMA ActivateSeasonPassItemOutcome ==
    ASSUME Kinds, Process, NEW saved \in BOOLEAN, NEW i \in Held,
           ActivateSeasonPassItem(i, saved)
    PROVE  Outcome(saved)
  <1> DEFINE coin == lastId + 1
             after == Without(With(items, coin, NewItem("coin")), i)
             back == With(Without(after, coin), i, items[i])
             objects == <<DestroyObject(i), ItemObject(coin, after[coin]), SeasonObject(NoCard)>>
  <1>1. /\ running /\ lastId < MaxId
        /\ WriteToFile(saved, Content(after, level, NoCard, favorites))
        /\ \/ /\ saved
              /\ items' = after /\ season' = NoCard /\ lastId' = coin
              /\ removed' = removed \cup {i}
              /\ Publish(objects)
           \/ /\ ~saved
              /\ items' = back
              /\ UNCHANGED <<season, lastId, removed>> /\ Silent
        /\ UNCHANGED <<level, favorites, process>>
    BY DEF ActivateSeasonPassItem
  <1>2. Len(objects) \in Nat
    OBVIOUS
  <1>3. /\ lastId \in Nat /\ Good(items, lastId) /\ i \in DOMAIN items
        /\ NewItem("coin") \in Sane
    BY Bounds, NewItemSane DEF Kinds, Held, Defs
  <1>4. /\ DOMAIN after = (DOMAIN items \cup {coin}) \ {i}
        /\ Good(after, coin)
        /\ back = items
    BY <1>3, Exchanged
  <1>5. /\ level \in 1..MaxLevel /\ NoCard \in Seasons /\ favorites \in SUBSET Events
        /\ coin \in lastId..MaxId /\ {i} \in SUBSET (1..coin)
        /\ Held \subseteq DOMAIN after \cup {i}
    BY <1>1, <1>3, <1>4, Bounds DEF Kinds, Held, Seasons, Good
  <1> HIDE DEF coin, after, back, objects
  <1>6. /\ saved => /\ items' = after /\ season' = NoCard /\ lastId' = coin
                    /\ removed' = removed \cup {i} /\ Publish(objects)
        /\ ~saved => UNCHANGED <<items, level, season, favorites, lastId, removed>> /\ Silent
    BY <1>1, <1>4
  <1> QED
    BY <1>1, <1>2, <1>4, <1>5, <1>6, Concluded

LEMMA ModifyItemOutcome ==
    ASSUME Kinds, Process, running, NEW saved \in BOOLEAN, NEW i \in Held, NEW x \in Sane,
           ModifyItem(i, x, saved)
    PROVE  Outcome(saved)
  <1> DEFINE after == [items EXCEPT ![i] = x]
             objects == <<ItemObject(i, x)>>
  <1>1. /\ WriteToFile(saved, Content(after, level, season, favorites))
        /\ \/ saved /\ items' = after /\ Publish(objects)
           \/ ~saved /\ UNCHANGED items /\ Silent
        /\ UNCHANGED <<level, season, favorites, lastId, process, removed>>
    BY DEF ModifyItem
  <1>2. Len(objects) \in Nat
    OBVIOUS
  <1>3. lastId \in Nat /\ Good(items, lastId) /\ i \in DOMAIN items
    BY Bounds DEF Kinds, Held
  <1>4. DOMAIN after = DOMAIN items /\ Good(after, lastId)
    BY <1>3, Changed
  <1>5. /\ level \in 1..MaxLevel /\ season \in Seasons /\ favorites \in SUBSET Events
        /\ lastId \in lastId..MaxId /\ {} \in SUBSET (1..lastId)
        /\ Held \subseteq DOMAIN after \cup {}
    BY <1>4, Bounds DEF Kinds, Held
  <1> HIDE DEF after, objects
  <1>6. /\ saved => items' = after /\ removed' = removed \cup {} /\ Publish(objects)
        /\ ~saved => UNCHANGED <<items, level, season, favorites, lastId, removed>> /\ Silent
    BY <1>1
  <1> QED
    BY <1>1, <1>2, <1>4, <1>5, <1>6, Concluded

LEMMA ModifyItemAttributeOutcome ==
    ASSUME Kinds, Process, NEW saved \in BOOLEAN, NEW i \in Held, NEW spray \in 0..1,
           ModifyItemAttribute(i, spray, saved)
    PROVE  Outcome(saved)
  <1>1. items[i] \in Sane /\ items[i].def = "journal"
    BY DEF Kinds, Good, Held, ModifyItemAttribute
  <1>2. [items[i] EXCEPT !.spray = spray] \in Sane
    BY <1>1, Sprayed
  <1> QED
    BY <1>2, ModifyItemOutcome DEF ModifyItemAttribute

LEMMA IncrementKillCountAttributeOutcome ==
    ASSUME Kinds, Process, NEW saved \in BOOLEAN, NEW i \in Held,
           IncrementKillCountAttribute(i, saved)
    PROVE  Outcome(saved)
  <1>1. items[i] \in Sane /\ items[i].def = "weapon"
    BY DEF Kinds, Good, Held, IncrementKillCountAttribute
  <1>2. items[i].attr \in 0..(Word - 1)
    BY <1>1 DEF Sane, Item
  <1>3. (items[i].attr + 1) % Word \in 0..(Word - 1)
    BY <1>2, PersistenceAssumption
  <1>4. [items[i] EXCEPT !.attr = (items[i].attr + 1) % Word] \in Sane
    <2>1. items[i].def # "subscription"
      BY <1>1
    <2> QED
      BY <1>1, <1>3, <2>1, Counted
  <1>5. running /\ ModifyItem(i, [items[i] EXCEPT !.attr = (items[i].attr + 1) % Word], saved)
    BY DEF IncrementKillCountAttribute
  <1> QED
    BY <1>4, <1>5, ModifyItemOutcome

LEMMA JournalCounts ==
    ASSUME Kinds, NEW i \in Held, NEW k \in Held, i # k, NEW x \in Sane
    PROVE  /\ DOMAIN Without(Put(items, k, x), i) = Held \ {i}
           /\ Good(Without(Put(items, k, x), i), lastId)
           /\ Put(With(Without(Put(items, k, x), i), i, items[i]), k, items[k]) = items
  <1>1. lastId \in Nat /\ Good(items, lastId)
    BY Bounds DEF Kinds
  <1>2. i \in DOMAIN items /\ k \in DOMAIN items
    BY DEF Held
  <1> QED
    BY <1>1, <1>2, ChangedAndTaken DEF Held

LEMMA ActivateTournamentAccessItemOutcome ==
    ASSUME Kinds, Process, NEW saved \in BOOLEAN, NEW i \in Held,
           ActivateTournamentAccessItem(i, saved)
    PROVE  Outcome(saved)
  <1> DEFINE created == items[i].def = "ticket"
             journals == {j \in Held : items[j].def = "journal"}
  <1>0. PICK id \in IF created THEN {lastId + 1} ELSE journals :
            LET counted == IF created \/ items[id].attr = none THEN 0 ELSE items[id].attr
                marked == IF created THEN With(items, id, NewItem("journal"))
                          ELSE [items EXCEPT ![id].attr = counted + 1]
                after == Without(marked, i)
            IN
            /\ id <= MaxId
            /\ created \/ counted # Word - 1
            /\ WriteToFile(saved, Content(after, level, season, favorites))
            /\ \/ /\ saved
                  /\ items' = after
                  /\ lastId' = IF created THEN id ELSE lastId
                  /\ removed' = removed \cup {i}
                  /\ Publish(<<DestroyObject(i), ItemObject(id, after[id])>>)
               \/ /\ ~saved
                  /\ LET back == With(after, i, items[i]) IN
                       items' = IF created THEN Without(back, id)
                                ELSE [back EXCEPT ![id] = items[id]]
                  /\ UNCHANGED <<lastId, removed>> /\ Silent
    BY DEF ActivateTournamentAccessItem
  <1> DEFINE counted == IF created \/ items[id].attr = none THEN 0 ELSE items[id].attr
             marked == IF created THEN With(items, id, NewItem("journal"))
                       ELSE [items EXCEPT ![id].attr = counted + 1]
             after == Without(marked, i)
             n == IF created THEN id ELSE lastId
             back == With(after, i, items[i])
             undone == IF created THEN Without(back, id) ELSE [back EXCEPT ![id] = items[id]]
             objects == <<DestroyObject(i), ItemObject(id, after[id])>>
  <1>1. /\ running /\ items[i].def \in {"ticket", "token"}
        /\ UNCHANGED <<level, season, favorites, process>>
    BY DEF ActivateTournamentAccessItem
  <1>2. /\ id <= MaxId
        /\ created \/ counted # Word - 1
        /\ WriteToFile(saved, Content(after, level, season, favorites))
        /\ \/ /\ saved
              /\ items' = after /\ lastId' = n
              /\ removed' = removed \cup {i}
              /\ Publish(objects)
           \/ /\ ~saved
              /\ items' = undone
              /\ UNCHANGED <<lastId, removed>> /\ Silent
    BY <1>0
  <1>3. Len(objects) \in Nat
    OBVIOUS
  <1>4. lastId \in Nat /\ Good(items, lastId) /\ i \in DOMAIN items
    BY Bounds DEF Kinds, Held
  <1>5. /\ DOMAIN items \subseteq DOMAIN after \cup {i}
        /\ Good(after, n) /\ n \in lastId..MaxId
        /\ undone = items
    <2>1. CASE created
      <3>1. id = lastId + 1 /\ n = lastId + 1
        BY <2>1
      <3>2. NewItem("journal") \in Sane
        BY NewItemSane DEF Defs
      <3>3. after = Without(With(items, lastId + 1, NewItem("journal")), i)
        BY <2>1, <3>1
      <3> HIDE DEF after
      <3>4. /\ DOMAIN after = (DOMAIN items \cup {lastId + 1}) \ {i}
            /\ Good(after, lastId + 1)
            /\ Without(With(after, i, items[i]), lastId + 1) = items
        BY <1>4, <3>2, <3>3, Exchanged
      <3> QED
        BY <1>2, <1>4, <2>1, <3>1, <3>4, Bounds
    <2>2. CASE ~created
      <3>1. id \in DOMAIN items /\ items[id].def = "journal" /\ n = lastId
        BY <2>2 DEF Held
      <3>2. items[id] \in Sane /\ items[id].def # "subscription" /\ i # id
        BY <1>1, <1>4, <3>1 DEF Good
      <3>3. counted + 1 \in 0..(Word - 1)
        <4>1. items[id].attr \in 0..(Word - 1) \cup {none}
          BY <3>2 DEF Sane, Item
        <4> QED
          BY <1>2, <2>2, <4>1, PersistenceAssumption
      <3> DEFINE x == [items[id] EXCEPT !.attr = counted + 1]
      <3>4. x \in Sane
        BY <3>2, <3>3, Counted
      <3>5. /\ after = Without(Put(items, id, x), i)
            /\ undone = Put(With(after, i, items[i]), id, items[id])
        BY <2>2 DEF Put
      <3> HIDE DEF after, undone, x
      <3>6. /\ DOMAIN after = Held \ {i}
            /\ Good(after, lastId)
            /\ undone = items
        <4>1. id \in Held /\ i # id
          BY <3>1, <3>2 DEF Held
        <4> QED
          BY <4>1, <3>4, <3>5, JournalCounts
      <3> QED
        BY <1>4, <3>1, <3>6, Bounds DEF Kinds, Held
    <2> QED
      BY <2>1, <2>2
  <1>6. i \in 1..n
    BY <1>4, <1>5 DEF Good
  <1>7. /\ level \in 1..MaxLevel /\ season \in Seasons /\ favorites \in SUBSET Events
        /\ {i} \in SUBSET (1..n) /\ Held \subseteq DOMAIN after \cup {i}
    BY <1>5, <1>6 DEF Kinds, Held
  <1> HIDE DEF n, after, undone, objects
  <1>8. /\ saved => items' = after /\ lastId' = n /\ removed' = removed \cup {i} /\ Publish(objects)
        /\ ~saved => UNCHANGED <<items, level, season, favorites, lastId, removed>> /\ Silent
    BY <1>1, <1>2, <1>5
  <1> QED
    BY <1>1, <1>2, <1>3, <1>5, <1>7, <1>8, Concluded

\* All of them.
LEMMA DurableOperationOutcome ==
    ASSUME Kinds, Process, NEW saved \in BOOLEAN, DurableOperation(saved)
    PROVE  Outcome(saved)
  BY ClaimPrestigeMedalOutcome, SetEventFavoriteOutcome, SelectSeasonalMissionCardOutcome,
     ActivateSeasonPassItemOutcome, ActivateTournamentAccessItemOutcome,
     ModifyItemAttributeOutcome, IncrementKillCountAttributeOutcome DEF DurableOperation

LEMMA RconSaveInventoryOutcome ==
    ASSUME Kinds, Process, NEW saved \in BOOLEAN, RconSaveInventory(saved)
    PROVE  Outcome(saved)
  <1>1. /\ running /\ WriteToFile(saved, Content(items, level, season, favorites))
        /\ Silent /\ UNCHANGED <<memory, process, removed>>
    BY DEF RconSaveInventory
  <1>2. UNCHANGED <<items, level, season, favorites, lastId, removed, process, version, hidden, sent>>
    BY <1>1 DEF memory, Silent, toGame
  <1>3. ASSUME saved PROVE Saved
    <2>1. Kinds' /\ (version \in 0..MaxVersion)'
      BY <1>2 DEF Kinds, Process
    <2> QED
      BY <1>1, <1>2, <1>3, <2>1 DEF Saved, WriteToFile, Held
  <1>4. ASSUME ~saved PROVE NoTrace
    BY <1>1, <1>2, <1>4 DEF NoTrace, WriteToFile
  <1> QED
    BY <1>1, <1>2, <1>3, <1>4 DEF Outcome

-------------------------------------------------------------------------------
(* The invariant.                                                          *)

LEMMA NothingIsGood == \A n \in Nat : Good(<<>>, n)
  <1>1. DOMAIN <<>> = {}
    OBVIOUS
  <1>2. <<>> \in [DOMAIN <<>> -> Sane]
    OBVIOUS
  <1> QED
    BY <1>1, <1>2 DEF Good

LEMMA InitIInv == Init => IInv
  <1> SUFFICES ASSUME Init PROVE IInv
    OBVIOUS
  <1>1. Kinds
    BY NothingIsGood, Bounds DEF Init, Kinds, Seasons
  <1>2. Process
    <2>1. 0 \in 0..MaxVersion /\ 0 \in 0..MaxCreations
      BY Bounds
    <2>2. FALSE \in BOOLEAN
      OBVIOUS
    <2> QED
      BY <2>1, <2>2, Zenon DEF Init, Process
  <1>3. FileKinds
    <2> SUFFICES ASSUME file # none
                 PROVE  /\ Good(file.items, MaxId)
                        /\ file.level \in 1..MaxLevel
                        /\ file.season \in Seasons
                        /\ file.favorites \subseteq Events
      BY DEF FileKinds
    <2>1. PICK first \in FirstFiles : file = FirstFile(first, configured)
      BY DEF Init
    <2>2. /\ DOMAIN first.defs \subseteq 1..MaxId
          /\ \A i \in DOMAIN first.defs : first.defs[i] \in Defs
          /\ first.season \in Seasons
      BY InputAssumption DEF Seasons
    <2> DEFINE its == [i \in DOMAIN first.defs |-> NewItem(first.defs[i])]
    <2>3. \A i \in DOMAIN first.defs : NewItem(first.defs[i]) \in Sane
      BY <2>2, NewItemSane
    <2>4. Good(its, MaxId)
      BY <2>2, <2>3 DEF Good
    <2> HIDE DEF its
    <2>5. /\ file.items = its /\ file.level = LevelOf[configured]
          /\ file.season = first.season /\ file.favorites = {}
      BY <2>1 DEF FirstFile, its
    <2>6. LevelOf[configured] \in 1..MaxLevel
      BY PersistenceAssumption DEF Init
    <2> QED
      BY <2>2, <2>4, <2>5, <2>6
  <1> QED
    BY <1>1, <1>2, <1>3 DEF Init, IInv, Durable, Accounted

\* What a coordinator keeps may be saved.
LEMMA Saveable ==
    ASSUME configured \in Configs, NEW n \in 0..MaxId, NEW its, Good(its, n),
           NEW lvl \in 1..MaxLevel, NEW sea \in Seasons, NEW fav \in SUBSET Events
    PROVE  /\ Content(its, lvl, sea, fav) # none
           /\ Good(its, MaxId)
  <1>1. Good(its, MaxId)
    BY Bounds DEF Good
  <1>2. DOMAIN its \in SUBSET (1..MaxId) /\ its \in [DOMAIN its -> Item]
    BY <1>1 DEF Good, Sane
  <1>3. its \in UNION {[ids -> Item] : ids \in SUBSET (1..MaxId)}
    BY <1>2
  <1>4. Content(its, lvl, sea, fav) \in File
    BY <1>3 DEF Content, File, Seasons
  <1> QED
    BY <1>1, <1>4, NoneAssumption

LEMMA OutcomeKeeps ==
    ASSUME IInv, NEW saved \in BOOLEAN, Outcome(saved) PROVE IInv'
  <1>1. running /\ UNCHANGED <<running, configured, saveEnabled, nextVersion, creations, hidden>>
    BY DEF Outcome, process
  <1>2. CASE saved
    <2>1. /\ saveEnabled
          /\ file' = Content(items', level', season', favorites')
          /\ Kinds' /\ (version \in 0..MaxVersion)'
      BY <1>2 DEF Outcome, Saved
    <2>2. Process'
      BY <1>1, <2>1, Zenon DEF IInv, Process
    <2>3. /\ lastId' \in 0..MaxId /\ Good(items', lastId') /\ level' \in 1..MaxLevel
          /\ season' \in Seasons /\ favorites' \in SUBSET Events /\ configured \in Configs
      BY <2>1 DEF IInv, Kinds, Process
    <2>4. file' # none /\ Good(items', MaxId)
      BY <2>1, <2>3, Saveable
    <2>5. /\ file'.items = items' /\ file'.level = level' /\ file'.season = season'
          /\ file'.favorites = favorites' /\ file'.configured = configured
      BY <2>1 DEF Content
    <2>6. FileKinds' /\ Accounted'
      BY <2>3, <2>4, <2>5 DEF FileKinds, Accounted, Held
    <2>7. Durable'
      <3> DEFINE its == items'
                 kept == DeduplicateStatsSubscriptions(its)
      <3>1. Good(its, lastId') /\ lastId' \in Nat
        BY <2>3, Bounds
      <3> HIDE DEF its
      <3>2. ASSUME NEW i \in DOMAIN its PROVE Survives(its[i], i, kept)
        <4>1. its[i] \in Sane
          BY <3>1 DEF Good
        <4>2. CASE i \in Superseded(its)
          <5>1. its[i].def = "subscription" /\ i \notin DOMAIN kept
            BY <3>1, <4>2, Deduplicated
          <5> QED
            BY <4>1, <5>1, SubscriptionIsNew, SurvivesNew
        <4>3. CASE i \notin Superseded(its)
          <5>1. i \in DOMAIN kept /\ kept[i] = its[i]
            BY <3>1, <4>3, Deduplicated
          <5> QED
            BY <4>1, <5>1, SurvivesItself
        <4> QED
          BY <4>2, <4>3
      <3>3. /\ Loaded(file', configured).items = kept
            /\ Loaded(file', configured).level = level'
            /\ Loaded(file', configured).season = season'
            /\ Loaded(file', configured).favorites = favorites'
        BY <2>4, <2>5 DEF Loaded, its
      <3>4. saveEnabled' /\ configured' = configured
        BY <1>1, <2>1
      <3> QED
        BY <3>2, <3>3, <3>4 DEF Durable, Held, its
    <2> QED
      BY <2>1, <2>2, <2>6, <2>7 DEF IInv
  <1>3. CASE ~saved
    <2>1. UNCHANGED <<items, level, season, favorites, lastId, version, file, removed>>
      BY <1>3 DEF Outcome, NoTrace, memory
    <2>2. Kinds' /\ FileKinds'
      BY <2>1 DEF IInv, Kinds, FileKinds
    <2>3. Process'
      BY <1>1, <2>1, Zenon DEF IInv, Process
    <2>4. Durable' /\ Accounted'
      BY <1>1, <2>1 DEF IInv, Durable, Accounted, Loaded, Held
    <2> QED
      BY <2>2, <2>3, <2>4 DEF IInv
  <1> QED
    BY <1>2, <1>3

\* What is read from the file, if it may be read.
ReadItems == Loaded(IF saveEnabled THEN file ELSE none, configured).items

LEMMA ReadIs ==
    ASSUME IInv
    PROVE  /\ Good(ReadItems, MaxId)
           /\ running => DOMAIN ReadItems \subseteq 1..lastId
  <1>1. CASE saveEnabled /\ file # none
    <2>1. ReadItems = DeduplicateStatsSubscriptions(file.items)
      BY <1>1 DEF ReadItems, Loaded
    <2>2. Good(file.items, MaxId)
      BY <1>1 DEF IInv, FileKinds
    <2>3. Good(ReadItems, MaxId) /\ DOMAIN ReadItems \subseteq DOMAIN file.items
      BY <2>1, <2>2, Deduplicated, Bounds
    <2>4. running => DOMAIN file.items \subseteq 1..lastId
      BY <1>1 DEF IInv, Accounted, Kinds, Good, Held
    <2> QED
      BY <2>3, <2>4
  <1>2. CASE ~(saveEnabled /\ file # none)
    <2>1. ReadItems = <<>>
      BY <1>2 DEF ReadItems, Loaded
    <2> QED
      BY <2>1, NothingIsGood, Bounds
  <1> QED
    BY <1>1, <1>2

\* An item there was, up to its acknowledgement, or one that was just made.
KeptOrNew(i, its) ==
    \/ /\ i \in Held
       /\ \E b \in BOOLEAN : its[i] = [items[i] EXCEPT !.placed = b]
    \/ i = lastId + 1 /\ \E def \in Defs : its[i] = NewItem(def)

LEMMA Unchanged == ASSUME Kinds, NEW i \in Held, NEW its, its[i] = items[i] PROVE KeptOrNew(i, its)
  <1>1. items[i] \in Item
    BY DEF Kinds, Good, Held, Sane
  <1>2. items[i].placed \in BOOLEAN /\ items[i] = [items[i] EXCEPT !.placed = items[i].placed]
    BY <1>1 DEF Item
  <1> QED
    BY <1>2 DEF KeptOrNew

LEMMA KeptSurvives ==
    ASSUME IInv, running, NEW i, NEW its, KeptOrNew(i, its)
    PROVE  Survives(its[i], i, ReadItems)
  <1>1. \A j \in DOMAIN ReadItems : ReadItems[j] \in Sane
    BY ReadIs DEF Good
  <1>2. CASE i \in Held /\ \E b \in BOOLEAN : its[i] = [items[i] EXCEPT !.placed = b]
    <2>1. items[i] \in Sane
      BY <1>2 DEF IInv, Kinds, Good, Held
    <2>2. Survives(items[i], i, ReadItems)
      BY <1>2 DEF IInv, Durable, ReadItems
    <2> QED
      BY <1>1, <1>2, <2>1, <2>2, SurvivesPlaced
  <1>3. CASE i = lastId + 1 /\ \E def \in Defs : its[i] = NewItem(def)
    <2>1. PICK def \in Defs : its[i] = NewItem(def)
      BY <1>3
    <2>2. its[i] \in Sane /\ its[i] = [NewItem(its[i].def) EXCEPT !.placed = its[i].placed]
      BY <2>1, NewItemSane, NewIsNew
    <2>3. i \notin DOMAIN ReadItems
      <3>1. lastId \in Nat
        BY Bounds DEF IInv, Kinds
      <3> QED
        BY <1>3, <3>1, ReadIs
    <2> QED
      BY <2>2, <2>3, SurvivesNew
  <1> QED
    BY <1>2, <1>3 DEF KeptOrNew

\* A step that leaves the file, and what operations save at once, alone.
LEMMA MemoryKeeps ==
    ASSUME IInv, UNCHANGED <<level, season, favorites, file, process>>,
           (lastId \in 0..MaxId)', Good(items', lastId'), (removed \subseteq 1..lastId)',
           removed \subseteq removed', Held \subseteq (Held \cup removed)',
           \A i \in Held' : KeptOrNew(i, items'),
           (version \in 0..MaxVersion)', (hidden \in BOOLEAN)'
    PROVE  IInv'
  <1>1. Kinds'
    BY DEF IInv, Kinds
  <1>2. Process'
    BY DEF IInv, Process, process
  <1>3. FileKinds'
    BY DEF IInv, FileKinds
  <1>4. Durable'
    <2> SUFFICES ASSUME running' PROVE Durable'
      BY DEF Durable
    <2>1. running /\ saveEnabled' = saveEnabled /\ configured' = configured
      BY DEF process
    <2>2. \A i \in Held' : Survives(items'[i], i, ReadItems)
      BY <2>1, KeptSurvives
    <2>3. Loaded(IF saveEnabled THEN file ELSE none, configured)'
          = Loaded(IF saveEnabled THEN file ELSE none, configured)
      BY <2>1
    <2> QED
      BY <2>1, <2>2, <2>3 DEF IInv, Durable, ReadItems
  <1>5. Accounted'
    BY DEF IInv, Accounted, Held, process
  <1> QED
    BY <1>1, <1>2, <1>3, <1>4, <1>5 DEF IInv

LEMMA CreateItemKeeps ==
    ASSUME IInv, NEW def \in Gifts, CreateItem(def) PROVE IInv'
  <1>1. /\ lastId < MaxId /\ lastId' = lastId + 1
        /\ items' = With(items, lastId + 1, NewItem(def))
        /\ UNCHANGED <<level, season, favorites, file, process, removed>>
    BY DEF CreateItem
  <1>2. (version \in 0..MaxVersion)' /\ (hidden \in BOOLEAN)'
    <2> DEFINE objects == <<ItemObject(lastId', NewItem(def))>>
    <2>1. Len(objects) \in Nat /\ Publish(objects)
      BY DEF CreateItem
    <2> HIDE DEF objects
    <2>2. (version \in 0..MaxVersion)' /\ UNCHANGED hidden
      BY <2>1, Published DEF IInv
    <2> QED
      BY <2>2, Zenon DEF IInv, Process
  <1>3. lastId \in 0..MaxId /\ Good(items, lastId) /\ removed \subseteq 1..lastId
    BY DEF IInv, Kinds
  <1>4. NewItem(def) \in Sane
    BY InputAssumption, NewItemSane
  <1>5. Good(items', lastId + 1) /\ DOMAIN items' = DOMAIN items \cup {lastId + 1}
    BY <1>1, <1>3, <1>4, Added, Bounds
  <1>6. (lastId \in 0..MaxId)' /\ (removed \subseteq 1..lastId)'
    BY <1>1, <1>3, Bounds
  <1>7. ASSUME NEW i \in Held' PROVE KeptOrNew(i, items')
    <2>1. CASE i = lastId + 1
      BY <1>1, <2>1, InputAssumption DEF With, KeptOrNew
    <2>2. CASE i # lastId + 1
      <3>1. i \in Held /\ items'[i] = items[i]
        BY <1>1, <1>5, <1>7, <2>2 DEF With, Held
      <3> QED
        BY <3>1, Unchanged DEF IInv
    <2> QED
      BY <2>1, <2>2
  <1> QED
    BY <1>1, <1>2, <1>5, <1>6, <1>7, MemoryKeeps DEF Held

LEMMA RemoveItemKeeps ==
    ASSUME IInv, NEW i \in Held, RemoveItem(i) PROVE IInv'
  <1>1. /\ items' = Without(items, i) /\ removed' = removed \cup {i}
        /\ UNCHANGED <<level, season, favorites, lastId, file, process>>
    BY DEF RemoveItem
  <1>2. (version \in 0..MaxVersion)' /\ (hidden \in BOOLEAN)'
    <2> DEFINE objects == <<DestroyObject(i)>>
    <2>1. Len(objects) \in Nat /\ Publish(objects)
      BY DEF RemoveItem
    <2> HIDE DEF objects
    <2>2. (version \in 0..MaxVersion)' /\ UNCHANGED hidden
      BY <2>1, Published DEF IInv
    <2> QED
      BY <2>2, Zenon DEF IInv, Process
  <1>3. /\ lastId \in 0..MaxId /\ lastId \in Nat /\ Good(items, lastId)
        /\ removed \subseteq 1..lastId /\ i \in DOMAIN items /\ i \in 1..lastId
    BY Bounds DEF IInv, Kinds, Held, Good
  <1>4. Good(items', lastId) /\ DOMAIN items' = DOMAIN items \ {i}
    BY <1>1, <1>3, Taken
  <1>5. ASSUME NEW j \in Held' PROVE KeptOrNew(j, items')
    <2>1. j \in Held /\ items'[j] = items[j]
      BY <1>1, <1>4, <1>5 DEF Without, Held
    <2> QED
      BY <2>1, Unchanged DEF IInv
  <1> QED
    BY <1>1, <1>2, <1>3, <1>4, <1>5, MemoryKeeps DEF Held

LEMMA OpenPackageKeeps ==
    ASSUME IInv, NEW i \in Held, NEW def \in Gifts, OpenPackage(i, def) PROVE IInv'
  <1>1. /\ lastId < MaxId /\ lastId' = lastId + 1
        /\ items' = Without(With(items, lastId + 1, NewItem(def)), i)
        /\ removed' = removed \cup {i}
        /\ version + 2 <= MaxVersion /\ version' = version + 2
        /\ UNCHANGED <<level, season, favorites, file, process, hidden>>
    BY DEF OpenPackage
  <1>2. (version \in 0..MaxVersion)'
    BY <1>1, Bounds DEF IInv, Process
  <1>3. (hidden \in BOOLEAN)'
    BY <1>1, Zenon DEF IInv, Process
  <1>4. /\ lastId \in 0..MaxId /\ lastId \in Nat /\ Good(items, lastId)
        /\ removed \subseteq 1..lastId /\ i \in DOMAIN items /\ i \in 1..lastId
    BY Bounds DEF IInv, Kinds, Held, Good
  <1>5. NewItem(def) \in Sane
    BY InputAssumption, NewItemSane
  <1>6. Good(items', lastId + 1) /\ DOMAIN items' = (DOMAIN items \cup {lastId + 1}) \ {i}
    BY <1>1, <1>4, <1>5, Exchanged
  <1>7. (lastId \in 0..MaxId)' /\ (removed \subseteq 1..lastId)'
    <2>1. lastId' \in 0..MaxId
      BY <1>1, <1>4, Bounds
    <2>2. removed \subseteq 1..(lastId + 1) /\ i \in 1..(lastId + 1)
      BY <1>4
    <2> QED
      BY <1>1, <2>1, <2>2
  <1>8. ASSUME NEW j \in Held' PROVE KeptOrNew(j, items')
    <2>1. j # i /\ items'[j] = With(items, lastId + 1, NewItem(def))[j]
      BY <1>1, <1>6, <1>8 DEF Without, Held
    <2>2. CASE j = lastId + 1
      BY <2>1, <2>2, InputAssumption DEF With, KeptOrNew
    <2>3. CASE j # lastId + 1
      <3>1. j \in Held /\ items'[j] = items[j]
        BY <1>6, <1>8, <2>1, <2>3 DEF With, Held
      <3> QED
        BY <3>1, Unchanged DEF IInv
    <2> QED
      BY <2>2, <2>3
  <1> QED
    BY <1>1, <1>2, <1>3, <1>6, <1>7, <1>8, MemoryKeeps DEF Held

LEMMA SetItemPositionsKeeps ==
    ASSUME IInv, NEW ids \in Moves, SetItemPositions(ids) PROVE IInv'
  <1>1. /\ version < MaxVersion /\ version' = version + 1
        /\ items' = Placed(ids \cap Held)
        /\ hidden' = hidden \/ hidden' = TRUE
        /\ UNCHANGED <<level, season, favorites, lastId, file, process, removed>>
    BY DEF SetItemPositions
  <1>2. (version \in 0..MaxVersion)'
    BY <1>1, Bounds DEF IInv, Process
  <1>3. (hidden \in BOOLEAN)'
    BY <1>1, Zenon DEF IInv, Process
  <1>4. lastId \in 0..MaxId /\ Good(items, lastId) /\ removed \subseteq 1..lastId
    BY DEF IInv, Kinds
  <1> DEFINE placed == [i \in Held |-> [items[i] EXCEPT !.placed = items[i].placed \/ i \in ids \cap Held]]
  <1>5. items' = placed
    BY <1>1 DEF Placed
  <1>6. ASSUME NEW i \in Held
        PROVE  /\ [items[i] EXCEPT !.placed = items[i].placed \/ i \in ids \cap Held] \in Sane
               /\ (items[i].placed \/ i \in ids \cap Held) \in BOOLEAN
    <2>1. items[i] \in Sane
      BY <1>4 DEF Good, Held
    <2>2. items[i].placed \in BOOLEAN
      BY <2>1 DEF Sane, Item
    <2>3. (items[i].placed \/ i \in ids \cap Held) \in BOOLEAN
      BY <2>2, Zenon
    <2> QED
      BY <2>1, <2>3, Acknowledged
  <1>7. Good(placed, lastId) /\ DOMAIN placed = Held
    BY <1>4, <1>6 DEF Good, Held
  <1> HIDE DEF placed
  <1>8. Held' = Held /\ Good(items', lastId')
    BY <1>1, <1>5, <1>7 DEF Held
  <1>9. ASSUME NEW i \in Held' PROVE KeptOrNew(i, items')
    <2>1. i \in Held /\ (items[i].placed \/ i \in ids \cap Held) \in BOOLEAN
      BY <1>6, <1>8, <1>9
    <2>2. items'[i] = [items[i] EXCEPT !.placed = items[i].placed \/ i \in ids \cap Held]
      BY <1>5, <2>1 DEF placed
    <2> QED
      BY <2>1, <2>2 DEF KeptOrNew
  <1> QED
    BY <1>1, <1>2, <1>3, <1>4, <1>8, <1>9, MemoryKeeps

\* A step in which nothing that is kept changes.
LEMMA TalkKeeps ==
    ASSUME IInv, UNCHANGED <<memory, process, version, file, removed>>, (hidden \in BOOLEAN)'
    PROVE  IInv'
  <1>1. UNCHANGED <<items, level, season, favorites, lastId>>
    BY DEF memory
  <1>2. lastId \in 0..MaxId /\ Good(items, lastId) /\ removed \subseteq 1..lastId
    BY DEF IInv, Kinds
  <1>3. Good(items', lastId')
    BY <1>1, <1>2
  <1>4. (lastId \in 0..MaxId)' /\ (removed \subseteq 1..lastId)' /\ Held' = Held
    BY <1>1, <1>2 DEF Held
  <1>5. (version \in 0..MaxVersion)'
    BY DEF IInv, Process
  <1>6. \A i \in Held' : KeptOrNew(i, items')
    BY <1>1, <1>4, Unchanged DEF IInv
  <1> QED
    BY <1>1, <1>3, <1>4, <1>5, <1>6, MemoryKeeps

\* The coordinator is gone; the file may have become what it kept.
LEMMA GoneKeeps ==
    ASSUME IInv, Gone, (nextVersion \in 0..MaxVersion)',
           NEW saved \in BOOLEAN, WriteToFile(saved, Content(items, level, season, favorites))
    PROVE  IInv'
  <1>1. Kinds'
    BY NothingIsGood, Bounds DEF Gone, Kinds, Seasons
  <1>2. Process'
    BY Zenon DEF Gone, IInv, Process
  <1>3. FileKinds'
    <2>1. /\ lastId \in 0..MaxId /\ Good(items, lastId) /\ level \in 1..MaxLevel
          /\ season \in Seasons /\ favorites \in SUBSET Events /\ configured \in Configs
      BY DEF IInv, Kinds, Process
    <2>2. Good(items, MaxId)
      BY <2>1, Saveable
    <2>3. file' = file \/ file' = Content(items, level, season, favorites)
      BY DEF WriteToFile
    <2> QED
      BY <2>1, <2>2, <2>3 DEF IInv, FileKinds, Content
  <1> QED
    BY <1>1, <1>2, <1>3 DEF IInv, Gone, Durable, Accounted

LEMMA ConstructKeeps ==
    ASSUME IInv, NEW cfg \in Configs, NEW readable \in BOOLEAN, Construct(cfg, readable)
    PROVE  IInv'
  <1> DEFINE source == IF readable THEN file ELSE none
             entries == IF source = none THEN <<>> ELSE source.items
             read == Loaded(source, cfg)
  <1>1. /\ creations < MaxCreations /\ nextVersion < MaxVersion
        /\ running' = TRUE /\ creations' = creations + 1
        /\ configured' = cfg
        /\ nextVersion' = nextVersion + 1 /\ version' = nextVersion + 1
        /\ saveEnabled' = readable
        /\ items' = read.items /\ level' = read.level
        /\ season' = read.season /\ favorites' = read.favorites
        /\ lastId' \in {0} \cup DOMAIN entries
        /\ \A i \in DOMAIN entries : i <= lastId'
        /\ removed' = Superseded(entries) /\ hidden' = FALSE
        /\ file' = file
    BY DEF Construct
  <1>2. Good(entries, MaxId)
    BY NothingIsGood, Bounds DEF IInv, FileKinds
  <1>3. /\ read.items = DeduplicateStatsSubscriptions(entries)
        /\ read.level \in 1..MaxLevel /\ read.season \in Seasons /\ read.favorites \subseteq Events
    <2>1. LevelOf[cfg] \in 1..MaxLevel
      BY PersistenceAssumption
    <2>2. CASE source # none
      BY <2>1, <2>2 DEF IInv, FileKinds, Loaded
    <2>3. CASE source = none
      <3>1. read = [items |-> <<>>, level |-> LevelOf[cfg], season |-> none, favorites |-> {}]
        BY <2>3 DEF Loaded
      <3>2. DeduplicateStatsSubscriptions(<<>>) = <<>>
        <4>1. DOMAIN <<>> \ Superseded(<<>>) = {}
          OBVIOUS
        <4> QED
          BY <4>1 DEF DeduplicateStatsSubscriptions
      <3> QED
        BY <2>1, <2>3, <3>1, <3>2 DEF Seasons
    <2> QED
      BY <2>2, <2>3
  <1> HIDE DEF entries
  <1>4. /\ Good(read.items, MaxId)
        /\ DOMAIN read.items = DOMAIN entries \ Superseded(entries)
        /\ Superseded(entries) \subseteq DOMAIN entries
    BY <1>2, <1>3, Deduplicated, Bounds
  <1>5. Durable'
    <2>1. \A i \in DOMAIN read.items : Survives(read.items[i], i, read.items)
      BY <1>4, SurvivesItself DEF Good
    <2>2. Loaded(IF saveEnabled THEN file ELSE none, configured)' = read
      BY <1>1
    <2> HIDE DEF read
    <2> QED
      BY <1>1, <2>1, <2>2 DEF Durable, Held
  <1> HIDE DEF read
  <1>6. DOMAIN entries \subseteq 1..lastId' /\ lastId' \in 0..MaxId
    BY <1>1, <1>2, Bounds DEF Good
  <1>7. Kinds'
    <2>1. lastId' \in 0..MaxId /\ Good(items', lastId')
      BY <1>1, <1>4, <1>6 DEF Good
    <2>2. (removed \subseteq 1..lastId)'
      BY <1>1, <1>4, <1>6
    <2> QED
      BY <1>1, <1>3, <2>1, <2>2 DEF Kinds
  <1>8. Process'
    <2>1. (version \in 0..MaxVersion)' /\ (nextVersion \in 0..MaxVersion)'
          /\ (creations \in 0..MaxCreations)' /\ (configured \in Configs)'
      BY <1>1, Bounds DEF IInv, Process
    <2>2. (running \in BOOLEAN)' /\ (hidden \in BOOLEAN)' /\ (saveEnabled \in BOOLEAN)'
      BY <1>1, Zenon
    <2> QED
      BY <2>1, <2>2, Zenon DEF Process
  <1>9. FileKinds'
    BY <1>1 DEF IInv, FileKinds
  <1>10. Accounted'
    <2>1. saveEnabled' /\ file' # none => entries = file'.items
      BY <1>1 DEF entries
    <2>2. Held' = DOMAIN entries \ removed'
      BY <1>1, <1>4 DEF Held
    <2> QED
      BY <2>1, <2>2 DEF Accounted
  <1> QED
    BY <1>5, <1>7, <1>8, <1>9, <1>10 DEF IInv

LEMMA DestructKeeps ==
    ASSUME IInv, NEW saved \in BOOLEAN, Destruct(saved) PROVE IInv'
  BY GoneKeeps DEF Destruct, IInv, Process

LEMMA ProcessEndsKeeps ==
    ASSUME IInv, ProcessEnds PROVE IInv'
  <1>1. WriteToFile(FALSE, Content(items, level, season, favorites)) /\ FALSE \in BOOLEAN
    BY DEF WriteToFile, ProcessEnds
  <1>2. Gone /\ (nextVersion \in 0..MaxVersion)'
    BY DEF ProcessEnds, IInv, Process
  <1> QED
    BY <1>1, <1>2, GoneKeeps

LEMMA NextIInv == IInv /\ [Next]_vars => IInv'
  <1> SUFFICES ASSUME IInv, [Next]_vars PROVE IInv'
    OBVIOUS
  <1>1. Kinds /\ Process /\ hidden \in BOOLEAN /\ FALSE \in BOOLEAN
    BY DEF IInv, Process
  <1>2. ASSUME NEW saved \in BOOLEAN, DurableOperation(saved) PROVE IInv'
    BY <1>1, <1>2, DurableOperationOutcome, OutcomeKeeps
  <1>3. ASSUME NEW saved \in BOOLEAN, RconSaveInventory(saved) PROVE IInv'
    BY <1>1, <1>3, RconSaveInventoryOutcome, OutcomeKeeps
  <1>4. CASE RefreshInventory
    BY <1>1, <1>4, TalkKeeps, Zenon DEF RefreshInventory, SendSnapshot
  <1>5. CASE SayHello
    BY <1>1, <1>5, TalkKeeps, Zenon DEF SayHello
  <1>6. CASE OnClientHello
    <2>1. UNCHANGED <<memory, process, version, file, removed>>
          /\ (hidden' = hidden \/ hidden' = FALSE)
      BY <1>6 DEF OnClientHello, SendSnapshot
    <2>2. (hidden \in BOOLEAN)'
      BY <1>1, <2>1, Zenon
    <2> QED
      BY <2>1, <2>2, TalkKeeps
  <1>7. CASE GameReceives
    BY <1>1, <1>7, TalkKeeps, Zenon DEF GameReceives
  <1>8. CASE UNCHANGED vars
    BY <1>1, <1>8, TalkKeeps, Zenon DEF vars, toGame
  <1> QED
    BY <1>2, <1>3, <1>4, <1>5, <1>6, <1>7, <1>8, DestructKeeps, ConstructKeeps, CreateItemKeeps,
       OpenPackageKeeps, RemoveItemKeeps, SetItemPositionsKeeps, ProcessEndsKeeps DEF Next

LEMMA Invariance == Spec => []IInv
  BY InitIInv, NextIInv, PTL DEF Spec

-------------------------------------------------------------------------------
\* What a durable operation reported survives a crash: a new coordinator would read the
\* level, the season and the favorites of the present one, and an item's counters and
\* spray unless it is as it was made (inventory.cpp:2214-2216).
THEOREM NothingDurableIsLost == Spec => []CrashLosesNothingDurable
  <1>1. IInv => CrashLosesNothingDurable
    <2> SUFFICES ASSUME IInv PROVE CrashLosesNothingDurable
      OBVIOUS
    <2>1. items \in [Held -> Item] /\ Held \subseteq 1..lastId
      BY DEF IInv, Kinds, Good, Held, Sane
    <2>2. TypeOK
      BY <2>1, Zenon DEF IInv, Kinds, Process, TypeOK, Seasons
    <2> QED
      BY <2>2 DEF IInv, Durable, Survives, Kept, CrashLosesNothingDurable
  <1> QED
    BY <1>1, Invariance, PTL

\* A durable operation whose save fails leaves no trace, whatever it did before it
\* tried to save (the undo code of each operation, e.g. inventory.cpp:1284-1290).
THEOREM FailureLeavesNoTrace == Spec => FailedSaveChangesNothing
  <1>1. ASSUME IInv, DurableOperation(FALSE)
        PROVE  UNCHANGED <<memory, version, sent, file>>
    <2>1. Kinds /\ Process /\ FALSE \in BOOLEAN
      BY <1>1 DEF IInv
    <2>2. Outcome(FALSE)
      BY <1>1, <2>1, DurableOperationOutcome
    <2> QED
      BY <2>2 DEF Outcome, NoTrace
  <1>2. IInv /\ [Next]_vars
        => [DurableOperation(FALSE) => UNCHANGED <<memory, version, sent, file>>]_vars
    BY <1>1
  <1> QED
    BY <1>2, Invariance, PTL DEF Spec, FailedSaveChangesNothing

\* No save drops an item that was not removed since the file was read, or then, as a
\* subscription with a newer one (inventory.cpp:447-455, 571-604, 707-711).
THEOREM NoSaveLosesItems == Spec => SavesLoseNothing
  <1> DEFINE Loses == file # none /\ file' # none =>
                        DOMAIN file.items \ DOMAIN file'.items \subseteq removed \cup removed'
  <1>1. ASSUME file' = file PROVE Loses
    BY <1>1
  <1>2. ASSUME IInv, NEW saved \in BOOLEAN, Outcome(saved) PROVE Loses
    <2>1. CASE saved
      <3>1. /\ running /\ saveEnabled /\ file'.items = items'
            /\ Held \subseteq (DOMAIN items)' \cup removed'
        BY <1>2, <2>1 DEF Outcome, Saved, Content, Held
      <3>2. file # none => DOMAIN file.items \ removed \subseteq Held
        BY <1>2, <3>1 DEF IInv, Accounted
      <3> QED
        BY <3>1, <3>2
    <2>2. CASE ~saved
      BY <1>1, <1>2, <2>2 DEF Outcome, NoTrace
    <2> QED
      BY <2>1, <2>2
  <1>3. ASSUME IInv, NEW saved \in BOOLEAN, Destruct(saved) PROVE Loses
    <2>1. running /\ WriteToFile(saved, Content(items, level, season, favorites))
      BY <1>3 DEF Destruct
    <2>2. file # none /\ saveEnabled => DOMAIN file.items \ removed \subseteq Held
      BY <1>3, <2>1 DEF IInv, Accounted
    <2> QED
      BY <2>1, <2>2 DEF WriteToFile, Content, Held
  <1>4. ASSUME IInv, [Next]_vars PROVE Loses
    <2>1. Kinds /\ Process
      BY <1>4 DEF IInv
    <2>2. ASSUME NEW saved \in BOOLEAN, DurableOperation(saved) PROVE Loses
      BY <1>2, <1>4, <2>1, <2>2, DurableOperationOutcome
    <2>3. ASSUME NEW saved \in BOOLEAN, RconSaveInventory(saved) PROVE Loses
      BY <1>2, <1>4, <2>1, <2>3, RconSaveInventoryOutcome
    <2>4. ASSUME NEW saved \in BOOLEAN, Destruct(saved) PROVE Loses
      BY <1>3, <1>4, <2>4
    <2>5. ASSUME \/ \E cfg \in Configs, readable \in BOOLEAN : Construct(cfg, readable)
                 \/ \E def \in Gifts : CreateItem(def) \/ \E i \in Held : OpenPackage(i, def)
                 \/ \E i \in Held : RemoveItem(i)
                 \/ \E ids \in Moves : SetItemPositions(ids)
                 \/ RefreshInventory \/ SayHello \/ OnClientHello \/ GameReceives \/ ProcessEnds
                 \/ UNCHANGED vars
          PROVE  file' = file
      BY <2>5 DEF Construct, CreateItem, OpenPackage, RemoveItem, SetItemPositions,
                  RefreshInventory, SayHello, OnClientHello, GameReceives, ProcessEnds, vars
    <2> HIDE DEF Loses
    <2> QED
      BY <1>1, <1>4, <2>2, <2>3, <2>4, <2>5 DEF Next
  <1>5. IInv /\ [Next]_vars => [Loses]_vars
    BY <1>4
  <1> QED
    BY <1>5, Invariance, PTL DEF Spec, SavesLoseNothing
-------------------------------------------------------------------------------
(* A fold of the game's Apply, one object after the other.  FoldLeft is    *)
(* defined through a function on all the sets of positions; what it gives  *)
(* for the first n positions is Folded.  (The induction is a least         *)
(* counterexample.)                                                        *)

IsFold(f, c, s, n) ==
    f = [x \in SUBSET (1..n) |-> IF x = {} THEN c ELSE Apply(f[x \ {Max(x)}], s[Max(x)])]

Folds(c, s, n) == \E f : IsFold(f, c, s, n) /\ \A g : IsFold(g, c, s, n) => g = f

Folded(c, s, n) == (CHOOSE f : IsFold(f, c, s, n))[1..n]

LEMMA FoldIs ==
    ASSUME NEW c, NEW s, NEW n, DOMAIN s = 1..n PROVE FoldLeft(Apply, c, s) = Folded(c, s, n)
  BY DEF FoldLeft, MapThenFoldSet, IsFold, Folded

LEMMA MaxIs == ASSUME NEW n \in Nat, NEW x \in SUBSET (1..n), n \in x PROVE Max(x) = n
  <1>1. \A y \in x : n >= y
    OBVIOUS
  <1>2. \A m \in x : (\A y \in x : m >= y) => m = n
    OBVIOUS
  <1> QED
    BY <1>1, <1>2 DEF Max

\* The function for one position more contains the one without it.
LEMMA FoldPart ==
    ASSUME NEW c, NEW s, NEW n \in Nat, NEW f, IsFold(f, c, s, n + 1)
    PROVE  /\ IsFold([x \in SUBSET (1..n) |-> f[x]], c, s, n)
           /\ \A x \in SUBSET (1 .. n + 1) :
                n + 1 \in x => f[x] = Apply(f[x \ {n + 1}], s[n + 1])
           /\ \A x \in SUBSET (1 .. n + 1) : n + 1 \in x => x \ {n + 1} \in SUBSET (1..n)
  <1> DEFINE g == [x \in SUBSET (1..n) |-> f[x]]
  <1>1. ASSUME NEW x \in SUBSET (1 .. n + 1)
        PROVE  f[x] = IF x = {} THEN c ELSE Apply(f[x \ {Max(x)}], s[Max(x)])
    BY Zenon DEF IsFold
  <1>2. ASSUME NEW x \in SUBSET (1..n)
        PROVE  /\ x \in SUBSET (1 .. n + 1) /\ x \ {Max(x)} \in SUBSET (1..n)
    <2>1. 1..n \subseteq 1 .. n + 1
      OBVIOUS
    <2> QED
      BY <2>1, Zenon
  <1>3. ASSUME NEW x \in SUBSET (1..n)
        PROVE  g[x] = IF x = {} THEN c ELSE Apply(g[x \ {Max(x)}], s[Max(x)])
    <2>1. g[x] = f[x] /\ g[x \ {Max(x)}] = f[x \ {Max(x)}]
      BY <1>2
    <2>2. f[x] = IF x = {} THEN c ELSE Apply(f[x \ {Max(x)}], s[Max(x)])
      BY <1>1, <1>2
    <2> QED
      BY <2>1, <2>2, Zenon
  <1>4. g = [x \in SUBSET (1..n) |-> IF x = {} THEN c ELSE Apply(g[x \ {Max(x)}], s[Max(x)])]
    <2>1. g = [x \in SUBSET (1..n) |-> g[x]]
      OBVIOUS
    <2> HIDE DEF g
    <2> QED
      BY <1>3, <2>1
  <1>5. ASSUME NEW x \in SUBSET (1 .. n + 1), n + 1 \in x
        PROVE  f[x] = Apply(f[x \ {n + 1}], s[n + 1]) /\ x \ {n + 1} \in SUBSET (1..n)
    <2>1. Max(x) = n + 1 /\ x # {}
      BY <1>5, MaxIs
    <2>2. x \ {n + 1} \in SUBSET (1..n)
      OBVIOUS
    <2> QED
      BY <1>1, <2>1, <2>2
  <1> QED
    BY <1>4, <1>5 DEF IsFold

LEMMA FoldZero ==
    ASSUME NEW c, NEW s
    PROVE  Folds(c, s, 0) /\ Folded(c, s, 0) = c
  <1> DEFINE f == [x \in SUBSET (1..0) |-> c]
  <1>1. SUBSET (1..0) = {{}}
    OBVIOUS
  <1>2. IsFold(f, c, s, 0)
    BY <1>1 DEF IsFold
  <1>3. ASSUME NEW g, IsFold(g, c, s, 0) PROVE g = f
    BY <1>1, <1>3 DEF IsFold
  <1>4. f[1..0] = c
    BY <1>1
  <1> QED
    BY <1>2, <1>3, <1>4 DEF Folds, Folded

LEMMA FoldMore ==
    ASSUME NEW c, NEW s, NEW n \in Nat, Folds(c, s, n)
    PROVE  Folds(c, s, n + 1) /\ Folded(c, s, n + 1) = Apply(Folded(c, s, n), s[n + 1])
  <1> DEFINE m == n + 1
  <1>1. PICK f : IsFold(f, c, s, n) /\ \A g : IsFold(g, c, s, n) => g = f
    BY DEF Folds
  <1> DEFINE h == [x \in SUBSET (1..m) |->
                     IF m \in x THEN Apply(f[x \ {m}], s[m]) ELSE f[x]]
  <1>2. ASSUME NEW x \in SUBSET (1..m), m \in x
        PROVE  /\ Max(x) = m /\ x # {} /\ x \ {m} \in SUBSET (1..n)
               /\ h[x] = Apply(f[x \ {m}], s[m]) /\ h[x \ {m}] = f[x \ {m}]
    <2>1. Max(x) = m /\ x # {}
      BY <1>2, MaxIs
    <2>2. x \ {m} \in SUBSET (1..n) /\ x \ {m} \in SUBSET (1..m) /\ m \notin x \ {m}
      OBVIOUS
    <2>3. h[x] = Apply(f[x \ {m}], s[m])
      BY <1>2, Zenon
    <2>4. h[x \ {m}] = f[x \ {m}]
      BY <2>2, Zenon
    <2> QED
      BY <2>1, <2>2, <2>3, <2>4
  <1>3. ASSUME NEW x \in SUBSET (1..m), m \notin x
        PROVE  h[x] = f[x] /\ h[x \ {Max(x)}] = f[x \ {Max(x)}] /\ x \in SUBSET (1..n)
    <2>1. x \in SUBSET (1..n)
      BY <1>3
    <2>2. x \ {Max(x)} \in SUBSET (1..m) /\ m \notin x \ {Max(x)}
      BY <1>3
    <2>3. h[x] = f[x]
      BY <1>3, Zenon
    <2>4. h[x \ {Max(x)}] = f[x \ {Max(x)}]
      BY <2>2, Zenon
    <2> QED
      BY <2>1, <2>3, <2>4
  <1>4. ASSUME NEW x \in SUBSET (1..n)
        PROVE  f[x] = IF x = {} THEN c ELSE Apply(f[x \ {Max(x)}], s[Max(x)])
    BY <1>1, Zenon DEF IsFold
  <1>5. h = [x \in SUBSET (1..m) |-> h[x]]
    OBVIOUS
  <1> HIDE DEF h
  <1>6. ASSUME NEW x \in SUBSET (1..m)
        PROVE  h[x] = IF x = {} THEN c ELSE Apply(h[x \ {Max(x)}], s[Max(x)])
    <2>1. CASE m \in x
      BY <1>2, <2>1
    <2>2. CASE m \notin x
      <3>1. h[x] = f[x] /\ h[x \ {Max(x)}] = f[x \ {Max(x)}] /\ x \in SUBSET (1..n)
        BY <1>3, <2>2
      <3>2. f[x] = IF x = {} THEN c ELSE Apply(f[x \ {Max(x)}], s[Max(x)])
        BY <1>4, <3>1
      <3> QED
        BY <3>1, <3>2, Zenon
    <2> QED
      BY <2>1, <2>2
  <1>7. IsFold(h, c, s, m)
    BY <1>5, <1>6 DEF IsFold
  <1>8. ASSUME NEW g, IsFold(g, c, s, m)
        PROVE  g = h /\ g[1..m] = Apply(f[1..n], s[m])
    <2> DEFINE k == [x \in SUBSET (1..n) |-> g[x]]
    <2>1. /\ IsFold(k, c, s, n)
          /\ \A x \in SUBSET (1..m) : m \in x => g[x] = Apply(g[x \ {m}], s[m])
          /\ \A x \in SUBSET (1..m) : m \in x => x \ {m} \in SUBSET (1..n)
      BY <1>8, FoldPart
    <2>2. k = f
      BY <1>1, <2>1
    <2>3. \A x \in SUBSET (1..n) : g[x] = f[x]
      BY <2>2
    <2>4. g = [x \in SUBSET (1..m) |-> g[x]]
      BY <1>8 DEF IsFold
    <2> HIDE DEF k
    <2>5. ASSUME NEW x \in SUBSET (1..m) PROVE g[x] = h[x]
      <3>1. CASE m \in x
        BY <1>2, <2>1, <2>3, <3>1
      <3>2. CASE m \notin x
        BY <1>3, <2>3, <3>2
      <3> QED
        BY <3>1, <3>2
    <2>6. g = h
      BY <1>5, <2>4, <2>5
    <2>7. g[1..m] = Apply(f[1..n], s[m])
      <3>1. 1..m \in SUBSET (1..m) /\ m \in 1..m /\ (1..m) \ {m} = 1..n
        OBVIOUS
      <3>2. g[1..m] = Apply(g[(1..m) \ {m}], s[m])
        BY <2>1, <3>1
      <3>3. g[1..n] = f[1..n]
        BY <2>3
      <3> QED
        BY <3>1, <3>2, <3>3, Zenon
    <2> QED
      BY <2>6, <2>7
  <1>9. Folded(c, s, n) = f[1..n]
    BY <1>1 DEF Folded
  <1>10. Folds(c, s, m)
    BY <1>7, <1>8 DEF Folds
  <1>11. Folded(c, s, m) = Apply(f[1..n], s[m])
    BY <1>7, <1>8 DEF Folded
  <1> QED
    BY <1>9, <1>10, <1>11

LEMMA FoldsAll == ASSUME NEW c, NEW s PROVE \A n \in Nat : Folds(c, s, n)
  <1> DEFINE bad == {n \in Nat : ~Folds(c, s, n)}
  <1> SUFFICES ASSUME bad # {} PROVE FALSE
    OBVIOUS
  <1>1. PICK n \in bad : \A m \in bad : <<m, n>> \notin OpToRel(<, Nat)
    BY NatLessThanWellFounded, WFMin
  <1>2. n # 0
    BY FoldZero
  <1>3. n - 1 \in Nat /\ (n - 1) + 1 = n /\ <<n - 1, n>> \in OpToRel(<, Nat)
    BY <1>2 DEF OpToRel
  <1>4. n - 1 \notin bad
    BY <1>1, <1>3
  <1>5. Folds(c, s, n)
    <2>1. Folds(c, s, n - 1)
      BY <1>3, <1>4
    <2>2. Folds(c, s, (n - 1) + 1)
      BY <1>3, <2>1, FoldMore
    <2> QED
      BY <1>3, <2>2
  <1> QED
    BY <1>5

LEMMA FoldStep ==
    ASSUME NEW c, NEW s, NEW n \in Nat
    PROVE  Folded(c, s, n + 1) = Apply(Folded(c, s, n), s[n + 1])
  BY FoldsAll, FoldMore

LEMMA FirstSteps ==
    ASSUME NEW c, NEW s
    PROVE  /\ Folded(c, s, 1) = Apply(c, s[1])
           /\ Folded(c, s, 2) = Apply(Folded(c, s, 1), s[2])
           /\ Folded(c, s, 3) = Apply(Folded(c, s, 2), s[3])
  <1>1. Folded(c, s, 0) = c
    BY FoldZero
  <1>2. ASSUME NEW n \in Nat, NEW m, m = n + 1 PROVE Folded(c, s, m) = Apply(Folded(c, s, n), s[m])
    BY <1>2, FoldStep
  <1>3. Folded(c, s, 1) = Apply(Folded(c, s, 0), s[1])
    BY <1>2
  <1>4. Folded(c, s, 2) = Apply(Folded(c, s, 1), s[2])
    BY <1>2
  <1>5. Folded(c, s, 3) = Apply(Folded(c, s, 2), s[3])
    BY <1>2
  <1> QED
    BY <1>1, <1>3, <1>4, <1>5

\* What a cache becomes when it gets the objects of an update.
Fetched(c, objects) == FoldLeft(Apply, c, objects)

\* The operations announce one, two or three objects.
LEMMA FoldOne ==
    ASSUME NEW c, NEW a PROVE Fetched(c, <<a>>) = Apply(c, a)
  <1> DEFINE s == <<a>>
  <1>1. DOMAIN s = 1..1 /\ s[1] = a
    OBVIOUS
  <1> HIDE DEF s
  <1>2. Fetched(c, s) = Folded(c, s, 1)
    BY <1>1, FoldIs DEF Fetched
  <1>3. Folded(c, s, 1) = Apply(c, a)
    BY <1>1, FirstSteps
  <1> QED
    BY <1>2, <1>3 DEF s

LEMMA FoldTwo ==
    ASSUME NEW c, NEW a, NEW b PROVE Fetched(c, <<a, b>>) = Apply(Apply(c, a), b)
  <1> DEFINE s == <<a, b>>
  <1>1. DOMAIN s = 1..2 /\ s[1] = a /\ s[2] = b
    OBVIOUS
  <1> HIDE DEF s
  <1>2. Fetched(c, s) = Folded(c, s, 2)
    BY <1>1, FoldIs DEF Fetched
  <1>3. Folded(c, s, 2) = Apply(Apply(c, a), b)
    BY <1>1, FirstSteps
  <1> QED
    BY <1>2, <1>3 DEF s

LEMMA FoldThree ==
    ASSUME NEW c, NEW a, NEW b, NEW d
    PROVE  Fetched(c, <<a, b, d>>) = Apply(Apply(Apply(c, a), b), d)
  <1> DEFINE s == <<a, b, d>>
  <1>1. DOMAIN s = 1..3 /\ s[1] = a /\ s[2] = b /\ s[3] = d
    OBVIOUS
  <1> HIDE DEF s
  <1>2. Fetched(c, s) = Folded(c, s, 3)
    BY <1>1, FoldIs DEF Fetched
  <1>3. Folded(c, s, 3) = Apply(Apply(Apply(c, a), b), d)
    BY <1>1, FirstSteps
  <1> QED
    BY <1>2, <1>3 DEF s

\* What one object does to a cache.
LEMMA Applied ==
    ASSUME NEW its, NEW lvl, NEW sea
    PROVE  /\ \A i, x : Apply(Cache(its, lvl, sea), ItemObject(i, x)) = Cache(With(its, i, x), lvl, sea)
           /\ \A i : Apply(Cache(its, lvl, sea), DestroyObject(i)) = Cache(Without(its, i), lvl, sea)
           /\ \A l : Apply(Cache(its, lvl, sea), LevelObject(l)) = Cache(its, l, sea)
           /\ \A s : Apply(Cache(its, lvl, sea), SeasonObject(s)) = Cache(its, lvl, s)
  <1>1. ASSUME NEW i, NEW x
        PROVE  Apply(Cache(its, lvl, sea), ItemObject(i, x)) = Cache(With(its, i, x), lvl, sea)
    BY DEF Apply, Cache, ItemObject
  <1>2. ASSUME NEW i
        PROVE  Apply(Cache(its, lvl, sea), DestroyObject(i)) = Cache(Without(its, i), lvl, sea)
    BY DEF Apply, Cache, DestroyObject
  <1>3. ASSUME NEW l PROVE Apply(Cache(its, lvl, sea), LevelObject(l)) = Cache(its, l, sea)
    BY DEF Apply, Cache, LevelObject
  <1>4. ASSUME NEW s PROVE Apply(Cache(its, lvl, sea), SeasonObject(s)) = Cache(its, lvl, s)
    BY DEF Apply, Cache, SeasonObject
  <1> QED
    BY <1>1, <1>2, <1>3, <1>4

-------------------------------------------------------------------------------
(* What the game will hold once it has fetched everything.                 *)

Versioned(g, n) ==
    g.from \in 0..n /\ g = [version |-> g.version, from |-> g.from, cache |-> g.cache]

GameInv == Versioned(sent, creations) /\ Versioned(game, creations) /\ GameCatchesUp

LEMMA Revised ==
    ASSUME NEW g, g = [version |-> g.version, from |-> g.from, cache |-> g.cache], NEW v
    PROVE  /\ [g EXCEPT !.version = v] = [version |-> v, from |-> g.from, cache |-> g.cache]
           /\ [g EXCEPT !.cache = v] = [version |-> g.version, from |-> g.from, cache |-> v]
  OBVIOUS

LEMMA Updates ==
    ASSUME NEW n, NEW g, Versioned(g, n), NEW v, NEW objects
    PROVE  /\ Versioned(Update(g, v, objects), n)
           /\ Update(g, v, objects).from = g.from
           /\ g.cache = none => Update(g, v, objects).cache = none
           /\ g.cache # none => /\ Update(g, v, objects).version = v
                                /\ Update(g, v, objects).cache = Fetched(g.cache, objects)
  <1> DEFINE c == Fetched(g.cache, objects)
             u == [g EXCEPT !.version = v, !.cache = c]
  <1>1. CASE g.cache = none
    BY <1>1 DEF Update
  <1>2. CASE g.cache # none
    <2>1. Update(g, v, objects) = u
      BY <1>2 DEF Update, Fetched
    <2> HIDE DEF c
    <2>2. u = [version |-> v, from |-> g.from, cache |-> c]
      <3> DEFINE h == [g EXCEPT !.version = v]
      <3>1. h = [version |-> v, from |-> g.from, cache |-> g.cache]
        BY Revised DEF Versioned
      <3>2. u = [h EXCEPT !.cache = c]
        OBVIOUS
      <3> HIDE DEF h, u
      <3>3. h.version = v /\ h.from = g.from /\ h.cache = g.cache
        BY <3>1
      <3> QED
        BY <3>1, <3>2, <3>3, Revised
    <2>3. u.version = v /\ u.from = g.from /\ u.cache = c
      BY <2>2
    <2> HIDE DEF u
    <2> QED
      BY <1>2, <2>1, <2>2, <2>3 DEF Versioned, c
  <1> QED
    BY <1>1, <1>2

\* A step that sends what takes the old inventory to the new one.
LEMMA Told ==
    ASSUME GameInv, UNCHANGED <<running, creations, hidden, game>>,
           NEW v, v <= version', NEW objects, sent' = Update(sent, v, objects),
           Fetched(Cache(items, level, season), objects) = Cache(items', level', season')
    PROVE  GameInv'
  <1>1. Versioned(sent, creations) /\ Versioned(game, creations)
    BY DEF GameInv
  <1>2. /\ Versioned(sent', creations)
        /\ sent'.from = sent.from
        /\ sent.cache = none => sent'.cache = none
        /\ sent.cache # none => /\ sent'.version = v
                                /\ sent'.cache = Fetched(sent.cache, objects)
    BY <1>1, Updates
  <1>3. Versioned(sent', creations') /\ Versioned(game', creations')
    BY <1>1, <1>2
  <1>4. GameCatchesUp'
    <2> SUFFICES ASSUME running', sent'.cache # none, sent'.from = creations', ~hidden'
                 PROVE  /\ sent'.version <= version'
                        /\ sent'.cache = Cache(items', level', season')
      BY DEF GameCatchesUp
    <2>1. running /\ sent.cache # none /\ sent.from = creations /\ ~hidden
      BY <1>2
    <2>2. sent.cache = Cache(items, level, season)
      BY <2>1 DEF GameInv, GameCatchesUp
    <2> QED
      BY <1>2, <2>1, <2>2
  <1> QED
    BY <1>3, <1>4 DEF GameInv

LEMMA Announced ==
    ASSUME IInv, GameInv, UNCHANGED <<running, creations>>,
           NEW objects, Len(objects) \in Nat, Publish(objects),
           Fetched(Cache(items, level, season), objects) = Cache(items', level', season')
    PROVE  GameInv'
  <1>1. UNCHANGED <<hidden, game>> /\ sent' = Update(sent, version', objects)
    BY DEF Publish
  <1>2. version' <= version'
    BY Bounds DEF Publish, IInv, Process
  <1> QED
    BY <1>1, <1>2, Told

LEMMA Unsaid ==
    ASSUME GameInv, UNCHANGED <<items, level, season, running, creations>>, Silent
    PROVE  GameInv'
  BY DEF GameInv, GameCatchesUp, Silent, toGame

-------------------------------------------------------------------------------
(* Each operation announces just what it changed.                          *)

LEMMA WithIs ==
    ASSUME NEW f, NEW i, NEW x PROVE With(f, i, x)[i] = x
  BY DEF With

LEMMA Overwritten ==
    ASSUME NEW its, NEW n, Good(its, n), NEW i \in DOMAIN its, NEW x
    PROVE  /\ With(its, i, x) = [its EXCEPT ![i] = x]
           /\ [its EXCEPT ![i] = x][i] = x
  BY DEF Good, With

LEMMA InEitherOrder ==
    ASSUME NEW f, NEW i, NEW k, i # k, NEW x
    PROVE  /\ With(Without(f, i), k, x) = Without(With(f, k, x), i)
           /\ Without(With(f, k, x), i)[k] = x
  <1>1. (DOMAIN f \ {i}) \cup {k} = (DOMAIN f \cup {k}) \ {i}
    OBVIOUS
  <1>2. With(Without(f, i), k, x) = [j \in (DOMAIN f \ {i}) \cup {k} |-> IF j = k THEN x ELSE f[j]]
    BY DEF With, Without
  <1>3. Without(With(f, k, x), i) = [j \in (DOMAIN f \cup {k}) \ {i} |-> IF j = k THEN x ELSE f[j]]
    BY DEF With, Without
  <1> QED
    BY <1>1, <1>2, <1>3

LEMMA ItemTold ==
    ASSUME NEW i, NEW x, NEW c, c = Cache(items, level, season)
    PROVE  Fetched(c, <<ItemObject(i, x)>>) = Cache(With(items, i, x), level, season)
  BY FoldOne, Applied

LEMMA ClaimPrestigeMedalTells ==
    ASSUME IInv, GameInv, ClaimPrestigeMedal(TRUE) PROVE GameInv'
  <1> DEFINE created == ~HasItemDefinition("medal1")
             id == IF created THEN lastId + 1 ELSE Best
             after == IF created THEN With(items, id, NewItem("medal1"))
                      ELSE [items EXCEPT ![id].def = "medal2"]
             objects == <<ItemObject(id, after[id]), LevelObject(1)>>
  <1>1. /\ ~HasItemDefinition("medal2")
        /\ items' = after /\ level' = 1 /\ season' = season
        /\ Publish(objects)
        /\ UNCHANGED <<running, creations>>
    BY DEF ClaimPrestigeMedal, process
  <1>2. Len(objects) \in Nat
    OBVIOUS
  <1>3. With(items, id, after[id]) = after
    <2>1. CASE created
      BY <2>1, WithIs
    <2>2. CASE ~created
      <3>1. id \in DOMAIN items
        BY <1>1, <2>2, BestIsMedal DEF Held
      <3>2. Good(items, lastId)
        BY DEF IInv, Kinds
      <3> DEFINE x == [items[id] EXCEPT !.def = "medal2"]
      <3>3. after = [items EXCEPT ![id] = x]
        BY <2>2
      <3> HIDE DEF id, x, after
      <3>4. With(items, id, x) = after /\ after[id] = x
        BY <3>1, <3>2, <3>3, Overwritten
      <3> QED
        BY <3>4
    <2> QED
      BY <2>1, <2>2
  <1> HIDE DEF id, after
  <1>4. Fetched(Cache(items, level, season), objects)
        = Apply(Apply(Cache(items, level, season), ItemObject(id, after[id])), LevelObject(1))
    BY FoldTwo
  <1>5. Fetched(Cache(items, level, season), objects) = Cache(after, 1, season)
    BY <1>3, <1>4, Applied
  <1> HIDE DEF objects
  <1> QED
    BY <1>1, <1>2, <1>5, Announced

LEMMA SelectSeasonalMissionCardTells ==
    ASSUME IInv, GameInv, NEW card, SelectSeasonalMissionCard(card, TRUE) PROVE GameInv'
  <1> DEFINE objects == <<SeasonObject(card)>>
  <1>1. /\ season' = card /\ Publish(objects) /\ UNCHANGED <<items, level, running, creations>>
    BY DEF SelectSeasonalMissionCard, process
  <1>2. Len(objects) \in Nat
    OBVIOUS
  <1>3. Fetched(Cache(items, level, season), objects) = Cache(items, level, card)
    BY FoldOne, Applied
  <1> HIDE DEF objects
  <1> QED
    BY <1>1, <1>2, <1>3, Announced

LEMMA ActivateSeasonPassItemTells ==
    ASSUME IInv, GameInv, NEW i \in Held, ActivateSeasonPassItem(i, TRUE) PROVE GameInv'
  <1> DEFINE coin == lastId + 1
             after == Without(With(items, coin, NewItem("coin")), i)
             objects == <<DestroyObject(i), ItemObject(coin, after[coin]), SeasonObject(NoCard)>>
  <1>1. /\ items' = after /\ season' = NoCard
        /\ Publish(objects)
        /\ UNCHANGED <<level, running, creations>>
    BY DEF ActivateSeasonPassItem, process
  <1>2. Len(objects) \in Nat
    OBVIOUS
  <1>3. i # coin
    BY Bounds DEF IInv, Kinds, Good, Held
  <1>4. With(Without(items, i), coin, after[coin]) = after
    BY <1>3, InEitherOrder
  <1>5. Fetched(Cache(items, level, season), objects)
        = Apply(Apply(Apply(Cache(items, level, season), DestroyObject(i)),
                      ItemObject(coin, after[coin])), SeasonObject(NoCard))
    BY FoldThree
  <1>6. Fetched(Cache(items, level, season), objects) = Cache(after, level, NoCard)
    <2> HIDE DEF after
    <2> QED
      BY <1>4, <1>5, Applied
  <1> HIDE DEF after, objects
  <1> QED
    BY <1>1, <1>2, <1>6, Announced

LEMMA ActivateTournamentAccessItemTells ==
    ASSUME IInv, GameInv, NEW i \in Held, ActivateTournamentAccessItem(i, TRUE) PROVE GameInv'
  <1> DEFINE created == items[i].def = "ticket"
             journals == {j \in Held : items[j].def = "journal"}
  <1>1. PICK id \in IF created THEN {lastId + 1} ELSE journals :
          LET counted == IF created \/ items[id].attr = none THEN 0 ELSE items[id].attr
              marked == IF created THEN With(items, id, NewItem("journal"))
                        ELSE [items EXCEPT ![id].attr = counted + 1]
              after == Without(marked, i)
          IN
          /\ items' = after
          /\ Publish(<<DestroyObject(i), ItemObject(id, after[id])>>)
          /\ UNCHANGED <<level, season, process>>
    BY DEF ActivateTournamentAccessItem
  <1> DEFINE counted == IF created \/ items[id].attr = none THEN 0 ELSE items[id].attr
             x == IF created THEN NewItem("journal") ELSE [items[id] EXCEPT !.attr = counted + 1]
             marked == IF created THEN With(items, id, NewItem("journal"))
                       ELSE [items EXCEPT ![id].attr = counted + 1]
             after == Without(marked, i)
             objects == <<DestroyObject(i), ItemObject(id, after[id])>>
  <1>2. items' = after /\ Publish(objects) /\ UNCHANGED <<level, season, running, creations>>
    BY <1>1 DEF process
  <1>3. Len(objects) \in Nat
    OBVIOUS
  <1>4. Good(items, lastId)
    BY DEF IInv, Kinds
  <1>5. id # i
    <2>1. items[i].def \in {"ticket", "token"}
      BY DEF ActivateTournamentAccessItem
    <2>2. lastId + 1 # i
      BY <1>4, Bounds DEF IInv, Kinds, Good, Held
    <2> QED
      BY <1>1, <2>1, <2>2
  <1>6. marked = With(items, id, x)
    <2>1. CASE created
      BY <2>1
    <2>2. CASE ~created
      <3>1. id \in DOMAIN items
        BY <1>1, <2>2 DEF Held
      <3>2. x = [items[id] EXCEPT !.attr = counted + 1] /\ marked = [items EXCEPT ![id] = x]
        BY <2>2
      <3> HIDE DEF x, marked
      <3> QED
        BY <1>4, <3>1, <3>2, Overwritten
    <2> QED
      BY <2>1, <2>2
  <1> HIDE DEF x, marked
  <1>7. With(Without(items, i), id, after[id]) = after
    BY <1>5, <1>6, InEitherOrder
  <1>8. Fetched(Cache(items, level, season), objects)
        = Apply(Apply(Cache(items, level, season), DestroyObject(i)), ItemObject(id, after[id]))
    BY FoldTwo
  <1>9. Fetched(Cache(items, level, season), objects) = Cache(after, level, season)
    <2> HIDE DEF after
    <2> QED
      BY <1>7, <1>8, Applied
  <1> HIDE DEF after, objects
  <1> QED
    BY <1>2, <1>3, <1>9, Announced

LEMMA ModifyItemTells ==
    ASSUME IInv, GameInv, NEW i \in Held, NEW after, ModifyItem(i, after, TRUE) PROVE GameInv'
  <1> DEFINE objects == <<ItemObject(i, after)>>
  <1>1. /\ items' = [items EXCEPT ![i] = after] /\ Publish(objects)
        /\ UNCHANGED <<level, season, running, creations>>
    BY DEF ModifyItem, process
  <1>2. Len(objects) \in Nat
    OBVIOUS
  <1>3. With(items, i, after) = [items EXCEPT ![i] = after]
    BY Overwritten DEF IInv, Kinds, Held
  <1>4. Fetched(Cache(items, level, season), objects) = Cache(With(items, i, after), level, season)
    BY ItemTold
  <1>5. Fetched(Cache(items, level, season), objects) = Cache(items', level', season')
    BY <1>1, <1>3, <1>4, Zenon
  <1> HIDE DEF objects
  <1> QED
    BY <1>1, <1>2, <1>5, Announced

LEMMA DurableOperationTells ==
    ASSUME IInv, GameInv, NEW saved \in BOOLEAN, DurableOperation(saved) PROVE GameInv'
  <1>1. CASE saved
    <2>1. saved = TRUE
      BY <1>1
    <2>2. ASSUME NEW e, NEW favorite, SetEventFavorite(e, favorite, TRUE) PROVE GameInv'
      BY <2>2, Unsaid DEF SetEventFavorite, process
    <2>3. ASSUME NEW i \in Held, IncrementKillCountAttribute(i, TRUE) PROVE GameInv'
      BY <2>3, ModifyItemTells DEF IncrementKillCountAttribute
    <2>4. ASSUME NEW i \in Held, NEW spray, ModifyItemAttribute(i, spray, TRUE) PROVE GameInv'
      BY <2>4, ModifyItemTells DEF ModifyItemAttribute
    <2>5. DurableOperation(TRUE)
      BY <2>1
    <2> QED
      BY <2>2, <2>3, <2>4, <2>5, ClaimPrestigeMedalTells, SelectSeasonalMissionCardTells,
         ActivateSeasonPassItemTells, ActivateTournamentAccessItemTells DEF DurableOperation
  <1>2. CASE ~saved
    <2>1. Outcome(saved)
      BY DurableOperationOutcome DEF IInv
    <2>2. UNCHANGED <<items, level, season, running, creations, version, sent, hidden>>
      BY <1>2, <2>1 DEF Outcome, NoTrace, memory, process
    <2>3. game' = game
      <3>1. ASSUME NEW i, NEW after, ModifyItem(i, after, saved) PROVE game' = game
        BY <3>1 DEF ModifyItem, Publish, Silent, toGame
      <3>2. ASSUME NEW i, ActivateTournamentAccessItem(i, saved) PROVE game' = game
        BY <3>2 DEF ActivateTournamentAccessItem, Publish, Silent, toGame
      <3>3. ASSUME NEW i, ActivateSeasonPassItem(i, saved) PROVE game' = game
        BY <3>3 DEF ActivateSeasonPassItem, Publish, Silent, toGame
      <3>4. ASSUME ClaimPrestigeMedal(saved) PROVE game' = game
        BY <3>4 DEF ClaimPrestigeMedal, Publish, Silent, toGame
      <3> QED
        BY <3>1, <3>2, <3>3, <3>4
           DEF DurableOperation, SetEventFavorite, SelectSeasonalMissionCard,
               IncrementKillCountAttribute, ModifyItemAttribute, Publish, Silent, toGame
    <2> QED
      BY <2>2, <2>3 DEF GameInv, GameCatchesUp
  <1> QED
    BY <1>1, <1>2

LEMMA CreateItemTells ==
    ASSUME IInv, GameInv, NEW def, CreateItem(def) PROVE GameInv'
  <1> DEFINE objects == <<ItemObject(lastId', NewItem(def))>>
  <1>1. /\ items' = With(items, lastId', NewItem(def)) /\ Publish(objects)
        /\ UNCHANGED <<level, season, running, creations>>
    BY DEF CreateItem, process
  <1>2. Len(objects) \in Nat
    OBVIOUS
  <1>3. Fetched(Cache(items, level, season), objects)
        = Cache(With(items, lastId', NewItem(def)), level, season)
    BY ItemTold
  <1>4. Fetched(Cache(items, level, season), objects) = Cache(items', level', season')
    BY <1>1, <1>3, Zenon
  <1> HIDE DEF objects
  <1> QED
    BY <1>1, <1>2, <1>4, Announced

LEMMA RemoveItemTells ==
    ASSUME IInv, GameInv, NEW i, RemoveItem(i) PROVE GameInv'
  <1> DEFINE objects == <<DestroyObject(i)>>
  <1>1. /\ items' = Without(items, i) /\ Publish(objects)
        /\ UNCHANGED <<level, season, running, creations>>
    BY DEF RemoveItem, process
  <1>2. Len(objects) \in Nat
    OBVIOUS
  <1>3. Fetched(Cache(items, level, season), objects) = Cache(Without(items, i), level, season)
    BY FoldOne, Applied
  <1>4. Fetched(Cache(items, level, season), objects) = Cache(items', level', season')
    BY <1>1, <1>3, Zenon
  <1> HIDE DEF objects
  <1> QED
    BY <1>1, <1>2, <1>4, Announced

LEMMA OpenPackageTells ==
    ASSUME IInv, GameInv, NEW i \in Held, NEW def, OpenPackage(i, def) PROVE GameInv'
  <1> DEFINE objects == <<DestroyObject(i), ItemObject(lastId', NewItem(def))>>
             after == Without(With(items, lastId', NewItem(def)), i)
  <1>1. /\ items' = after /\ lastId' = lastId + 1 /\ version' = version + 2
        /\ sent' = Update(sent, version + 1, objects)
        /\ UNCHANGED <<level, season, running, creations, game, hidden>>
    BY DEF OpenPackage, process
  <1>2. version + 1 <= version'
    BY <1>1, Bounds DEF IInv, Process
  <1>3. i # lastId'
    BY <1>1, Bounds DEF IInv, Kinds, Good, Held
  <1>4. With(Without(items, i), lastId', NewItem(def)) = after
    BY <1>3, InEitherOrder
  <1>5. Fetched(Cache(items, level, season), objects)
        = Apply(Apply(Cache(items, level, season), DestroyObject(i)), ItemObject(lastId', NewItem(def)))
    BY FoldTwo
  <1> HIDE DEF after
  <1>6. Fetched(Cache(items, level, season), objects) = Cache(after, level, season)
    BY <1>4, <1>5, Applied
  <1>7. Fetched(Cache(items, level, season), objects) = Cache(items', level', season')
    BY <1>1, <1>6, Zenon
  <1> HIDE DEF objects
  <1> QED
    BY <1>1, <1>2, <1>7, Told

-------------------------------------------------------------------------------
(* SetItemPositions announces a set of items in an order the code does not *)
(* fix; whatever it is, the game ends with all of them.                    *)

\* The objects of a set of changed items are listed once each.
LEMMA Listed ==
    ASSUME NEW S, IsFiniteSet(S)
    PROVE  /\ DOMAIN SetToSeq(S) = 1..Cardinality(S) /\ Cardinality(S) \in Nat
           /\ \A k \in 1..Cardinality(S) : SetToSeq(S)[k] \in S
           /\ \A x \in S : \E k \in 1..Cardinality(S) : SetToSeq(S)[k] = x
  <1> DEFINE n == Cardinality(S)
             q == SetToSeq(S)
  <1>1. n \in Nat /\ ExistsBijection(1..n, S)
    BY FS_CardinalityType
  <1>2. IsFiniteSet(1..n) /\ Cardinality(1..n) = n
    BY <1>1, FS_Interval
  <1>3. \E f \in [1..n -> S] : IsInjective(f)
    BY <1>1 DEF ExistsBijection, Bijection, Injection
  <1>4. q \in [1..n -> S] /\ IsInjective(q)
    BY <1>3 DEF SetToSeq
  <1> HIDE DEF n, q
  <1>5. q \in Injection(1..n, S)
    BY <1>4 DEF Injection
  <1>6. q \in Surjection(1..n, S)
    BY <1>2, <1>5, FS_Injection DEF n
  <1> QED
    BY <1>1, <1>4, <1>6 DEF Surjection, n, q

\* The items of a cache once the first n of the listed objects have come.
Overlaid(its, its2, q, n) ==
    [j \in DOMAIN its |-> IF \E k \in 1..n : q[k].id = j THEN its2[j] ELSE its[j]]

LEMMA OverlaidStep ==
    ASSUME NEW its, NEW its2, NEW q, NEW n \in Nat, NEW i \in DOMAIN its, q[n + 1].id = i
    PROVE  With(Overlaid(its, its2, q, n), i, its2[i]) = Overlaid(its, its2, q, n + 1)
  <1>1. \A j : (\E k \in 1..n + 1 : q[k].id = j) <=> j = i \/ (\E k \in 1..n : q[k].id = j)
    <2>1. 1..n + 1 = (1..n) \cup {n + 1}
      OBVIOUS
    <2> QED
      BY <2>1
  <1>2. DOMAIN Overlaid(its, its2, q, n) \cup {i} = DOMAIN its
    BY DEF Overlaid
  <1>3. ASSUME NEW j \in DOMAIN its
        PROVE  (IF j = i THEN its2[i] ELSE Overlaid(its, its2, q, n)[j])
               = IF \E k \in 1..n + 1 : q[k].id = j THEN its2[j] ELSE its[j]
    <2>1. Overlaid(its, its2, q, n)[j] = IF \E k \in 1..n : q[k].id = j THEN its2[j] ELSE its[j]
      BY DEF Overlaid
    <2> QED
      BY <1>1, <2>1
  <1>4. With(Overlaid(its, its2, q, n), i, its2[i])
        = [j \in DOMAIN its |-> IF j = i THEN its2[i] ELSE Overlaid(its, its2, q, n)[j]]
    BY <1>2 DEF With
  <1> QED
    BY <1>3, <1>4 DEF Overlaid

LEMMA OverlaidFold ==
    ASSUME NEW its, its = [j \in DOMAIN its |-> its[j]], NEW its2, NEW lvl, NEW sea,
           NEW q, NEW m \in Nat,
           \A k \in 1..m : q[k].id \in DOMAIN its /\ q[k] = ItemObject(q[k].id, its2[q[k].id])
    PROVE  Folded(Cache(its, lvl, sea), q, m) = Cache(Overlaid(its, its2, q, m), lvl, sea)
  <1> DEFINE c == Cache(its, lvl, sea)
             Same(n) == Folded(c, q, n) = Cache(Overlaid(its, its2, q, n), lvl, sea)
             bad == {n \in Nat : n <= m /\ ~Same(n)}
  <1> SUFFICES ASSUME bad # {} PROVE FALSE
    OBVIOUS
  <1>1. PICK n \in bad : \A k \in bad : <<k, n>> \notin OpToRel(<, Nat)
    BY NatLessThanWellFounded, WFMin
  <1>2. Same(0)
    <2>1. Overlaid(its, its2, q, 0) = its
      BY DEF Overlaid
    <2>2. Folded(c, q, 0) = c
      BY FoldZero
    <2> QED
      BY <2>1, <2>2
  <1>3. n # 0
    BY <1>2
  <1>4. PICK k \in Nat : n = k + 1
    <2>1. n - 1 \in Nat /\ n = (n - 1) + 1
      BY <1>3
    <2> QED
      BY <2>1
  <1>5. <<k, n>> \in OpToRel(<, Nat) /\ k <= m /\ n \in 1..m
    BY <1>4 DEF OpToRel
  <1>6. Same(k)
    BY <1>1, <1>4, <1>5
  <1> DEFINE i == q[n].id
  <1>7. i \in DOMAIN its /\ q[n] = ItemObject(i, its2[i])
    BY <1>5
  <1> HIDE DEF c
  <1>8. Folded(c, q, n) = Apply(Folded(c, q, k), q[n])
    BY <1>4, FoldStep
  <1>9. With(Overlaid(its, its2, q, k), i, its2[i]) = Overlaid(its, its2, q, n)
    BY <1>4, <1>7, OverlaidStep
  <1>10. Same(n)
    <2> HIDE DEF i
    <2>1. Apply(Cache(Overlaid(its, its2, q, k), lvl, sea), ItemObject(i, its2[i]))
          = Cache(With(Overlaid(its, its2, q, k), i, its2[i]), lvl, sea)
      BY Applied
    <2> QED
      BY <1>6, <1>7, <1>8, <1>9, <2>1
  <1> QED
    BY <1>10

\* All the objects of a set of items, in whatever order.
LEMMA SetTold ==
    ASSUME NEW its, its = [j \in DOMAIN its |-> its[j]], NEW its2, DOMAIN its2 = DOMAIN its,
           its2 = [j \in DOMAIN its2 |-> its2[j]],
           NEW ids \in SUBSET DOMAIN its, IsFiniteSet(ids),
           \A j \in DOMAIN its : j \notin ids => its2[j] = its[j], NEW lvl, NEW sea
    PROVE  Fetched(Cache(its, lvl, sea), SetToSeq({ItemObject(i, its2[i]) : i \in ids}))
           = Cache(its2, lvl, sea)
  <1> DEFINE S == {ItemObject(i, its2[i]) : i \in ids}
             q == SetToSeq(S)
             m == Cardinality(S)
  <1>1. IsFiniteSet(S)
    <2> DEFINE f == [i \in ids |-> ItemObject(i, its2[i])]
    <2>1. f \in Surjection(ids, S)
      <3>1. f \in [ids -> S]
        OBVIOUS
      <3>2. \A t \in S : \E s \in ids : f[s] = t
        OBVIOUS
      <3> HIDE DEF f, S
      <3> QED
        BY <3>1, <3>2 DEF Surjection
    <2> HIDE DEF f, S
    <2> QED
      BY <2>1, FS_Surjection
  <1>2. \A o \in S : o.id \in ids /\ o = ItemObject(o.id, its2[o.id])
    BY DEF ItemObject
  <1>3. \A i \in ids : ItemObject(i, its2[i]) \in S /\ ItemObject(i, its2[i]).id = i
    BY DEF ItemObject
  <1> HIDE DEF S
  <1>4. /\ DOMAIN q = 1..m /\ m \in Nat
        /\ \A k \in 1..m : q[k] \in S
        /\ \A x \in S : \E k \in 1..m : q[k] = x
    BY <1>1, Listed
  <1> HIDE DEF q, m
  <1>5. Fetched(Cache(its, lvl, sea), q) = Folded(Cache(its, lvl, sea), q, m)
    BY <1>4, FoldIs DEF Fetched
  <1>6. \A k \in 1..m : q[k].id \in DOMAIN its /\ q[k] = ItemObject(q[k].id, its2[q[k].id])
    BY <1>2, <1>4
  <1>7. Folded(Cache(its, lvl, sea), q, m) = Cache(Overlaid(its, its2, q, m), lvl, sea)
    BY <1>4, <1>6, OverlaidFold
  <1>8. Overlaid(its, its2, q, m) = its2
    <2>1. ASSUME NEW j \in DOMAIN its PROVE (\E k \in 1..m : q[k].id = j) <=> j \in ids
      BY <1>2, <1>3, <1>4
    <2>2. ASSUME NEW j \in DOMAIN its
          PROVE  (IF \E k \in 1..m : q[k].id = j THEN its2[j] ELSE its[j]) = its2[j]
      BY <2>1
    <2> QED
      BY <2>2 DEF Overlaid
  <1> QED
    BY <1>5, <1>7, <1>8 DEF q, S

LEMMA SetItemPositionsTells ==
    ASSUME IInv, GameInv, NEW ids, SetItemPositions(ids) PROVE GameInv'
  <1>1. /\ version' = version + 1 /\ items' = Placed(ids \cap Held)
        /\ UNCHANGED <<level, season, running, creations, game>>
    BY DEF SetItemPositions, process
  <1>2. CASE ids \subseteq Held
    <2> DEFINE objects == SetToSeq({ItemObject(i, items'[i]) : i \in ids})
    <2>1. sent' = Update(sent, version', objects) /\ hidden' = hidden
      BY <1>2 DEF SetItemPositions
    <2>2. Good(items, lastId) /\ lastId \in Nat
      BY Bounds DEF IInv, Kinds
    <2>3. items = [j \in DOMAIN items |-> items[j]] /\ DOMAIN items \subseteq 1..lastId
      BY <2>2 DEF Good
    <2>4. ids \in SUBSET DOMAIN items /\ IsFiniteSet(ids)
      <3>1. IsFiniteSet(1..lastId)
        BY <2>2, FS_Interval
      <3>2. ids \in SUBSET (1..lastId)
        BY <1>2, <2>3 DEF Held
      <3> QED
        BY <1>2, <3>1, <3>2, FS_Subset DEF Held
    <2> DEFINE after == [j \in Held |-> [items[j] EXCEPT !.placed = items[j].placed \/ j \in ids]]
    <2>5. items' = after
      <3>1. ids \cap Held = ids
        BY <1>2
      <3> QED
        BY <1>1, <3>1 DEF Placed
    <2>6. ASSUME NEW j \in DOMAIN items, j \notin ids PROVE after[j] = items[j]
      <3>1. items[j] \in Sane
        BY <2>2 DEF Good
      <3>2. items[j].placed \in BOOLEAN
        BY <3>1 DEF Sane, Item
      <3>3. (items[j].placed \/ j \in ids) = items[j].placed
        BY <2>6, <3>2
      <3>4. after[j] = [items[j] EXCEPT !.placed = items[j].placed]
        BY <3>3 DEF Held
      <3> QED
        BY <3>1, <3>4 DEF Sane, Item
    <2>7. DOMAIN after = DOMAIN items /\ after = [j \in DOMAIN after |-> after[j]]
      BY DEF Held
    <2> HIDE DEF after
    <2>8. Fetched(Cache(items, level, season), SetToSeq({ItemObject(i, after[i]) : i \in ids}))
          = Cache(after, level, season)
      BY <2>3, <2>4, <2>6, <2>7, SetTold
    <2>9. Fetched(Cache(items, level, season), objects) = Cache(items', level', season')
      BY <1>1, <2>5, <2>8
    <2>10. version' <= version'
      BY <1>1, Bounds DEF IInv, Process
    <2> HIDE DEF objects
    <2> QED
      BY <1>1, <2>1, <2>9, <2>10, Told
  <1>3. CASE ~(ids \subseteq Held)
    BY <1>1, <1>3 DEF SetItemPositions, GameInv, GameCatchesUp
  <1> QED
    BY <1>2, <1>3

-------------------------------------------------------------------------------
(* The invariant.                                                          *)

LEMMA NothingVersioned == \A n \in Nat : Versioned(NoCache, n)
  BY DEF Versioned, NoCache

LEMMA SnapshotTells ==
    ASSUME IInv, GameInv, UNCHANGED <<items, level, season, running, creations, version, game>>,
           SendSnapshot
    PROVE  GameInv'
  <1>1. creations \in 0..creations /\ version <= version
    BY Bounds DEF IInv, Process
  <1>2. sent' = [version |-> version, from |-> creations, cache |-> Cache(items, level, season)]
    BY DEF SendSnapshot
  <1>3. /\ sent'.version = version /\ sent'.from = creations
        /\ sent'.cache = Cache(items, level, season)
    BY <1>2
  <1>4. Versioned(sent', creations)
    BY <1>1, <1>2, <1>3 DEF Versioned
  <1> QED
    BY <1>1, <1>3, <1>4 DEF GameInv, GameCatchesUp

LEMMA InitGame == Init => GameInv
  BY NothingVersioned DEF Init, GameInv, GameCatchesUp, NoCache

LEMMA NextGame == IInv /\ GameInv /\ [Next]_vars => GameInv'
  <1> SUFFICES ASSUME IInv, GameInv, [Next]_vars PROVE GameInv'
    OBVIOUS
  <1>1. Versioned(sent, creations) /\ Versioned(game, creations) /\ creations \in Nat
    BY Bounds DEF GameInv, IInv, Process
  <1>2. ASSUME NEW saved \in BOOLEAN, RconSaveInventory(saved) PROVE GameInv'
    BY <1>2, Unsaid DEF RconSaveInventory, memory, process
  <1>3. ASSUME NEW saved \in BOOLEAN, Destruct(saved) PROVE GameInv'
    BY <1>1, <1>3 DEF Destruct, Gone, GameInv, GameCatchesUp
  <1>4. ASSUME NEW cfg, NEW readable, Construct(cfg, readable) PROVE GameInv'
    <2>1. creations' = creations + 1 /\ sent' = sent /\ game' = game
      BY <1>4 DEF Construct
    <2>2. Versioned(sent, creations') /\ Versioned(game, creations') /\ sent.from # creations'
      BY <1>1, <2>1 DEF Versioned
    <2> QED
      BY <2>1, <2>2 DEF GameInv, GameCatchesUp
  <1>5. CASE RefreshInventory
    BY <1>5, SnapshotTells DEF RefreshInventory, memory, process
  <1>6. CASE SayHello
    BY <1>6 DEF SayHello, memory, process, GameInv, GameCatchesUp
  <1>7. CASE OnClientHello
    <2>1. UNCHANGED <<items, level, season, running, creations, version, game>>
      BY <1>7 DEF OnClientHello, memory, process
    <2>2. UNCHANGED <<sent, hidden>> \/ SendSnapshot
      BY <1>7 DEF OnClientHello
    <2>3. ASSUME UNCHANGED <<sent, hidden>> PROVE GameInv'
      BY <2>1, <2>3 DEF GameInv, GameCatchesUp
    <2> QED
      BY <2>1, <2>2, <2>3, SnapshotTells
  <1>8. CASE GameReceives
    BY <1>8 DEF GameReceives, memory, process, GameInv, GameCatchesUp
  <1>9. CASE ProcessEnds
    BY <1>1, <1>9, NothingVersioned DEF ProcessEnds, Gone, GameInv, GameCatchesUp
  <1>10. CASE UNCHANGED vars
    BY <1>10, Unsaid DEF vars, memory, process, Silent
  <1> QED
    BY <1>2, <1>3, <1>4, <1>5, <1>6, <1>7, <1>8, <1>9, <1>10, DurableOperationTells, CreateItemTells,
       OpenPackageTells, RemoveItemTells, SetItemPositionsTells DEF Next

\* Once it has fetched everything, a game with a snapshot of this coordinator holds the
\* inventory: what each operation announces, in whatever order, is what it changed, and
\* an operation that failed announced nothing (gc_client.cpp:1966-1967).
THEOREM WhatTheGameHolds == Spec => []GameCatchesUp
  <1>1. IInv /\ GameInv /\ [Next]_vars => (IInv /\ GameInv)'
    BY NextIInv, NextGame
  <1>2. Init => IInv /\ GameInv
    BY InitIInv, InitGame
  <1>3. GameInv => GameCatchesUp
    BY DEF GameInv
  <1> QED
    BY <1>1, <1>2, <1>3, PTL DEF Spec
===============================================================================

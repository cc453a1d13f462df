------------------------------ MODULE Persistence ------------------------------
(***************************************************************************)
(* What the Inventory keeps, what its file keeps and what the game keeps.  *)
(* Most operations change the inventory and tell the game; the file gets   *)
(* the change with the next save.  Some operations are durable: they save  *)
(* before they report success, and undo the change, version included, when *)
(* the save fails.  The game's shared object cache has a version: a game   *)
(* that says hello with the inventory's present version gets no snapshot.  *)
(*                                                                         *)
(* The coordinator is created and destroyed with the game's coordinator    *)
(* interface and may be created again in one process; the game's cache     *)
(* lives as long as the process.  A crash leaves the file.                 *)
(***************************************************************************)
EXTENDS Naturals, SequencesExt

CONSTANTS
    Events, Cards,       \* tournament events, mission cards of the season
    MaxLevel,            \* CSGOMaxPlayerLevel
    Configs,             \* configured levels and ranks
    LevelOf,             \* the level a configuration sets
    Word,                \* attributes are numbers below it
    FirstFiles,          \* what the first file may hold: def_index of each id, season
    Gifts,               \* definitions of the items that may be made at any time
    Moves,               \* the sets of ids the client may place
    NoCard, none,
    MaxId, MaxVersion,   \* bounds: item ids, versions of a process
    MaxCreations         \* coordinators

ASSUME PersistenceAssumption ==
    /\ {NoCard, none} \cap Cards = {} /\ NoCard # none
    /\ MaxLevel \in Nat \ {0, 1}
    /\ LevelOf \in [Configs -> 1..MaxLevel]
    /\ Word \in Nat \ {0}
    /\ {MaxId, MaxVersion, MaxCreations} \subseteq Nat

VARIABLES
    items, level, season, favorites, \* m_items .. m_eventFavorites
    lastId,      \* m_lastHighItemId
    version,     \* m_version
    saveEnabled, \* m_saveEnabled
    running,     \* there is a ClientGC
    configured,  \* the configuration it was created with
    nextVersion, \* the counter of InitialInventoryVersion
    file,        \* inventory.txt, none when there is none
    hello,       \* the version in a hello under way, none when there is none
    game,        \* the game's shared object cache
    sent,        \* what it will be once the game has fetched every message
    creations,   \* how many coordinators there have been
    removed,     \* history: items removed since the file was read, or when it was
    hidden       \* history: changed without a word to the game since its snapshot

memory == <<items, level, season, favorites, lastId>>
process == <<running, configured, saveEnabled, nextVersion, creations>>
toGame == <<version, sent, hello, game, hidden>>
vars == <<memory, process, toGame, file, removed>>

\* attr: kills of a weapon, tokens of a journal; none until it has the attribute.
\* spray: the graffiti chosen in a journal.  placed: acknowledged by the player.
Defs == {"pass", "coin", "ticket", "token", "journal", "medal1", "medal2", "weapon",
         "subscription"}
Item == [def : Defs, attr : 0..(Word - 1) \cup {none}, spray : 0..1, placed : BOOLEAN]

\* ItemSchema::CreateItem.
NewItem(def) ==
    [def |-> def, attr |-> IF def = "weapon" THEN 0 ELSE none, spray |-> 0, placed |-> FALSE]

ASSUME InputAssumption ==
    /\ Gifts \subseteq Defs
    /\ \A first \in FirstFiles :
         /\ DOMAIN first.defs \subseteq 1..MaxId
         /\ \A i \in DOMAIN first.defs : first.defs[i] \in Defs
         /\ first.season \in Cards \cup {NoCard, none}

Held == DOMAIN items
HasItemDefinition(def) == \E i \in Held : items[i].def = def
With(f, i, x) == [j \in DOMAIN f \cup {i} |-> IF j = i THEN x ELSE f[j]]
Without(f, i) == [j \in DOMAIN f \ {i} |-> f[j]]

-------------------------------------------------------------------------------
(* The game's side: a cache with the version of the last message.          *)

\* BuildCacheSubscription: what a snapshot holds of the inventory.
Cache(its, lvl, sea) == [items |-> its, level |-> lvl, season |-> sea]
NoCache == [version |-> none, from |-> 0, cache |-> none]

ItemObject(i, item) == [kind |-> "item", id |-> i, item |-> item]
DestroyObject(i) == [kind |-> "destroy", id |-> i]
LevelObject(l) == [kind |-> "level", level |-> l]
SeasonObject(s) == [kind |-> "season", season |-> s]

Apply(cache, o) ==
    CASE o.kind = "item" -> [cache EXCEPT !.items = With(@, o.id, o.item)]
      [] o.kind = "destroy" -> [cache EXCEPT !.items = Without(@, o.id)]
      [] o.kind = "level" -> [cache EXCEPT !.level = o.level]
      [] o.kind = "season" -> [cache EXCEPT !.season = o.season]

\* An update needs a cache; ToSingleObject advances the version with every object.
Update(g, v, objects) ==
    IF g.cache = none THEN g
    ELSE [g EXCEPT !.version = v, !.cache = FoldLeft(Apply, @, objects)]

Publish(objects) ==
    /\ version + Len(objects) <= MaxVersion
    /\ version' = version + Len(objects)
    /\ sent' = Update(sent, version', objects)
    /\ UNCHANGED <<hello, game, hidden>>

\* A snapshot replaces the cache.
SendSnapshot ==
    /\ sent' = [version |-> version, from |-> creations, cache |-> Cache(items, level, season)]
    /\ hidden' = FALSE

\* The game fetches until nothing is left (IsMessageAvailable, RetrieveMessage).
GameReceives ==
    /\ running /\ game # sent
    /\ game' = sent
    /\ UNCHANGED <<memory, process, version, sent, hello, hidden, file, removed>>

Silent == UNCHANGED toGame

-------------------------------------------------------------------------------
(* The file.                                                               *)

Content(its, lvl, sea, fav) ==
    [items |-> its, level |-> lvl, season |-> sea, favorites |-> fav, configured |-> configured]

File ==
    [items : UNION {[ids -> Item] : ids \in SUBSET (1..MaxId)}, level : 1..MaxLevel,
     season : Cards \cup {NoCard, none}, favorites : SUBSET Events, configured : Configs]
\* none is neither a file nor a number.
ASSUME NoneAssumption == none \notin File /\ none \notin 0..(Word - 1)

\* WriteToFile: all or nothing, and only when the file could be read.
WriteToFile(saved, content) ==
    /\ saved => saveEnabled
    /\ file' = IF saved THEN content ELSE file

\* DeduplicateStatsSubscriptions: all but the newest subscription go.
Superseded(its) ==
    LET subscriptions == {i \in DOMAIN its : its[i].def = "subscription"} IN
    {i \in subscriptions : \E j \in subscriptions : i < j}
DeduplicateStatsSubscriptions(its) == [i \in DOMAIN its \ Superseded(its) |-> its[i]]

\* What ReadFromFile makes of a file: nothing without one, and the level only under
\* the configuration it was saved with.
Loaded(f, cfg) ==
    IF f = none
    THEN [items |-> <<>>, level |-> LevelOf[cfg], season |-> none, favorites |-> {}]
    ELSE [items |-> DeduplicateStatsSubscriptions(f.items),
          season |-> f.season, favorites |-> f.favorites,
          level |-> IF f.configured = cfg THEN f.level ELSE LevelOf[cfg]]

-------------------------------------------------------------------------------
FirstFile(first, cfg) ==
    [items |-> [i \in DOMAIN first.defs |-> NewItem(first.defs[i])], level |-> LevelOf[cfg],
     season |-> first.season, favorites |-> {}, configured |-> cfg]

Init ==
    /\ configured \in Configs
    /\ file \in {none} \cup {FirstFile(first, configured) : first \in FirstFiles}
    /\ items = <<>> /\ level = 1 /\ season = none /\ favorites = {} /\ lastId = 0
    /\ version = 0 /\ nextVersion = 0
    /\ saveEnabled = FALSE /\ running = FALSE
    /\ hello = none /\ game = NoCache /\ sent = NoCache
    /\ creations = 0 /\ removed = {} /\ hidden = FALSE

\* The coordinator is gone, and its memory and its queues with it.
Gone ==
    /\ items' = <<>> /\ level' = 1 /\ season' = none /\ favorites' = {} /\ lastId' = 0
    /\ saveEnabled' = FALSE /\ running' = FALSE /\ removed' = {} /\ hidden' = FALSE
    /\ hello' = none
    /\ UNCHANGED <<version, configured, creations>>

Construct_SavesAnyway(cfg, readable) ==
    /\ ~running /\ creations < MaxCreations /\ nextVersion < MaxVersion
    /\ running' = TRUE /\ creations' = creations + 1
    /\ configured' = cfg
    /\ nextVersion' = nextVersion + 1 /\ version' = nextVersion + 1
    /\ saveEnabled' = TRUE
    /\ LET source == IF readable THEN file ELSE none
           entries == IF source = none THEN <<>> ELSE source.items
           read == Loaded(source, cfg)
       IN
       /\ items' = read.items /\ level' = read.level
       /\ season' = read.season /\ favorites' = read.favorites
       /\ lastId' \in {0} \cup DOMAIN entries
       /\ \A i \in DOMAIN entries : i <= lastId'
       /\ removed' = Superseded(entries)
    /\ hidden' = FALSE
    /\ UNCHANGED <<sent, hello, game, file>>

\* Inventory::Inventory.  The file may be there and not be read.  AllocateItem has seen
\* every id in it.
Construct(cfg, readable) ==
    /\ ~running /\ creations < MaxCreations /\ nextVersion < MaxVersion
    /\ readable \/ file # none
    /\ running' = TRUE /\ creations' = creations + 1
    /\ configured' = cfg
    /\ nextVersion' = nextVersion + 1 /\ version' = nextVersion + 1
    /\ saveEnabled' = readable
    /\ LET source == IF readable THEN file ELSE none
           entries == IF source = none THEN <<>> ELSE source.items
           read == Loaded(source, cfg)
       IN
       /\ items' = read.items /\ level' = read.level
       /\ season' = read.season /\ favorites' = read.favorites
       /\ lastId' \in {0} \cup DOMAIN entries
       /\ \A i \in DOMAIN entries : i <= lastId'
       /\ removed' = Superseded(entries)
    /\ hidden' = FALSE
    /\ UNCHANGED <<sent, hello, game, file>>

\* Inventory::~Inventory saves; the queue between coordinator and game goes too.
Destruct(saved) ==
    /\ running
    /\ WriteToFile(saved, Content(items, level, season, favorites))
    /\ Gone
    /\ sent' = game
    /\ UNCHANGED <<nextVersion, game>>

\* The process ends, after Destruct or in a crash.  The next one counts versions from
\* its own time, which is later than any version of this one.
ProcessEnds ==
    /\ Gone
    /\ nextVersion' = version /\ game' = NoCache /\ sent' = NoCache
    /\ UNCHANGED file

-------------------------------------------------------------------------------
(* Saving, snapshots and hello.                                            *)

RconSaveInventory(saved) ==
    /\ running
    /\ WriteToFile(saved, Content(items, level, season, favorites))
    /\ Silent
    /\ UNCHANGED <<memory, process, removed>>

\* RconRefreshInventory, SOCacheSubscriptionRefresh.
RefreshInventory ==
    /\ running
    /\ SendSnapshot
    /\ UNCHANGED <<memory, process, version, hello, game, file, removed>>

SayHello ==
    /\ running /\ hello = none
    /\ hello' = IF game.cache = none THEN 0 ELSE game.version
    /\ UNCHANGED <<memory, process, version, sent, game, hidden, file, removed>>

\* OnClientHello, BuildClientWelcome.
OnClientHello ==
    /\ running /\ hello # none
    /\ hello' = none
    /\ \/ /\ hello = version
          /\ UNCHANGED <<sent, hidden>>
       \/ /\ hello # version
          /\ SendSnapshot
    /\ UNCHANGED <<memory, process, version, game, file, removed>>

-------------------------------------------------------------------------------
(* Durable operations.  saved tells whether the save succeeded.            *)

\* GetPrestigeMedalPlan: the first medal, or the next for the best one held.
Best == CHOOSE i \in Held : items[i].def = IF HasItemDefinition("medal2") THEN "medal2" ELSE "medal1"

\* ClaimPrestigeMedal, with RequestPrestigeCoin: a new medal or the next one for it,
\* and back to level 1.
ClaimPrestigeMedal(saved) ==
    /\ running /\ level >= MaxLevel /\ ~HasItemDefinition("medal2")
    /\ LET created == ~HasItemDefinition("medal1")
           id == IF created THEN lastId + 1 ELSE Best
           after == IF created THEN With(items, id, NewItem("medal1"))
                    ELSE [items EXCEPT ![id].def = "medal2"]
       IN
       /\ id <= MaxId
       /\ WriteToFile(saved, Content(after, 1, season, favorites))
       /\ \/ /\ saved
             /\ items' = after /\ level' = 1
             /\ lastId' = IF created THEN id ELSE lastId
             /\ Publish(<<ItemObject(id, after[id]), LevelObject(1)>>)
          \/ /\ ~saved
             /\ items' = IF created THEN Without(after, id)
                         ELSE [after EXCEPT ![id].def = items[id].def]
             /\ UNCHANGED <<level, lastId>> /\ Silent
    /\ UNCHANGED <<season, favorites, process, removed>>

SetEventFavorite_NotUndone(e, favorite, saved) ==
    /\ running
    /\ (e \in favorites) # favorite
    /\ favorites' = IF favorite THEN favorites \cup {e} ELSE favorites \ {e}
    /\ WriteToFile(saved, Content(items, level, season, favorites'))
    /\ Silent
    /\ UNCHANGED <<items, level, season, lastId, process, removed>>

\* SetEventFavorite: not part of the game's cache.
SetEventFavorite(e, favorite, saved) ==
    /\ running
    /\ (e \in favorites) # favorite
    /\ LET after == IF favorite THEN favorites \cup {e} ELSE favorites \ {e} IN
         /\ WriteToFile(saved, Content(items, level, season, after))
         /\ favorites' = IF saved THEN after
                         ELSE IF favorite THEN after \ {e} ELSE after \cup {e}
    /\ Silent
    /\ UNCHANGED <<items, level, season, lastId, process, removed>>

\* SelectSeasonalMissionCard; the card that is selected already changes nothing.
SelectSeasonalMissionCard(card, saved) ==
    /\ running
    /\ season \notin {none, card}
    /\ WriteToFile(saved, Content(items, level, card, favorites))
    /\ \/ saved /\ season' = card /\ Publish(<<SeasonObject(card)>>)
       \/ ~saved /\ UNCHANGED season /\ Silent
    /\ UNCHANGED <<items, level, favorites, lastId, process, removed>>

ActivateSeasonPassItem_LosesPass(i, saved) ==
    /\ running /\ i \in Held /\ items[i].def = "pass"
    /\ season = none /\ ~HasItemDefinition("coin")
    /\ lastId < MaxId
    /\ LET coin == lastId + 1
           after == Without(With(items, coin, NewItem("coin")), i)
       IN
       /\ WriteToFile(saved, Content(after, level, NoCard, favorites))
       /\ \/ /\ saved
             /\ items' = after /\ season' = NoCard /\ lastId' = coin
             /\ removed' = removed \cup {i}
             /\ Publish(<<DestroyObject(i), ItemObject(coin, after[coin]), SeasonObject(NoCard)>>)
          \/ /\ ~saved
             /\ items' = Without(after, coin)
             /\ UNCHANGED <<season, lastId, removed>> /\ Silent
    /\ UNCHANGED <<level, favorites, process>>

\* ActivateSeasonPassItem: a coin and the season for the pass.
ActivateSeasonPassItem(i, saved) ==
    /\ running /\ i \in Held /\ items[i].def = "pass"
    /\ season = none /\ ~HasItemDefinition("coin")
    /\ lastId < MaxId
    /\ LET coin == lastId + 1
           after == Without(With(items, coin, NewItem("coin")), i)
       IN
       /\ WriteToFile(saved, Content(after, level, NoCard, favorites))
       /\ \/ /\ saved
             /\ items' = after /\ season' = NoCard /\ lastId' = coin
             /\ removed' = removed \cup {i}
             /\ Publish(<<DestroyObject(i), ItemObject(coin, after[coin]), SeasonObject(NoCard)>>)
          \/ /\ ~saved
             /\ items' = With(Without(after, coin), i, items[i])
             /\ UNCHANGED <<season, lastId, removed>> /\ Silent
    /\ UNCHANGED <<level, favorites, process>>

\* ActivateTournamentAccessItem: a ticket becomes a journal, if there is none yet; a
\* token counts in the journal, unless its counter is full.
ActivateTournamentAccessItem(i, saved) ==
    /\ running /\ i \in Held /\ items[i].def \in {"ticket", "token"}
    /\ LET created == items[i].def = "ticket"
           journals == {j \in Held : items[j].def = "journal"}
       IN
       /\ created = (journals = {})
       /\ \E id \in IF created THEN {lastId + 1} ELSE journals :
            LET counted == IF created \/ items[id].attr = none THEN 0 ELSE items[id].attr
                marked == IF created THEN With(items, id, NewItem("journal"))
                          ELSE [items EXCEPT ![id].attr = counted + 1]
                after == Without(marked, i)
            IN
            /\ id <= MaxId
            /\ created \/ counted # Word - 1
            /\ WriteToFile(saved, Content(after, level, season, favorites))
            /\ \/ /\ saved
                  /\ items' = after
                  /\ lastId' = IF created THEN id ELSE lastId
                  /\ removed' = removed \cup {i}
                  /\ Publish(<<DestroyObject(i), ItemObject(id, after[id])>>)
               \/ /\ ~saved
                  /\ LET back == With(after, i, items[i]) IN
                       items' = IF created THEN Without(back, id)
                                ELSE [back EXCEPT ![id] = items[id]]
                  /\ UNCHANGED <<lastId, removed>> /\ Silent
    /\ UNCHANGED <<level, season, favorites, process>>

ModifyItem_ToldAnyway(i, after, saved) ==
    /\ WriteToFile(saved, Content([items EXCEPT ![i] = after], level, season, favorites))
    /\ items' = IF saved THEN [items EXCEPT ![i] = after] ELSE items
    /\ Publish(<<ItemObject(i, after)>>)
    /\ UNCHANGED <<level, season, favorites, lastId, process, removed>>

\* ModifyItemAttribute and IncrementKillCountAttribute change one attribute.
ModifyItem(i, after, saved) ==
    /\ WriteToFile(saved, Content([items EXCEPT ![i] = after], level, season, favorites))
    /\ \/ /\ saved
          /\ items' = [items EXCEPT ![i] = after]
          /\ Publish(<<ItemObject(i, after)>>)
       \/ /\ ~saved
          /\ UNCHANGED items /\ Silent
    /\ UNCHANGED <<level, season, favorites, lastId, process, removed>>

ModifyItemAttribute(i, spray, saved) ==
    /\ running /\ i \in Held /\ items[i].def = "journal"
    /\ ModifyItem(i, [items[i] EXCEPT !.spray = spray], saved)

IncrementKillCountAttribute(i, saved) ==
    /\ running /\ i \in Held /\ items[i].def = "weapon"
    /\ ModifyItem(i, [items[i] EXCEPT !.attr = (@ + 1) % Word], saved)

-------------------------------------------------------------------------------
(* Operations that leave the file alone; they stand for all the others.    *)

\* Any operation that makes an item, give_item among them.
CreateItem(def) ==
    /\ running /\ lastId < MaxId
    /\ lastId' = lastId + 1
    /\ items' = With(items, lastId', NewItem(def))
    /\ Publish(<<ItemObject(lastId', NewItem(def))>>)
    /\ UNCHANGED <<level, season, favorites, file, process, removed>>

\* RemoveItem, DeleteItem and whatever consumes an item.
RemoveItem(i) ==
    /\ running /\ i \in Held
    /\ items' = Without(items, i)
    /\ removed' = removed \cup {i}
    /\ Publish(<<DestroyObject(i)>>)
    /\ UNCHANGED <<level, season, favorites, lastId, file, process>>

\* What opens a package: the new item has the lower version, but the game hears of the
\* package's end first (ClientGC::UnlockCrate), and its cache keeps the lower one.
OpenPackage(i, def) ==
    /\ running /\ i \in Held /\ lastId < MaxId /\ version + 2 <= MaxVersion
    /\ lastId' = lastId + 1
    /\ items' = Without(With(items, lastId', NewItem(def)), i)
    /\ removed' = removed \cup {i}
    /\ version' = version + 2
    /\ sent' = Update(sent, version + 1, <<DestroyObject(i), ItemObject(lastId', NewItem(def))>>)
    /\ UNCHANGED <<level, season, favorites, file, process, hello, game, hidden>>

Placed(ids) == [i \in Held |-> [items[i] EXCEPT !.placed = @ \/ i \in ids]]

\* SetItemPositions: one version for all the items; an unknown id ends it, and the
\* items before it have changed for themselves.
SetItemPositions(ids) ==
    /\ running /\ ids # {}
    /\ version < MaxVersion /\ version' = version + 1
    /\ items' = Placed(ids \cap Held)
    /\ \/ /\ ids \subseteq Held
          /\ sent' = Update(sent, version', SetToSeq({ItemObject(i, items'[i]) : i \in ids}))
          /\ UNCHANGED hidden
       \/ /\ ~(ids \subseteq Held) /\ ids \cap Held # {}
          /\ hidden' = TRUE
          /\ UNCHANGED sent
    /\ UNCHANGED <<level, season, favorites, lastId, file, process, removed, hello, game>>

-------------------------------------------------------------------------------
DurableOperation(saved) ==
    \/ ClaimPrestigeMedal(saved)
    \/ \E e \in Events, favorite \in BOOLEAN : SetEventFavorite(e, favorite, saved)
    \/ \E card \in Cards : SelectSeasonalMissionCard(card, saved)
    \/ \E i \in Held :
         \/ ActivateSeasonPassItem(i, saved)
         \/ ActivateTournamentAccessItem(i, saved)
         \/ IncrementKillCountAttribute(i, saved)
         \/ \E spray \in 0..1 : ModifyItemAttribute(i, spray, saved)

Next ==
    \/ \E saved \in BOOLEAN :
         DurableOperation(saved) \/ RconSaveInventory(saved) \/ Destruct(saved)
    \/ \E cfg \in Configs, readable \in BOOLEAN : Construct(cfg, readable)
    \/ \E def \in Gifts : CreateItem(def) \/ \E i \in Held : OpenPackage(i, def)
    \/ \E i \in Held : RemoveItem(i)
    \/ \E ids \in Moves : SetItemPositions(ids)
    \/ RefreshInventory \/ SayHello \/ OnClientHello \/ GameReceives \/ ProcessEnds

Spec == Init /\ [][Next]_vars

-------------------------------------------------------------------------------
TypeOK ==
    /\ items \in [Held -> Item] /\ Held \subseteq 1..lastId
    /\ level \in 1..MaxLevel
    /\ season \in Cards \cup {NoCard, none}
    /\ favorites \subseteq Events
    /\ lastId \in 0..MaxId /\ version \in 0..MaxVersion /\ nextVersion \in 0..MaxVersion
    /\ saveEnabled \in BOOLEAN /\ running \in BOOLEAN /\ hidden \in BOOLEAN
    /\ configured \in Configs
    /\ creations \in 0..MaxCreations
    /\ removed \subseteq 1..lastId

\* What the game was told by a durable operation a crash does not undo: the level, the
\* season and the favorites are those a new coordinator would read, and so is what an item
\* is, counts and shows, unless it is as it was made; while the file could not be read
\* nothing is ever more than that ("Counters are only worth anything if they survive, so
\* persist the new value before reporting success", inventory.cpp:2214-2216).
CrashLosesNothingDurable ==
    /\ TypeOK
    /\ running =>
         LET read == Loaded(IF saveEnabled THEN file ELSE none, configured) IN
         /\ level = read.level
         /\ season = read.season
         /\ favorites = read.favorites
         /\ \A i \in Held :
              LET kept == IF i \in DOMAIN read.items THEN read.items[i]
                          ELSE NewItem(items[i].def)
              IN
              items[i] = [kept EXCEPT !.placed = items[i].placed]

\* Once it has fetched what was sent, a game with a snapshot of this coordinator holds
\* the inventory, as long as no operation broke off half way (hidden); in particular
\* whenever the versions are equal, and a hello is answered with "up to date"
\* (gc_client.cpp:1829-1852).
GameCatchesUp ==
    running /\ sent.cache # none /\ sent.from = creations /\ ~hidden =>
        /\ sent.version <= version
        /\ sent.cache = Cache(items, level, season)

\* A durable operation whose save fails leaves everything as it was, the version and
\* the last id too (the undo code of each operation, e.g. inventory.cpp:1284-1290).
FailedSaveChangesNothing ==
    [][DurableOperation(FALSE) => UNCHANGED <<memory, version, sent, file>>]_vars

\* A save drops no item from the file that was not removed since the file was read, or
\* then, as a subscription that had a newer one: a file that could not be read, whole or
\* in part, is not overwritten by what came of it (inventory.cpp:447-455, 571-604,
\* 707-711).
SavesLoseNothing ==
    [][file # none /\ file' # none =>
         DOMAIN file.items \ DOMAIN file'.items \subseteq removed \cup removed']_vars
===============================================================================

# csgo_gc: specifications

csgo_gc replaces the Steam game coordinator of CS:GO. A library is loaded into the game and into
game servers, hooks the Steam interfaces, and answers in the process what Valve's servers used to
answer over the network: the inventory, loadout, storage units, the store, and what a game server
needs to know about the items of its players.

This directory holds TLA+ specifications of its core: modules (`*.tla`), TLC configurations
(`*.cfg`), and proofs checked by TLAPS (`*_proofs.tla`). Paths below are relative to
`src/csgo_gc/` of the repository. `PROJECT.json` names, for every definition, the lines it models.

    tlc -workers 2 -config Storage.cfg MCStorage.tla       # model-check one run
    tlapm Storage_proofs.tla                               # check one module's proofs

## 1. Inventory of the system

### Threads and processes

* The **main thread** of the game (or of the game server) runs the Steam hooks. Messages the game
  sends to the coordinator, Steam callbacks and the per-frame `RunCallbacks` all happen there.
* Each coordinator object (`ClientGC`, `ServerGC`) has one **worker thread**, which alone touches
  the inventory and the rest of the object's state.
* The RCON server has a **listener thread** and one thread per connection.
* Client and server talk through `ISteamNetworkingMessages`, a session-based network API.

### Components

| Component | State | Operations | Talks to | What is hard | What makes it correct |
|---|---|---|---|---|---|
| **Event loop** `SharedGC` (`gc_shared.*`) | two event queues, stop flag | `PostToGC`, `PostToHost`, `GetHostEvents`, `StopThread`, worker loop | every thread of the process | the signal is conditional and sent after the unlock; batches are handled without the lock; stop races with posts | no lost wakeup, nothing lost, duplicated or reordered, stopping drains and returns |
| **Steam hooks** (`steam_hook.*`) | `s_clientGC`, `s_serverGC`, auth tickets seen | proxies of the Steam interfaces, `Hk_SteamAPI_RunCallbacks`, `Hk_SteamGameServer_RunCallbacks` | game, Steam, coordinators, networking, RCON | what is called when: a message queued before a disconnect is handled after it | order of unsubscribe and messages; nobody uses a destroyed object |
| **Handshake** `NetworkingServer` / `NetworkingClient` | per player: ticket, attempts, next attempt, acknowledged; on the client: tickets, current server | `ClientConnected`, `ClientDisconnected`, `Update`, session request, session failed, `SetAuthTicket`, `ClearAuthTicket` | each other over a lossy session, their coordinators | loss, late replies to replaced tickets, callbacks in any order, a limited number of attempts | it completes; a failed path does not renew the budget; the client's items go to the right server |
| **RCON server** (`rcon_server.*`) | listener state, running flag, socket, connection threads, the client it may use and a count of its users | `Start`, `Stop`, `ThreadMain`, `HandleConnection`, `RegisterClient`, `UnregisterClient`, `ExecuteCommand` | `ClientGC` from foreign threads | atomics without locks, a socket two threads may close, waiting for users that wait for the worker | one close, no thread left, one way out of every state, no use after destruction, no deadlock |
| **ClientGC** (`gc_client.*`) | the inventory, tracked equipped items, pending purchase, pending deep-stats requests | one handler per message type and RCON command | game, game server, inventory | publishing exactly what changed, to two receivers with different filters | the game's and the server's copies equal the inventory |
| **Inventory: storage units** (`inventory.cpp`) | items with references, counters | deposit, withdraw, name a casket, remove, create | the file | two redundant representations of "what is in the casket" changed by different operations | withdrawals succeed, references keep their meaning |
| **Inventory: loadout** | `equipped_state` of items, `m_defaultEquips` | `EquipItem` and its swaps, unequip | ClientGC | two lists with one meaning, swaps between them, updates whose order matters | one thing per place, one place per class, receivers agree |
| **Inventory: use and modification** | attributes | stickers, names, kill counters, counter swap, trade-up, unboxing, season passes | the file | an operation of several steps failing half way; the default-item clones | all or nothing; nothing is created that the game does not hear of |
| **Inventory: persistence, versions** | the file, `m_version`, load state | `WriteToFile`, `ReadFromFile`, roll back on failure | disk | crash between change and save; the version the client compares | saved or rolled back; equal versions, equal contents |
| **Store** (`gc_client.cpp`, `steam_hook.cpp`) | the pending transaction, the pending authorization | init, finalize, RCON give and remove of the stats subscription | game's overlay callbacks | the authorization is delayed and races with the next order and with a new coordinator; what was validated may change | made once, exactly what was ordered; the store opens again |
| **ServerGC** (`gc_server.*`) | music kit states under two indexes | subscription, validation, updates, unsubscription, MVP events | game server, ClientGC | two indexes, user ids that are reused | indexes agree; nothing kept of a player who left |
| **Music kit counter** (`music_kit.*`) | cached counts, injected field | read, mirror, increment | ServerGC, ClientGC, main thread | a mirror read on another thread | the count shown is the count stored |
| **Saved item shuffles**, **local user stats** | emulated cloud file; stats file | asynchronous reads, limits; set/store | game | callbacks after removal, partial files | what was written is read |
| Schema, loot lists, case opening, KeyValue, configuration, graffiti, platform, launcher | tables read once | lookups, parsing, random choice | – | sequential data conversion | – |

The hazards each of these is exposed to are listed line by line under `hazards` in `PROJECT.json`,
with the properties that cover them or a note where none does yet.

## 2. Modules

    EventLog  <--implements--  SharedGC  <--INSTANCE--  ClientLifetime      RconListener
    Storage     Handshake     MusicKit     Persistence     Loadout     Store
    Tables  <--EXTENDS--  ItemTools, Shuffles
    <name>_proofs of Storage, Handshake, MusicKit, Persistence, Loadout and Store
    Rcon_proofs:   ClientLifetime and RconListener
    Queues_proofs: SharedGC, ItemTools and Shuffles, which share lemmas about sequences and folds
    MC<name>: the small instance of <name> that TLC checks

An operator `Name_Change` placed next to an operator `Name` is a *mutant*: `Name` with a plausible
mistake in it. Nothing refers to it. It documents which mistake a property catches: with `Name`
defined as `Name_Change` the property named with it in `PROJECT.json` fails in its run.

### EventLog, SharedGC

`EventLog` says what the callers of a coordinator rely on: an accepted event is handled once, in
order, and, while the worker is scheduled, in the end. `SharedGC` is the mechanism. One action is
one critical section, or one step between two: `PostToGC` pushes and remembers whether the queue
was empty, `Notify` is the signal after the unlock; `Sleep`, `TakeBatch`, `HandlerReturns`, `Exit`
are the worker; `StopSet`, `StopNotify`, `Join` are `StopThread`. `posted`, `handled`, `delivered`
are histories. `Push` adds to `PostToGC` what the class asks of its owner and does not check: that
nobody posts once it is being stopped. `ClientLifetime` discharges that assumption.

### ClientLifetime

The main thread creates a client, registers it, posts to it, unregisters and destroys it
(`steam_hook.cpp` 569-635); connection threads take the client, post a command, wait at most five
seconds for its promise and leave (`rcon_server.cpp` 153-184, 582-620; `gc_client.cpp` 376-395).
The event loop of the present client is an instance of `SharedGC`; `Create` resets it.
`UnregisterClient` and the two counter updates are critical sections under `m_mutex`; `WaitForIdle`
and `WakesUp` are `m_clientIdle.wait`, including spurious wakeups. A timeout may come at any time
while the promise is not set: the five seconds are abstracted to "sooner or later".

### RconListener

Every access to shared state is a step: the atomics `m_listenerState` and `m_running` one by one
(`MarkListenerFailed` alone is three steps), the critical sections under `m_mutex`, `accept`,
`shutdown`, `close`. `Start` is one step because nothing else of the server runs while the state is
`NotStarted`, and `m_lifecycleMutex` excludes `Stop`. Several `Start`s may come before and after
`Stop`. A connection tests `m_running`, receives and answers, each a step: `recv` returns within a
second, `send` (`rcon_server.cpp` 109-129) when the peer reads. Not modelled: the reuse of
descriptor numbers by the operating system between `Stop`'s close and the listener's `accept`
(listed as a hazard).

Three behaviours the model shows that no text of the repository excludes: a listener that finds
`m_running` false withdraws the socket from `m_listenSocket` before `Stop` takes it, and then
neither closes it (the port stays bound until the process ends); `m_connectionThreads` keeps ended
threads until `Stop`; and a peer that sends commands and reads no answers keeps its thread in
`send`, where neither a timeout nor `Stop`, which shuts down only the listening socket, reaches it:
`Stop` then waits for that thread as long as the peer likes. `StopReturns` therefore has the premise
that no connection answers for ever.

### Handshake

One player, several servers, several auth tickets. `clients`, `tickets`, `serverSteamId` are the
members of the two classes; the network is a queue per direction of a session, which a broken
session empties. Steam's rules as the code uses them: sending opens the sender's side of a session;
the first message into a side that is not open raises a session request there; closing the channel
drops what waits. Messages of the ClientGC wait in `outbox` until the main thread sends them to
*whatever server is current by then* (`steam_hook.cpp` 1944-2047). The ServerGC's queue is in the
model because a disconnect is told to it by an event behind the messages already queued. Time is
counted in seconds by `wait`, the distance to `nextConnectAttempt`; every action of another player
or of the game server's logged-on state is left out (`Update` runs only while the server is logged
on, `steam_hook.cpp` 2059; the fairness below assumes it is). With `Oversized` the ServerGC may
find more equipped items in a snapshot than it takes and ignore it (`gc_server.cpp` 375-379,
439-444), after the networking object has acknowledged it. Left out is `CloseSessionWithUser` after
a send that was refused for want of a connection (`networking_server.cpp` 112-119,
`networking_client.cpp` 135-138), which both sides reach only if the restart flag of the send had no
effect: the model's broken session is already closed on both sides.

### Storage

Items are `casket`, `count` (the contents attribute; `none` before the casket is named),
`storedIn` (the two attributes of `EmbedStorageReference` as one number). `CreateItem` stands for
every way an item is made, `DestroyItem` for every way one is consumed, and both `CreateItem` and
`ReadFromFile` get their ids from `AllocateItem`: the number asked for, or the one after the last if
that is 0, and while it is taken the one after it. A file is a set of entries, each with the number
it stands under. The first one (`FirstFiles`) may have been edited by hand: two entries with one
number, with 0, or with numbers others will be given, which is what the loop of `AllocateItem` is
there for. `ReadFromFile` reads an entry at a time, in any order, since the order of a file that was
edited is anything; no other operation runs before the last one (`Ready`: it is the constructor that
reads). The last id is not in the file: it becomes whatever `AllocateItem` saw. The ids that would be
read as base items (`ItemIdDefaultItemMask`), which the loop skips, are left out, and of a file
edited by hand it is assumed that no casket is in a casket.

`Save` is `WriteToFile`; a handler that saves as part of its work (season pass, journal, kill
counter) does not touch caskets, and is its item changes followed by `Save`, with possibly a crash
between, which its rollback would otherwise hide: the model allows more than the code does.
`Restart` begins to load the last file, or the present inventory if the destructor saved it.
`born`, `alive` and `home` are histories: which creation made an item, which creations have not been
undone by a removal or by the loss of what was not saved, and which creation made the casket an item
was put into, so that a property can speak of *which* casket an id meant then.

The capacity is a constant (1000 in the code). Counters cannot overflow: they stay in
`0..Capacity`, which `ContentsCounted` includes.

`clean` says that every file loaded was empty or written by the program, and that in none an item
refers to a casket that is not in it. It is the honest limit of what the code guarantees: removing a
casket leaves references behind (`inventory.cpp` 1134, which the inventory check of 2706-2712 would
report), a file keeps them, and after a restart the highest id *in the file* may be lower than such
a reference. A new item may then get the id of the lost casket; a stored spray that is unsealed keeps
its reference and may get that id itself, and is then stored in itself; and if it is a casket
those items appear in it, uncounted. Without that condition `ContentsCounted` and
`ReferencesKeepTheirMeaning` do not hold; `NothingIsOverwritten` does. Likewise an item that is removed
while it is in a casket goes on counting (`inventory.cpp` 2729-2747 would report it): the counter
is an upper bound of the contents, not their number.

### Loadout

`items[i].equipped` is a set of class/slot pairs, `defaults` is `m_defaultEquips`. Each operation of
`EquipItem` is an action: a unique item, a base item (`EquipDefault`, `SwapWithItem`,
`SwapWithDefault`: the three ways its code goes), clearing a slot, unequipping for a class, and the
operations elsewhere that change the loadout (unsealing a spray, depositing and removing items).
Each publishes its list of shared objects *in the order of the code*, which matters because the game
keeps default equips by class and slot. `game` is the game's copy: the last snapshot with the
updates applied in order. `server` is the game server's copy, which gets the objects that
`GameServerItemDirty` lets through. The game's server accepts a snapshot of `MaxServerSOCacheItems`
at most and drops a larger one (`Accepts`); what its game does with updates for a player it never
accepted is outside the repository, and taken to be nothing. `SetToSeq` picks one order for objects
that the code emits in the order of its map; they have different keys.

### MusicKit

The counter has three homes: the item's attribute (`mvps`, with `equipped` for the slot), the mirror
of the client (`cached`, `localUser`; `gate` is the game mode in which counting applies), and the
states of the ServerGC under two indexes (`bySteam`, `byUser`). `link` is what a player's messages
pass in order: the network, and behind it the ServerGC's queue. A disconnect loses a suffix of what
is still on the network and queues the unsubscription behind the rest (`Reached` keeps what is
already in the queue). `HandleEvent` is one step per state or item because `UpdateMusicKitMVPState`
and `TrackMusicKitFromItem` take `m_musicKitMVPStateMutex` once per item. The engine's user ids only
grow. `PlaysElsewhere` stands for a session on another server: nothing resets `m_localUserId` in
between, so the id of that server is sent on this one until the next `round_start`. An increment
whose save fails changes nothing and is no step. `lost` is a history. Widths are not modelled: the
count is an `int32_t` at the client, an attribute of `uint32_t`, and counts of that size are out of
reach in play.

What the indexes do *not* promise, and the model shows: a player who still carries another server's
user id takes, and when he leaves erases, the entry of the player who has that id here, until that
player's next state; so `NoOrphanEntry` says that every entry under a user id is some player's, and
not that every player with a user id has an entry. And the mirror is not refreshed when the kit in
the slot is deleted or put into a casket: the next `round_start` sends its count again.
`CountFollowsKit` exempts that time by comparing the mirror with the inventory.

### Persistence

Three copies: the inventory (`items`, `level`, `season`, `favorites`, `lastId`), the file, and the
game's shared object cache with its version. The operations that save before they report success
(prestige medal, event favorite, mission card, season pass, tournament ticket, journal graffiti,
kill counter) take `saved`, whether `WriteToFile` succeeded, and undo *everything* when it did not;
the others (`CreateItem`, `RemoveItem`, `OpenPackage`, `SetItemPositions`) leave the file alone.
`Publish` is the version bump with the update the game gets; `sent` is what the game's cache will be
when it has fetched everything, and `GameReceives` makes it so. `Construct`, `Destruct` and
`ProcessEnds` are the constructor with its reading of the file, the configuration and the saving
switch, the destructor with its save, and a crash. Reading a file drops every stats subscription but
the newest (`DeduplicateStatsSubscriptions`), without a word to anyone, and the next save drops them
from the file: `removed` counts them, so that `SavesLoseNothing` says what is really lost.
`SayHello` and `OnClientHello` compare versions.

Two things the model shows and the properties exempt. A coordinator that is created again in one
process begins with a version one higher than its predecessor began with and soon reaches a number
that one used for other contents, and a game that kept its cache then gets no snapshot, although
the comment of `OnClientHello` (`gc_client.cpp` 1966-1967) leaves it out "when it is still current".
`GameCatchesUp` therefore speaks of the coordinator the game's cache comes from
(`sent.from`). And a few changes reach the game only with the next snapshot (`hidden`), for
example the items a request placed before it met an unknown id. A game that opens a package is told
a version one lower than the inventory's, which costs a snapshot and nothing else.

### ItemTools

Each request is one action with the list of messages in the order the code posts them; the game's
copy lags by `toGame`, so a request may name what is already used, and come twice. The schema is
three predicates and three tables (`CanApplySticker`, `CanNameDefIndex`, `CanStatTrakSwapDefIndex`,
which the swap asks for both weapons at `inventory.cpp` 2976-2985; `BaseItems`, `Loot`, `Contents`);
random choice is `\E`. A sticker slot is the sequence of wears applied to it, because the code adds
a second sticker in a slot to the first. `ScrapeSticker` does not check the slot a request names:
one beyond the slots has no sticker and behaves as an empty one does. `granted` counts what was
given, in units that a sound conversion cannot raise: the worth of a weapon is the number of
contract items of common rarity it takes to make it, of a sticker or a name one. `Tables` has the
operations on the map of items and the sums, which `Shuffles` uses as well.

What it shows besides its properties: opening with key id 0 is opening without a key, by intent; a
counter swap of an item with itself uses up the tool; a trade-up uses up its inputs whatever
`destroy_used_items` says. The exemptions of the properties are histories: `hidden`, a base-item
clone made for a sticker that then could not be applied, and `bare`, a clone left without any
customization in the same way or by an empty name. Caskets are in `Storage` only: the reference of a
clone that was put into one is an attribute as well and keeps it (`inventory.cpp` 136-139).

### Store

The order goes through the coordinator's queue, `Frame` (a frame of the main thread,
`steam_hook.cpp` 1944-2047) takes the replies and arms the delayed authorization, `Retrieve` is the
game fetching messages, `DelayPasses` the callback it gets after the delay. `RconCommand` runs on
the worker. `Recreate` destroys the coordinator and creates the next one in the same process. The
subscription (item 4748) has an object and a status of its own, so three things tell the game
about it: `SubscriptionKnown` says they agree. A hello is answered with a snapshot or, if the game
has the version the coordinator is at, without one (`OnClientHello`); whether it has is decided in
`Persistence` and left open here. `welcomed` is a history: the game was sent a snapshot by this
coordinator. Without one a game is told nothing of what loading the file changed, in particular of a
subscription that became active by it, and `SubscriptionKnown` asks less of it: that a status it was
told is true, and that a completed purchase names items it knows.

What it shows: a subscription given by RCON has no starting time, so it is inactive until the file
is loaded again, but forbids buying one; removing one of two clears the time of the other; a game
that lets go of its purchase leaves the coordinator with a pending transaction that refuses every
order until it is created again (`gc_client.cpp` 2450), which `StoreOpensAgain` therefore excepts;
a finalization that fails half way removes what it made but keeps the higher last id.

### Shuffles

The file of saved item shuffles on the local disk in place of Steam's cloud. `FileWrite` is five
steps (open a temporary file, write parts, flush, replace, or fail) and an asynchronous read two
(read, store the result), because threads of the game may run between them and the power may fail.
After `PowerFails` a file that was not flushed may have any prefix of its contents, and the name may
belong to anything it belonged to since the last start, for the directory is not flushed. Results
wait for the game with a limit in number and in bytes, and the oldest give way.

## 3. Runs

| Run | Instance | Shows |
|---|---|---|
| `SharedGC` | two posting threads, three events, two replies each | `NoLostWakeup`, `DrainedWhenJoined`, `HostEventsInOrder`, `StopReturns`; refinement of `EventLog`, liveness included (`ImplementsEventLog`) |
| `ClientLifetime` | two connections, two clients one after another, two events each | `NoUseAfterDestroy`; every step on the event loop is one of `SharedGC` (`UsesGCAsSpecified`); `NobodyWaitsForEver` |
| `RconListener` | two connections, two calls of `Start` | `SocketClosedOnce`, `StateTellsTheTruth`, `NothingRunsAfterStop`, `DisabledForThisProcess`, `StopReturns` if the peers read |
| `Handshake` | two servers, two tickets, two sessions begun, one broken session, snapshots a ServerGC takes or ignores | `NoGhostSubscription`, `CurrentServerPresentedTicket`, `BudgetRenewal` |
| `HandshakeLive` | one server, two tickets, six attempts, one broken session, one refused send | `HandshakeCompletes` |
| `Storage` | four ids, capacity two, two restarts, four first files, three with colliding numbers | `NothingIsOverwritten`, `ContentsCounted`, `ReferencesKeepTheirMeaning` |
| `Loadout` | two classes, two slots, two base items, three items, one a spray | `LoadoutConsistent`, `GameMirrorsLoadout`, `ServerSeesLoadout`, `SwapKeepsEverything` |
| `MusicKit` | two players, two kits each, two user ids, counts to one, three messages on a link, four changes | `NoOrphanEntry`, `CountFollowsKit` |
| `Persistence` | two configurations, two ids, levels to two, four versions, two coordinators | a crash loses no durable change (`CrashLosesNothingDurable`), `GameCatchesUp`, `FailedSaveChangesNothing`, `SavesLoseNothing` |
| `ItemTools` | eight starting inventories, two slots, one scrape, contracts of two, four ids, four messages under way | `NothingFromNothing`, `GameSeesEverything`, `CloneIsCustomized` |
| `Store` | three orders, two purchases, two RCON commands (no second one after the second order), two coordinators | `OneAuthorization`, `WhatWasOrdered`, `SubscriptionKnown`, `StoreOpensAgain` |
| `Shuffles` | two threads, two writes, three reads, two results kept, one power loss | `FileIsWhole`, `ResultsLast` |

The types of the variables are part of the first property of a run (for example of
`NoGhostSubscription`), or proved: `SharedGC`, `ClientLifetime`, `Storage`, `MusicKit`.

### The bounds, and why they are enough

* `SharedGC`: a lost wakeup needs a push to an empty queue racing with the worker's test, and a push
  to a non-empty queue that owes no signal: two posters and three events give both, before and after
  a batch is taken. The proofs cover any number.
* `ClientLifetime`: two connections, so that one can use the client while another leaves; two
  clients, so that a stale pointer would be noticed; the safety part is proved for any number.
* `RconListener`: the server starts once in its life, so the bound on `Start` only limits the calls
  that do nothing; two connections give one that ends before and one that ends after the listener.
* `Handshake`: a late reply needs two tickets; the wrong server needs two servers. The safety run
  uses two attempts and a delay of one second because the delays only decide when a retry is
  possible, and `Timely = FALSE` lets it happen at any time relative to messages. The liveness run
  uses the code's six attempts, with delays scaled to one and two seconds; with fewer attempts than
  failures no protocol could succeed, so the bounds on failures stay below the attempts.
* `Storage`: a casket and another one that takes its id, an item and one more; capacity two gives
  the counter a value that is neither end. Two restarts allow a restart from a restarted session. The
  first files have an item and a casket under one number, two items under one number that is not the
  first, and a name that is no number before or after the one it would be given.
* `Loadout`: with two slots every swap has a slot to come from and one to go to; with two base items
  one displaces the other; the spray's class has slots of its own. The server accepts two items, so
  a snapshot may be refused, with and without an earlier one that was accepted.
* `MusicKit`: two players for one id carried over from elsewhere; two kits because a change of kits
  is three messages; a count that is zero or one tells an increment that arrived from one that did
  not; three messages are the longest list one handler sends, and shorter ones queue behind others.
  Four changes are enough to play elsewhere, return, change kits and count.
* `Persistence`: an item that is activated and what it becomes; two configurations so that a new
  coordinator may have another level than the game's cache; two coordinators because what a
  predecessor leaves behind is seen by the first successor; a file with two subscriptions; four
  versions let two changes of the first process meet two of the second.
* `ItemTools`: the starting inventories hold what each tool needs and, where there is room, what a
  second use needs. Two sticker slots, so that a clone may keep one sticker when it loses the other; a
  sticker is put into an empty slot (`MaxApplied`), and slots with two stickers in them are in one of
  the starting inventories. A fourth item can be created where three are at the start. Four messages
  are the longest list one handler posts; an item of the highest rarity and contracts of two make the
  refusal of a too rare input happen. RCON gives a key or a weapon that
  has kills. The proofs cover any of these numbers.
* `Store`: the second order may come while the first waits for its authorization, after the game let
  go of it, or in the next coordinator; the orders are of an ordinary item twice, of the subscription
  with another item, and of the subscription twice, which is refused. Two commands are needed to
  give a second subscription and remove one; only a second command after the second order is left out
  (`MaxEvents`).
* `Shuffles`: a file of two parts can be cut in the middle; a third read pushes out the oldest of two
  results; two results of two bytes exceed the three bytes that may wait.

Deadlock is checked in `Storage`, `Loadout` and `ItemTools`, where something can always be done. The
other systems really stop: an object is destroyed, the listener ends, players leave, the last
coordinator or purchase is done and nothing more happens. What must not get stuck there is said by
the liveness properties.

### Fairness

Weak fairness of the steps of threads that can run: the worker loop, a thread between its push and
its signal, the threads inside `StopThread`, `Stop` and a command. Nothing is assumed about what the
player, the peers or the network do, unless said here. In `SharedGC` no fairness is given to posts,
spurious wakeups or stopping; in `ClientLifetime` a command's answer-or-timeout is fair because the
wait is bounded by five seconds; in `RconListener` `accept` returns only when the socket is shut
down or closed, and a connection's `recv` returns within a second; its `send` has no timeout, so
nothing is assumed of it, and `StopReturns` has the premise that the peers read what they are sent;
a step that *may* fail, like `AcceptFails` on an open socket, is not fair. In `Store` the worker and
the frames of the main thread are fair, the delay passes, the game fetches its messages, and it
answers an authorization it has been given; it need not order, nor stay. `HandshakeLive` assumes
that both main threads run their frame again and again, and that messages that are not lost take
less than the retry delay (`Timely`): over a network that holds every message longer, six attempts
can be spent before the first is answered.

`HandshakeCompletes` reads: if from some time on the server keeps its session with the player and
the player keeps the ticket of that session, then from some time on the server has the socache and
has published it. The premise is satisfied by every behaviour in which the player stays.

### Where the code disagrees with its own text

Each of these was seen in a behaviour of the models; the properties above are stated so that they
hold of the code as it is.

* A hello with the present version need not come from a game with the present inventory
  (`gc_client.cpp` 1966-1967 says the snapshot is left out "when it is still current"; `inventory.cpp`
  42-54): another coordinator of the process may have reached that version with other contents.
* A change from one StatTrak kit to another makes the server forget the user id (`gc_server.cpp` 118)
  that the comment at 129 says it keeps; the next `round_start` sends it again.
* A socache that answers a replaced ticket acknowledges its successor (`networking_server.cpp` 62-68).
* A casket can be removed with items in it (`inventory.cpp` 1134), which the inventory check
  (2706-2712) calls an issue.
* The update that announces an unsealed spray is serialised before its charges are set
  (`inventory.cpp` 1192-1195).
* Failed sessions and session requests spend the same six attempts as the delays, so the "about a
  minute, which covers map loads" of `networking_server.cpp` 6-8 shrinks when the path is bad.

## 4. Proofs

Eight modules hold theorems, for every value of the constants.

* `Queues_proofs`, the event loop. `TypeCorrect`, `WakeupsNotLost`, `EventsConserved`, `StopDrains`,
  `HostEventsKeepOrder` (`HostEventsInOrder`), and `RefinesEventLog`: initial states of the loop are
  initial states of the log and every step is a step of the log or a stutter. `NoLostWakeup` is not
  inductive alone: it needs the type invariant and, for the stop request, that the flag is set
  exactly when the stopper has left `idle` (`StopProtocol`, which also says that the worker exits
  only with an empty queue and that nothing is pushed afterwards). `HostEventsInOrder` says that
  what is collected is in order; the invariant (`OrderInv`) extends it to what waits to be collected
  and adds that each of these is of an event that was handled or an earlier reply to the present one
  (`Told`), and that events are numbered as they were posted.
* `Rcon_proofs`, the client's lifetime. `ClientOutlivesItsCommands` (`NoUseAfterDestroy`) and
  `SharedGCContractKept` (`UsesGCAsSpecified`). The inductive invariant adds that
  `m_activeClientCommands` is the *number* of connection threads that use a client (a cardinality
  argument), that the client a thread can take is the present one, and what the owner's phases
  imply of both. So whatever is proved of `SharedGC` holds of each client in each lifetime.
* `Storage_proofs`. `TypeCorrect`, `Unique` (`NothingIsOverwritten`), `WithdrawalsSucceed`
  (`ContentsCounted`), `ReferencesKept`, for any first files. The invariant has a part that holds
  whatever was loaded (`Core`) and one that holds while every loaded file was clean (`Tied`):
  references are below the last id (`Below`), so a new casket cannot inherit contents; counters
  bound the contents (`Counted`); references mean the casket of the deposit (`Meaning`). While a file
  is read, what is in the inventory and what is still to come are apart and together are what should
  be there (`Apart`, `Alive`), and in a clean session every entry gets the number it stands under,
  because the numbers of a file the program wrote are different; so the inventory is a part of the
  earlier one that was saved (`Partly`), and becomes all of it. That `Below` survives a restart is
  exactly what `clean` is for.
* `MusicKit_proofs`. `TypeCorrect`, `NoStaleLookup` (`NoOrphanEntry`) and `CountIsThatOfTheKit`
  (`CountFollowsKit`). `NoOrphanEntry` is inductive with the type invariant: the player whose state
  an entry is stays its witness until that state is replaced or forgotten, and then the entry under
  the id of that state is erased, or it becomes the new state. `CountFollowsKit` says something only
  of a player whose messages are all handled. The invariant (`FollowInv`) says it of the messages on
  the way: of a player with a connection, the last message that decides what the server will show is
  right (`LastWord`, `Says`) or the end of an earlier connection, still to be handled, takes it back
  (`Settles`); of one without, the last message is that end, or it was handled. While the user id is
  not known nothing decides, and the invariant is that the kit the server will end with is the one
  in the slot (`Kept`, `Shows`).
* `Rcon_proofs`, the listener. `OneClose` (`SocketClosedOnce`), `StateIsTrue` (`StateTellsTheTruth`,
  which contains the types), `StopJoinsEverything` (`NothingRunsAfterStop`) and `NeverAgain`
  (`DisabledForThisProcess`). The argument is ownership of the socket: the listener's alone until it
  is published, then `m_listenSocket`'s or the local copy's of `Stop`, until the listener withdraws
  it (`Owner`); a listener that has withdrawn it closes it only if `m_running` was still set, and
  then `Stop`, which clears the flag before it looks, cannot have it (`Cleared`).
* `Handshake_proofs`. `ItemsGoToTicketHolder` (`CurrentServerPresentedTicket`), `NoGhost`
  (`NoGhostSubscription`, which contains the types) and `BudgetKept` (`BudgetRenewal`), for any
  number of servers, tickets, attempts and losses. `NoGhostSubscription` is about an empty queue and
  is not inductive; the invariant is that the last event the server's queue holds for a player
  without a session is his unsubscription (`LastIsUnsubscribe`): everything that arrives after the
  disconnect is dropped. The other two are inductive with the types. `RetryDelays`
  is about an operator: what the recursive function of the delays computes, for every attempt.
* `Persistence_proofs`. `NothingDurableIsLost` (`CrashLosesNothingDurable`, which contains the
  types), `FailureLeavesNoTrace` (`FailedSaveChangesNothing`), `NoSaveLosesItems`
  (`SavesLoseNothing`) and `WhatTheGameHolds` (`GameCatchesUp`), for any files, configurations and
  numbers of items and coordinators. The first three go through one lemma per durable operation:
  whatever it changes before it tries to save, the operation is one of two atomic steps (`Outcome`),
  in which memory and file agree on everything or nothing has changed. The undo code is what needs a
  proof there: an item created, one destroyed and one changed in the map give back the map when
  undone (`Exchanged`, `ChangedAndTaken`), because a new id is above all others. `SavesLoseNothing`
  rests on `Accounted`: what is in the file and not in memory was removed since the file was read,
  as long as saving is enabled at all, and what the deduplication drops counts as removed when the
  file is read (`Deduplicated`). That item attributes survive (`Survives`) compares each item with
  its entry or with a new one. For `GameCatchesUp` the fold over the queue is unfolded (`Folds`,
  `Folded`), and the invariant is that the game's cache with the queue folded into it is the
  inventory. Each operation has a lemma that what it announces takes a cache of the old inventory to
  one of the new (`Told`), and `SetItemPositions` one for any number of items in any order.
* `Loadout_proofs`. `OneThingInEveryPlace` (`LoadoutConsistent`, which contains the types),
  `NothingFallsOut` (`SwapKeepsEverything`), `GameIsTold` (`GameMirrorsLoadout`) and
  `FilterLosesNothing` (`ServerSeesLoadout`). The loadout is kept twice, in the items' `equipped`
  and in the default equips, and every operation is made of a few changes of the two maps: what is
  in a place leaves it (`Freed`), an item or a base item is put into an empty place (`ItemPut`,
  `DefaultPut`), an item loses places (`FewerPlaces`, `FewerDefaults`), comes, goes or is replaced.
  Each change keeps the loadout consistent when it is made in that order, and the swaps, in which
  two of them overlap, leave the set of filled places as it was. The invariant adds that no id is
  above the last one, so a new item replaces none. For the last two the invariant is `Known`: the
  game holds the loadout, the server behind the filter serves it (it may lack items that are not
  equipped), and the filter tracks exactly what is equipped. An update is followed object by object
  (`Knows`, `KnowsPut`, `KnowsFreed`, `KnowsDestroyed`): after each object game and server know the
  loadout as far as it was changed up to there, and each operation has a lemma that its objects, in
  the order the code adds them, reach the loadout it leaves.

* `Queues_proofs`, the item tools. `NothingIsFree` (`NothingFromNothing`), `GameHearsAll`
  (`GameSeesEverything`) and `ClonesAreCustomized` (`CloneIsCustomized`), from the inductive invariant
  `ToolsIInv` (`ToolsInvariant`), for any starting inventories, gifts, contracts and numbers of
  rarities, items, slots and messages.
  `GameSeesEverything` is about the game after it has fetched what is under way, and `Request` about
  what it sees now; the invariant (`Heard`) says that following the messages (`Follow`) leads from the
  present copy to the inventory, and that each notification on the way names items that are there.
  Every operation's list of messages `Brings` a game from the old world to the new one, and that is
  proved once per shape of an operation: one item used on another (`UsedOn`), on two (`TwoOn`), a
  contract (`Traded`), packages. What items are worth is a sum over all ids; a change of one item
  changes one entry of the sum (`Entry`, `Total`), and the inputs of a contract, which are different
  items, are worth `Contract * Power(r) = Power(r + 1)`. The argument needs `IsInjective(inputs)`, and
  with it removed the run finds the counterexample. Where used items are kept, items do come from
  nothing, and only the kills are bounded.
* `Queues_proofs`, the saved item shuffles. `FileStaysWhole` (`FileIsWhole`) and `ResultsWait`
  (`ResultsLast`), for any threads, sizes, ranges and limits. Whatever was the file since the power
  came back was synced before it was renamed and belongs to no writer any more (`Replaced`), so no
  later write or failure touches it and a power loss that brings one back brings back the whole of
  it; an open file is such a one, too, so a read cannot see a part (`Answered`). The count of bytes is
  the sum over the queue (`Queue`); a result that is gone was fetched, or is one of the oldest at a
  time when room was needed, and then the results after it are still too many or too large (`Behind`,
  `Gone`), because what is stored later only adds to them.
* `Store_proofs`. `OneSlotSuffices` (`OneAuthorization`), `OrdersAreFilled` (`WhatWasOrdered`) and
  `GameLearnsAll` (`SubscriptionKnown`), for any orders, items that cannot be made, commands and
  coordinators. That one slot suffices follows one purchase: while its callback waits, as an event
  or for its time, the purchase is pending, and nothing under way can finalize it, since the game
  learns the id it would name only from the callback (`Callback`). `WhatWasOrdered` compares two
  ways of making items, a list of definitions from the lines of the order and item after item, with
  an undo that is exact because new ids are above all others (`Ordered`). For `SubscriptionKnown`
  the invariant follows the messages under way, with a flag that says whether every completion found
  its items (`Known`, `Told`), and says that it leads to the inventory only of a game that was sent
  a snapshot (`Agrees`); removing one of several subscriptions makes the stored time and the items
  disagree unless the invariant knows that a time means an item.

A proof module may hold more than one component: those whose proofs use the same lemmas, about
sequences, sums and folds in `Queues_proofs` and about counted threads in `Rcon_proofs`.

Folds and recursive functions. The provers have no induction, since its rule has an operator as a
parameter. Where a property is about a fold over a queue or an update, or a recursive function, the
proofs argue from a least counterexample: a nonempty set of numbers has a least element (`WFMin`
with `NatLessThanWellFounded`). A recursive function is shown to exist that way, its equations
follow, and so does what a fold does with one element more.

Assumptions: the named `ASSUME`s of the modules. They say what the constants
range over and what the first file may hold, and nothing else is assumed.

The types of the variables are proved of every module (`TypeCorrect`, or the theorem of the first
property of the run: `StateIsTrue`, `NoGhost`, `NothingDurableIsLost`, `OneThingInEveryPlace`,
`ClonesAreCustomized`, `FileStaysWhole`, `OneSlotSuffices`) and not run separately.

Every safety property of the runs is stated by a theorem. Only model-checked is liveness
(`StopReturns`, `NobodyWaitsForEver`, `HandshakeCompletes`, `StoreOpensAgain`, and the fairness part of
`ImplementsEventLog`): it rests on fairness and on when actions are enabled, which this prover does
not reason about.

## 5. Not modelled, and why

* Two thirds of the source lines of the repository are headers of the Steamworks SDK
  (`steamworks/sdk`, 37,000 lines), which declare and do not compute, and a quarter of the rest are
  tests. What the specifications cover is a share of the program's own code.
* The RCON packet parser and the authentication of one connection, the message parser, KeyValue
  files, configuration, item schema and game types: sequential conversion of data. Of the schema only
  what `ItemTools` and `Persistence` ask it is modelled, as tables.
* Case opening, souvenirs, random numbers: statistics, out of TLC's reach; their results are
  nondeterministic choices in `ItemTools`.
* Local user stats (`local_user_stats.*`): sequential maps that are saved and loaded on the main
  thread. One consequence is worth a note: `ResetAllStats` saves, and the list of achievements stored
  by that save is discarded, so an achievement that was set and not yet stored is not announced
  afterwards (`local_user_stats.cpp` 266-333).
* In `Shuffles`: the synchronous read, the size and the timestamp of the file, and the wrap of the
  64-bit call counter. In `Store`: prices. In `ItemTools`: the parameters of `give_item`.
* Handlers of `ClientGC` that answer from a constant or from the configuration and change nothing.
* Graffiti and Panorama patches, platform code, launcher: they patch binaries and files at start.

Three hazards are listed without a property: the socket a listener withdraws while `Stop` runs
(`rcon_server.cpp` 412) stays open, which no text of the repository excludes; when the game is to
know the charges of an unsealed spray (`inventory.cpp` 1192) no text says; and the updates that wait
for the main thread while the server changes (`steam_hook.cpp` 1944) are messages without contents
here, since no module has both the queue to the network and the items.

## 6. Plan

1. A one-shot listener automaton as the abstract specification of `RconListener`, and an atomic
   store as that of `Persistence`.
2. Local user stats as a module, with the registry of callbacks its results go through; composition
   of `Storage` and `Loadout` (a stored item that is equipped), and of `Loadout` and the queue of
   network messages (updates that outlive a change of servers).

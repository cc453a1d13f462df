--------------------------------- MODULE Store ---------------------------------
(***************************************************************************)
(* Buying in the store.  The game sends an order, the coordinator gives it *)
(* a transaction id and remembers it, and asks the main thread for the     *)
(* callback with which Steam would authorize the payment.  The callback is *)
(* delayed, so that the game knows the id when it comes; the game then     *)
(* finalizes the transaction, and the coordinator makes the items.  The    *)
(* stats subscription is special: there may be one, and it has an object   *)
(* and a status of its own.  Administrators give and remove items with     *)
(* RCON commands in between.                                               *)
(***************************************************************************)
EXTENDS Integers, SequencesExt

CONSTANTS
    Orders,      \* orders of the player: sequences of [def, quantity]
    Unavailable, \* definitions that cannot be made (CanCreateItem)
    MaxStorePurchaseItems,
    none,
    MaxPurchases, MaxWaiting, MaxCommands, MaxCreations, \* bounds: orders accepted, messages
                 \* under way when the game posts one, RCON commands, coordinators
    MaxEvents    \* bound: a command comes after fewer orders and commands together

ASSUME StoreAssumption ==
    /\ Orders \subseteq Seq([def : STRING, quantity : Nat])
    /\ {MaxStorePurchaseItems, MaxPurchases, MaxWaiting, MaxCommands, MaxCreations,
        MaxEvents} \subseteq Nat
    /\ none \notin Int

Subscription == "stats_subscription" \* ItemStatsSubscription, item 4748

VARIABLES
    items, lastId,     \* m_items, m_lastHighItemId: def and transaction of an item
    timeInitiated,     \* m_statsSubscriptionTimeInitiated is set
    transactionId, lineItems, \* m_transactionId, m_transactionLineItems
    toGC, outbox,      \* the coordinator's two queues
    inbox,             \* m_messageQueue of the client
    authorization,     \* s_pendingMicroTransactionAuthorization
    shop,              \* the game's purchase
    cache,             \* the game's shared objects: items, subscription; and its status
    orders,            \* history: the accepted orders, by transaction
    completed,         \* history: transactions that were reported as completed
    made,              \* history: what was made for each transaction
    gaveUp,            \* history: the game let go of a purchase under way
    welcomed,          \* history: the game was sent a snapshot by this coordinator
    commands, creations \* history: RCON commands, coordinators created

inventory == <<items, lastId, timeInitiated>>
purchase == <<transactionId, lineItems>>
game == <<shop, cache>>
bounds == <<commands, creations>>
vars == <<inventory, purchase, toGC, outbox, inbox, authorization, game,
          orders, completed, made, gaveUp, welcomed, bounds>>

Held == DOMAIN items
Without(f, ids) == [i \in DOMAIN f \ ids |-> f[i]]
Plus(f, new) == [i \in DOMAIN f \cup DOMAIN new |-> IF i \in DOMAIN new THEN new[i] ELSE f[i]]
With(f, i, x) == Plus(f, [j \in {i} |-> x])
HasItemDefinition(def) == \E i \in Held : items[i].def = def

\* GetStatsSubscription: whether there is one.
Active(its, time) == time /\ \E i \in DOMAIN its : its[i].def = Subscription

-------------------------------------------------------------------------------
(* Messages to the game.                                                   *)

ItemObject(i) == [kind |-> "item", id |-> i, item |-> items'[i]]
DestroyObject(i) == [kind |-> "destroy", id |-> i]
SubscriptionObject(there) == [kind |-> "subscription", there |-> there]
Status == [kind |-> "status", active |-> Active(items', timeInitiated')] \* SendStatsSubscriptionStatus
InitResponse(id) == [kind |-> "init_response", id |-> id] \* none: StoreResultInvalid
FinalizeResponse(ids) == [kind |-> "finalize_response", ids |-> ids]
UpToDate == [kind |-> "up_to_date"]
Snapshot == [kind |-> "snapshot", items |-> items', subscription |-> Active(items', timeInitiated')]

Apply(c, m) ==
    CASE m.kind = "item" -> [c EXCEPT !.items = With(@, m.id, m.item)]
      [] m.kind = "destroy" -> [c EXCEPT !.items = Without(@, {m.id})]
      [] m.kind = "subscription" -> [c EXCEPT !.subscription = m.there]
      [] m.kind = "status" -> [c EXCEPT !.status = m.active]
      [] m.kind = "snapshot" -> [c EXCEPT !.items = m.items, !.subscription = m.subscription]
      [] OTHER -> c

\* A host event asks for the authorization callback, the others are messages.
MicroTransactionResponse(id) == [kind |-> "micro_transaction", id |-> id]
IsMessage(e) == e.kind # "micro_transaction"

\* What the game will have once it has fetched everything.
Fetched == FoldLeft(Apply, cache, inbox \o outbox)

-------------------------------------------------------------------------------
Init ==
    /\ items = <<>> /\ lastId = 0 /\ timeInitiated = FALSE
    /\ transactionId = none /\ lineItems = <<>>
    /\ toGC = <<>> /\ outbox = <<>> /\ inbox = <<>> /\ authorization = none
    /\ shop = [phase |-> "idle", id |-> none]
    /\ cache = [items |-> <<>>, subscription |-> FALSE, status |-> none]
    /\ orders = <<>> /\ completed = {} /\ made = <<>> /\ gaveUp = FALSE /\ welcomed = TRUE
    /\ commands = 0 /\ creations = 1

(* The game.                                                               *)

Post(message) ==
    /\ Len(toGC) + Len(outbox) + Len(inbox) < MaxWaiting
    /\ toGC' = Append(toGC, message)

Order(order) ==
    /\ shop.phase = "idle"
    /\ Post([kind |-> "init", order |-> order])
    /\ shop' = [phase |-> "ordering", id |-> none]
    /\ UNCHANGED <<inventory, purchase, outbox, inbox, authorization, cache,
                   orders, completed, made, gaveUp, welcomed, bounds>>

\* StorePurchaseFinalize may come again.
Finalize ==
    /\ shop.phase \in {"authorized", "finalizing"}
    /\ Post([kind |-> "finalize", id |-> shop.id])
    /\ shop' = [shop EXCEPT !.phase = "finalizing"]
    /\ UNCHANGED <<inventory, purchase, outbox, inbox, authorization, cache,
                   orders, completed, made, gaveUp, welcomed, bounds>>

\* HandleStatsSubscriptionStatus answers.
AskStatus ==
    /\ cache.status = none
    /\ Post([kind |-> "ask_status"])
    /\ UNCHANGED <<inventory, purchase, outbox, inbox, authorization, game,
                   orders, completed, made, gaveUp, welcomed, bounds>>

\* The player leaves the checkout.  Answers to its jobs the game waits for.
GiveUp ==
    /\ shop.phase \in {"ordered", "authorized"}
    /\ shop' = [phase |-> "idle", id |-> none]
    /\ gaveUp' = TRUE
    /\ UNCHANGED <<inventory, purchase, toGC, outbox, inbox, authorization, cache,
                   orders, completed, made, welcomed, bounds>>

\* RetrieveMessage, and what the game does with the message.
Retrieve ==
    /\ inbox # <<>>
    /\ inbox' = Tail(inbox)
    /\ cache' = Apply(cache, Head(inbox))
    /\ shop' =
         CASE shop.phase = "ordering" /\ Head(inbox).kind = "init_response" ->
                IF Head(inbox).id = none THEN [phase |-> "idle", id |-> none]
                ELSE [phase |-> "ordered", id |-> Head(inbox).id]
           [] shop.phase = "finalizing" /\ Head(inbox).kind = "finalize_response" ->
                [phase |-> "idle", id |-> none]
           [] OTHER -> shop
    /\ UNCHANGED <<inventory, purchase, toGC, outbox, authorization,
                   orders, completed, made, gaveUp, welcomed, bounds>>

-------------------------------------------------------------------------------
(* The coordinator.                                                        *)

Sends(events) == outbox' = outbox \o events

Quantities(order) == FoldLeft(LAMBDA n, line : n + line.quantity, 0, order)
Lines(order, def) == {n \in DOMAIN order : order[n].def = def}

\* The lines of an order are items that can be made, not too many, and at most one
\* subscription, if there is none.
Acceptable(order) ==
    /\ order # <<>>
    /\ \A n \in DOMAIN order : order[n].quantity > 0 /\ order[n].def \notin Unavailable
    /\ Quantities(order) <= MaxStorePurchaseItems
    /\ \A n \in Lines(order, Subscription) :
         /\ order[n].quantity = 1 /\ Lines(order, Subscription) = {n}
         /\ ~HasItemDefinition(Subscription)

\* The id is a random number: a new one.
StorePurchaseInit(order) ==
    /\ \/ /\ transactionId = none /\ Acceptable(order)
          /\ transactionId' = Len(orders) + 1 /\ lineItems' = order
          /\ orders' = Append(orders, order)
          /\ Sends(<<InitResponse(transactionId'), MicroTransactionResponse(transactionId')>>)
       \/ /\ transactionId # none \/ ~Acceptable(order)
          /\ Sends(<<InitResponse(none)>>)
          /\ UNCHANGED <<purchase, orders>>
    /\ UNCHANGED <<inventory, completed, commands>>

\* The definitions of an order, one for each item.
AddLine(s, line) == s \o [n \in 1..line.quantity |-> line.def]
Flat(order) == FoldLeft(AddLine, <<>>, order)

Bought(id, defs) == [i \in lastId + 1 .. lastId + Len(defs) |-> [def |-> defs[i - lastId], txn |-> id]]
\* An item, and after the subscription's its own object.
Announce(s, object) ==
    s \o (IF object.item.def = Subscription THEN <<object, SubscriptionObject(TRUE)>> ELSE <<object>>)
Objects(n) == FoldLeft(Announce, <<>>, [k \in 1..n |-> ItemObject(lastId + k)])

FinalizePending_KeepsMade(id) ==
    LET defs == Flat(lineItems)
        fails == HasItemDefinition(Subscription) /\ Contains(defs, Subscription)
        done == IF fails THEN SubSeq(defs, 1, SelectInSeq(defs, LAMBDA d : d = Subscription) - 1) ELSE defs
        ids == lastId + 1 .. lastId + Len(done)
    IN
    /\ transactionId' = none /\ lineItems' = <<>>
    /\ lastId' = lastId + Len(done)
    /\ items' = Plus(items, Bought(id, done))
    /\ timeInitiated' = (timeInitiated \/ Contains(done, Subscription))
    /\ IF fails
       THEN Sends(<<FinalizeResponse({})>>) /\ UNCHANGED completed
       ELSE /\ Sends(Objects(Len(done)) \o <<FinalizeResponse(ids)>>
                       \o (IF Contains(defs, Subscription) THEN <<Status>> ELSE <<>>))
            /\ completed' = completed \cup {id}
    /\ UNCHANGED <<orders, commands>>

\* StorePurchaseFinalize of the pending transaction: PurchaseItem for item after item.  A
\* subscription that has appeared since the order was accepted fails, and what was made
\* before it is removed again.
FinalizePending(id) ==
    LET defs == Flat(lineItems)
        fails == HasItemDefinition(Subscription) /\ Contains(defs, Subscription)
        done == IF fails THEN SubSeq(defs, 1, SelectInSeq(defs, LAMBDA d : d = Subscription) - 1) ELSE defs
        ids == lastId + 1 .. lastId + Len(done)
    IN
    /\ transactionId' = none /\ lineItems' = <<>>
    /\ lastId' = lastId + Len(done)
    /\ timeInitiated' = (timeInitiated \/ Contains(done, Subscription))
    /\ \/ /\ fails
          /\ items' = Without(Plus(items, Bought(id, done)), ids)
          /\ Sends(<<FinalizeResponse({})>>)
          /\ UNCHANGED completed
       \/ /\ ~fails
          /\ items' = Plus(items, Bought(id, done))
          /\ Sends(Objects(Len(done)) \o <<FinalizeResponse(ids)>>
                     \o (IF Contains(defs, Subscription) THEN <<Status>> ELSE <<>>))
          /\ completed' = completed \cup {id}
    /\ UNCHANGED <<orders, commands>>

StorePurchaseFinalize(id) ==
    \/ transactionId = id /\ FinalizePending(id)
    \/ /\ transactionId # id
       /\ Sends(<<FinalizeResponse({})>>)
       /\ UNCHANGED <<inventory, purchase, orders, completed, commands>>

\* give_item of a subscription sets no time: it stays inactive until it is loaded from
\* the file.
CreateRconItem ==
    /\ lastId' = lastId + 1
    /\ items' = With(items, lastId', [def |-> Subscription, txn |-> none])
    /\ Sends(<<ItemObject(lastId')>>)
    /\ UNCHANGED <<timeInitiated, purchase, orders, completed>>

RemoveItem_SaysNothing(i) ==
    /\ i \in Held
    /\ items' = Without(items, {i})
    /\ timeInitiated' = (timeInitiated /\ items[i].def # Subscription)
    /\ Sends(<<DestroyObject(i)>>)
    /\ UNCHANGED <<lastId, purchase, orders, completed>>

\* RemoveItem with PublishItemRemoval.
RemoveItem(i) ==
    /\ i \in Held
    /\ items' = Without(items, {i})
    /\ timeInitiated' = (timeInitiated /\ items[i].def # Subscription)
    /\ Sends(<<DestroyObject(i)>> \o (IF items[i].def = Subscription
                                     THEN <<SubscriptionObject(FALSE), Status>> ELSE <<>>))
    /\ UNCHANGED <<lastId, purchase, orders, completed>>

Answer(message) ==
    /\ UNCHANGED <<inventory, purchase, orders, completed, commands>>
    /\ Sends(<<message>>)

\* BuildClientWelcome: no snapshot for a game that has the inventory's version.  Whether
\* it has is left open here: versions start and advance as in Persistence.
OnClientHello ==
    \/ Answer(Snapshot) /\ welcomed' = TRUE
    \/ Answer(UpToDate) /\ UNCHANGED welcomed

HandleMessage(m) ==
    \/ m.kind = "hello" /\ OnClientHello
    \/ /\ UNCHANGED welcomed
       /\ \/ m.kind = "init" /\ StorePurchaseInit(m.order)
          \/ m.kind = "finalize" /\ StorePurchaseFinalize(m.id)
          \/ m.kind = "ask_status" /\ Answer(Status)

\* The items this step adds for a transaction, with their definitions.
NewItems(id) == [i \in {i \in DOMAIN items' \ Held : items'[i].txn = id} |-> items'[i].def]

Worker ==
    /\ toGC # <<>> /\ HandleMessage(Head(toGC)) /\ toGC' = Tail(toGC)
    /\ made' = [id \in 1..Len(orders') |->
                  Plus(IF id \in DOMAIN made THEN made[id] ELSE <<>>, NewItems(id))]
    /\ UNCHANGED <<inbox, authorization, game, gaveUp, creations>>

\* RCON commands are events of the same thread.
RconCommand ==
    /\ commands < MaxCommands /\ Len(orders) + commands < MaxEvents
    /\ commands' = commands + 1
    /\ CreateRconItem \/ \E i \in Held : RemoveItem(i)
    /\ UNCHANGED <<made, toGC, inbox, authorization, game, gaveUp, welcomed, creations>>

-------------------------------------------------------------------------------
(* The main thread.                                                        *)

Collect_AtOnce(c, e) ==
    IF IsMessage(e) THEN [c EXCEPT !.inbox = Append(@, e)]
    ELSE [c EXCEPT !.authorization = [id |-> e.id, wait |-> 0]]

\* A host event is a message to the game or asks for the callback.
Collect(c, e) ==
    IF IsMessage(e) THEN [c EXCEPT !.inbox = Append(@, e)]
    ELSE [c EXCEPT !.authorization = [id |-> e.id, wait |-> 1]]

\* Hk_SteamAPI_RunCallbacks: takes an authorization that is due, collects the host events,
\* and runs the callback.  The game looks for the order it has the id of.
Frame ==
    LET due == authorization # none /\ authorization.wait = 0
        collected == FoldLeft(Collect, [inbox |-> inbox, authorization |-> IF due THEN none ELSE authorization],
                              outbox)
    IN
    /\ outbox # <<>> \/ due
    /\ inbox' = collected.inbox /\ authorization' = collected.authorization /\ outbox' = <<>>
    /\ shop' = IF due /\ shop.phase = "ordered" /\ shop.id = authorization.id
               THEN [shop EXCEPT !.phase = "authorized"] ELSE shop
    /\ UNCHANGED <<inventory, purchase, toGC, cache, orders, completed, made, gaveUp, welcomed, bounds>>

\* MicroTransactionAuthorizationDelay passes; the game fetches its messages faster.
DelayPasses ==
    /\ authorization # none /\ authorization.wait = 1 /\ inbox = <<>>
    /\ authorization' = [authorization EXCEPT !.wait = 0]
    /\ UNCHANGED <<inventory, purchase, toGC, outbox, inbox, game,
                   orders, completed, made, gaveUp, welcomed, bounds>>

Recreate_KeepsAuthorization ==
    /\ creations < MaxCreations /\ creations' = creations + 1
    /\ toGC = <<>>
    /\ LET subscriptions == {i \in Held : items[i].def = Subscription} IN
         /\ items' = Without(items, subscriptions \ {Max(subscriptions \cup {0})})
         /\ timeInitiated' = (subscriptions # {})
         /\ lastId' = IF Held = {} THEN 0 ELSE Max(DOMAIN items')
    /\ transactionId' = none /\ lineItems' = <<>>
    /\ outbox' = <<>> /\ inbox' = <<>>
    /\ toGC' = <<[kind |-> "hello"]>> /\ welcomed' = FALSE
    /\ shop' = [phase |-> "idle", id |-> none] /\ cache' = [cache EXCEPT !.status = none]
    /\ UNCHANGED <<authorization, orders, completed, made, gaveUp, commands>>

\* The coordinator is destroyed, after its thread has handled what was posted, and another
\* is created.  The inventory is saved and read: of several subscriptions the last stays,
\* and it has a time.  The game says hello and has no purchase.
Recreate ==
    /\ creations < MaxCreations /\ creations' = creations + 1
    /\ toGC = <<>>
    /\ LET subscriptions == {i \in Held : items[i].def = Subscription} IN
         /\ items' = Without(items, subscriptions \ {Max(subscriptions \cup {0})})
         /\ timeInitiated' = (subscriptions # {})
         /\ lastId' = IF Held = {} THEN 0 ELSE Max(DOMAIN items')
    /\ transactionId' = none /\ lineItems' = <<>>
    /\ outbox' = <<>> /\ inbox' = <<>> /\ authorization' = none
    /\ toGC' = <<[kind |-> "hello"]>> /\ welcomed' = FALSE
    /\ shop' = [phase |-> "idle", id |-> none] /\ cache' = [cache EXCEPT !.status = none]
    /\ UNCHANGED <<orders, completed, made, gaveUp, commands>>

-------------------------------------------------------------------------------
Next ==
    \/ Len(orders) < MaxPurchases /\ \E order \in Orders : Order(order)
    \/ Finalize \/ AskStatus \/ GiveUp \/ Retrieve
    \/ Worker \/ RconCommand
    \/ Frame \/ DelayPasses \/ Recreate

Spec == Init /\ [][Next]_vars

\* The threads run, the game fetches its messages and finalizes what was authorized.
Fairness ==
    /\ WF_vars(Worker) /\ WF_vars(Frame) /\ WF_vars(DelayPasses) /\ WF_vars(Retrieve)
    /\ WF_vars(Finalize /\ shop.phase = "authorized")
FairSpec == Spec /\ Fairness

-------------------------------------------------------------------------------
\* Types; and the authorization that waits for its time belongs to the pending purchase:
\* the one slot there is never has to hold two (steam_hook.cpp:190, 1991).
OneAuthorization ==
    /\ Held \subseteq 1..lastId /\ timeInitiated \in BOOLEAN
    /\ transactionId \in DOMAIN orders \cup {none}
    /\ shop.phase \in {"idle", "ordering", "ordered", "authorized", "finalizing"}
    /\ authorization # none => authorization.id = transactionId

\* Definitions under ids that follow each other.
InRow(first, defs) == [i \in first .. first + Len(defs) - 1 |-> defs[i - first + 1]]

\* Exactly what was ordered is made, once, for the purchases that are reported as
\* completed, and nothing for all others, whatever is given and removed meanwhile
\* (gc_client.cpp:2554-2572).
WhatWasOrdered ==
    \A id \in DOMAIN made :
        IF id \in completed THEN \E first \in DOMAIN made[id] : made[id] = InRow(first, Flat(orders[id]))
        ELSE made[id] = <<>>

\* "Publish the SO creates before completing the transaction so the item ids in the
\* response already resolve in the client's cache" (gc_client.cpp:2573-2574).
ResponseResolves ==
    inbox # <<>> /\ Head(inbox).kind = "finalize_response" =>
        Head(inbox).ids \subseteq DOMAIN cache.items

\* Once a game that was sent a snapshot by this coordinator has fetched everything, it
\* knows the items and whether there is an active subscription, also when one of several
\* is removed (gc_client.cpp:985-1012).  With a snapshot or without, the status it was told
\* last is still true, and the items of a completed purchase it knows when it hears of the
\* completion.
SubscriptionKnown ==
    LET known == Fetched
        active == Active(items, timeInitiated)
    IN
    /\ ResponseResolves
    /\ welcomed => known.items = items /\ known.subscription = active
    /\ known.status \in {none, active}

\* The store takes an order again: the authorization of an accepted one comes when the
\* game knows its id ("The host delays this callback until the client has consumed the
\* Init response", gc_client.cpp:2514-2515), and after it the purchase ends.  Only a game
\* that lets go of a purchase leaves the store closed.
StoreOpensAgain ==
    transactionId # none ~> transactionId = none \/ gaveUp
===============================================================================

------------------------------ MODULE Store_proofs ------------------------------
(***************************************************************************)
(* For any orders, items that cannot be made and number of purchases,      *)
(* commands and coordinators: there is one authorization to keep at a      *)
(* time, what is made is what was ordered, and the game learns what it     *)
(* has.                                                                    *)
(*                                                                         *)
(* The argument follows one purchase.  While its callback waits, as a host *)
(* event or for its time, the purchase is the pending one, and nothing is  *)
(* under way that could finalize it: so no other is accepted, and no other *)
(* callback is asked for.  And it follows what the game is told: Known is  *)
(* the copy it will have once it has fetched everything, and whether it    *)
(* will then have known the items of every completed purchase at the time  *)
(* it heard of it.  Every operation of the coordinator sends what brings   *)
(* Known to the new inventory.                                             *)
(***************************************************************************)
EXTENDS Store, FiniteSetTheorems, NaturalsInduction, TLAPS

Accepted == {order \in Orders : order # <<>> /\ \A n \in DOMAIN order : order[n].quantity > 0}
Ids == 1..Len(orders)
Item == [def : STRING \cup {Subscription}, txn : Int \cup {none}]
Items == UNION {[D -> Item] : D \in SUBSET Nat}
Cache == [items : Items, subscription : BOOLEAN, status : BOOLEAN \cup {none}]

Request ==
    [kind : {"init"}, order : Orders] \cup [kind : {"finalize"}, id : Nat]
    \cup [kind : {"hello"}] \cup [kind : {"ask_status"}]

Message ==
    [kind : {"item"}, id : Nat, item : Item] \cup [kind : {"destroy"}, id : Nat]
    \cup [kind : {"subscription"}, there : BOOLEAN] \cup [kind : {"status"}, active : BOOLEAN]
    \cup [kind : {"init_response"}, id : Nat \cup {none}]
    \cup [kind : {"finalize_response"}, ids : SUBSET Nat]
    \cup [kind : {"snapshot"}, items : Items, subscription : BOOLEAN] \cup [kind : {"up_to_date"}]

Reply == Message \cup [kind : {"micro_transaction"}, id : Nat]

TypeOK ==
    /\ items \in Items /\ lastId \in Nat /\ Held \subseteq 1..lastId /\ timeInitiated \in BOOLEAN
    /\ orders \in Seq(Accepted)
    /\ transactionId \in Ids \cup {none}
    /\ toGC \in Seq(Request) /\ outbox \in Seq(Reply) /\ inbox \in Seq(Message)
    /\ authorization \in [id : Nat, wait : {0, 1}] \cup {none}
    /\ shop \in [phase : {"idle", "ordering", "ordered", "authorized", "finalizing"}, id : Int \cup {none}]
    /\ cache \in Cache /\ welcomed \in BOOLEAN

\* Ids that are under way are those of orders.
Requested(n) == toGC[n].kind = "finalize" => toGC[n].id \in Ids
Answered(e) == e.kind = "init_response" => e.id \in Ids \cup {none}

Purchases ==
    /\ \A n \in DOMAIN toGC : Requested(n)
    /\ \A n \in DOMAIN outbox : Answered(outbox[n])
    /\ \A n \in DOMAIN inbox : Answered(inbox[n])
    /\ shop.id \in Ids \cup {none}
    /\ shop.phase \in {"ordered", "authorized", "finalizing"} => shop.id # none

\* The events that ask for the callback.
Asked == {n \in DOMAIN outbox : ~IsMessage(outbox[n])}
Waiting == authorization # none \/ Asked # {}

Callback ==
    /\ authorization # none =>
         authorization.id = transactionId /\ transactionId # none /\ Asked = {}
    /\ \A n \in Asked : outbox[n].id = transactionId /\ transactionId # none
    /\ Waiting =>
         /\ \A n \in DOMAIN toGC : toGC[n].kind = "finalize" => toGC[n].id # transactionId
         /\ shop.phase \in {"authorized", "finalizing"} => shop.id # transactionId

Ordered ==
    /\ DOMAIN made = Ids /\ completed \subseteq Ids
    /\ transactionId # none => lineItems = orders[transactionId] /\ transactionId \notin completed
    /\ WhatWasOrdered

\* What the game will have, and whether it knew the items it was told of.
Resolve(c, e) ==
    IF IsMessage(e)
    THEN [cache |-> Apply(c.cache, e),
          ok |-> c.ok /\ (e.kind = "finalize_response" => e.ids \subseteq DOMAIN c.cache.items)]
    ELSE c
Following(c, s) == FoldLeft(Resolve, c, s)
Known == Following([cache |-> cache, ok |-> TRUE], inbox \o outbox)

\* The two copies, and for a game that was sent a snapshot the whole inventory.
Agrees(c, its, active, seen) ==
    /\ c.ok /\ c.cache.status \in {none, active}
    /\ seen => c.cache.items = its /\ c.cache.subscription = active
Told ==
    /\ timeInitiated => HasItemDefinition(Subscription)
    /\ Agrees(Known, items, timeInitiated, welcomed)

IInv == TypeOK /\ Purchases /\ Callback /\ Ordered /\ Told

-------------------------------------------------------------------------------
(* The folds of the model, as far as their first n steps.  FoldLeft is     *)
(* defined through a function on all the sets of positions; what it gives  *)
(* for the first n positions is Folded.  Five folds meet here.  (The       *)
(* induction is a least counterexample.)                                   *)

Step(k, c, o) ==
    CASE k = 1 -> Apply(c, o)
      [] k = 2 -> Resolve(c, o)
      [] k = 3 -> Collect(c, o)
      [] k = 4 -> AddLine(c, o)
      [] k = 5 -> Announce(c, o)

IsFold(k, f, c, s, n) ==
    f = [x \in SUBSET (1..n) |-> IF x = {} THEN c ELSE Step(k, f[x \ {Max(x)}], s[Max(x)])]

Folds(k, c, s, n) == \E f : IsFold(k, f, c, s, n) /\ \A g : IsFold(k, g, c, s, n) => g = f

Folded(k, c, s, n) == (CHOOSE f : IsFold(k, f, c, s, n))[1..n]

LEMMA MaxIs == ASSUME NEW n \in Nat, NEW x \in SUBSET (1..n), n \in x PROVE Max(x) = n
  <1>1. \A y \in x : n >= y
    OBVIOUS
  <1>2. \A m \in x : (\A y \in x : m >= y) => m = n
    OBVIOUS
  <1> QED
    BY <1>1, <1>2 DEF Max

\* The function for one position more contains the one without it.
LEMMA FoldPart ==
    ASSUME NEW k, NEW c, NEW s, NEW n \in Nat, NEW f, IsFold(k, f, c, s, n + 1)
    PROVE  /\ IsFold(k, [x \in SUBSET (1..n) |-> f[x]], c, s, n)
           /\ \A x \in SUBSET (1 .. n + 1) :
                n + 1 \in x => f[x] = Step(k, f[x \ {n + 1}], s[n + 1])
           /\ \A x \in SUBSET (1 .. n + 1) : n + 1 \in x => x \ {n + 1} \in SUBSET (1..n)
  <1> DEFINE g == [x \in SUBSET (1..n) |-> f[x]]
  <1>1. ASSUME NEW x \in SUBSET (1 .. n + 1)
        PROVE  f[x] = IF x = {} THEN c ELSE Step(k, f[x \ {Max(x)}], s[Max(x)])
    BY Zenon DEF IsFold
  <1>2. ASSUME NEW x \in SUBSET (1..n)
        PROVE  /\ x \in SUBSET (1 .. n + 1) /\ x \ {Max(x)} \in SUBSET (1..n)
    <2>1. 1..n \subseteq 1 .. n + 1
      OBVIOUS
    <2> QED
      BY <2>1, Zenon
  <1>3. ASSUME NEW x \in SUBSET (1..n)
        PROVE  g[x] = IF x = {} THEN c ELSE Step(k, g[x \ {Max(x)}], s[Max(x)])
    <2>1. g[x] = f[x] /\ g[x \ {Max(x)}] = f[x \ {Max(x)}]
      BY <1>2
    <2>2. f[x] = IF x = {} THEN c ELSE Step(k, f[x \ {Max(x)}], s[Max(x)])
      BY <1>1, <1>2
    <2> QED
      BY <2>1, <2>2, Zenon
  <1>4. g = [x \in SUBSET (1..n) |-> IF x = {} THEN c ELSE Step(k, g[x \ {Max(x)}], s[Max(x)])]
    <2>1. g = [x \in SUBSET (1..n) |-> g[x]]
      OBVIOUS
    <2> HIDE DEF g
    <2> QED
      BY <1>3, <2>1
  <1>5. ASSUME NEW x \in SUBSET (1 .. n + 1), n + 1 \in x
        PROVE  f[x] = Step(k, f[x \ {n + 1}], s[n + 1]) /\ x \ {n + 1} \in SUBSET (1..n)
    <2>1. Max(x) = n + 1 /\ x # {}
      BY <1>5, MaxIs
    <2>2. x \ {n + 1} \in SUBSET (1..n)
      OBVIOUS
    <2> QED
      BY <1>1, <2>1, <2>2
  <1> QED
    BY <1>4, <1>5 DEF IsFold

LEMMA Induction ==
    ASSUME NEW T, 0 \in T, \A n \in Nat : n \in T => n + 1 \in T
    PROVE  Nat \subseteq T
  <1> DEFINE bad == Nat \ T
  <1> SUFFICES ASSUME bad # {} PROVE FALSE
    OBVIOUS
  <1>1. PICK n \in bad : \A m \in bad : <<m, n>> \notin OpToRel(<, Nat)
    BY NatLessThanWellFounded, WFMin
  <1>2. n # 0
    OBVIOUS
  <1>3. n - 1 \in Nat /\ (n - 1) + 1 = n /\ <<n - 1, n>> \in OpToRel(<, Nat)
    BY <1>2 DEF OpToRel
  <1>4. n - 1 \notin bad
    BY <1>1, <1>3
  <1> QED
    BY <1>3, <1>4

LEMMA FoldZero ==
    ASSUME NEW k, NEW c, NEW s
    PROVE  Folds(k, c, s, 0) /\ Folded(k, c, s, 0) = c
  <1> DEFINE f == [x \in SUBSET (1..0) |-> c]
  <1>1. SUBSET (1..0) = {{}}
    OBVIOUS
  <1>2. IsFold(k, f, c, s, 0)
    BY <1>1 DEF IsFold
  <1>3. ASSUME NEW g, IsFold(k, g, c, s, 0) PROVE g = f
    BY <1>1, <1>3 DEF IsFold
  <1>4. f[1..0] = c
    BY <1>1
  <1> QED
    BY <1>2, <1>3, <1>4 DEF Folds, Folded

LEMMA FoldMore ==
    ASSUME NEW k, NEW c, NEW s, NEW n \in Nat, Folds(k, c, s, n)
    PROVE  Folds(k, c, s, n + 1) /\ Folded(k, c, s, n + 1) = Step(k, Folded(k, c, s, n), s[n + 1])
  <1> DEFINE m == n + 1
  <1>1. PICK f : IsFold(k, f, c, s, n) /\ \A g : IsFold(k, g, c, s, n) => g = f
    BY DEF Folds
  <1> DEFINE h == [x \in SUBSET (1..m) |->
                     IF m \in x THEN Step(k, f[x \ {m}], s[m]) ELSE f[x]]
  <1>2. ASSUME NEW x \in SUBSET (1..m), m \in x
        PROVE  /\ Max(x) = m /\ x # {} /\ x \ {m} \in SUBSET (1..n)
               /\ h[x] = Step(k, f[x \ {m}], s[m]) /\ h[x \ {m}] = f[x \ {m}]
    <2>1. Max(x) = m /\ x # {}
      BY <1>2, MaxIs
    <2>2. x \ {m} \in SUBSET (1..n) /\ x \ {m} \in SUBSET (1..m) /\ m \notin x \ {m}
      OBVIOUS
    <2>3. h[x] = Step(k, f[x \ {m}], s[m])
      BY <1>2, Zenon
    <2>4. h[x \ {m}] = f[x \ {m}]
      BY <2>2, Zenon
    <2> QED
      BY <2>1, <2>2, <2>3, <2>4
  <1>3. ASSUME NEW x \in SUBSET (1..m), m \notin x
        PROVE  h[x] = f[x] /\ h[x \ {Max(x)}] = f[x \ {Max(x)}] /\ x \in SUBSET (1..n)
    <2>1. x \in SUBSET (1..n)
      BY <1>3
    <2>2. x \ {Max(x)} \in SUBSET (1..m) /\ m \notin x \ {Max(x)}
      BY <1>3
    <2>3. h[x] = f[x]
      BY <1>3, Zenon
    <2>4. h[x \ {Max(x)}] = f[x \ {Max(x)}]
      BY <2>2, Zenon
    <2> QED
      BY <2>1, <2>3, <2>4
  <1>4. ASSUME NEW x \in SUBSET (1..n)
        PROVE  f[x] = IF x = {} THEN c ELSE Step(k, f[x \ {Max(x)}], s[Max(x)])
    BY <1>1, Zenon DEF IsFold
  <1>5. h = [x \in SUBSET (1..m) |-> h[x]]
    OBVIOUS
  <1> HIDE DEF h
  <1>6. ASSUME NEW x \in SUBSET (1..m)
        PROVE  h[x] = IF x = {} THEN c ELSE Step(k, h[x \ {Max(x)}], s[Max(x)])
    <2>1. CASE m \in x
      BY <1>2, <2>1
    <2>2. CASE m \notin x
      <3>1. h[x] = f[x] /\ h[x \ {Max(x)}] = f[x \ {Max(x)}] /\ x \in SUBSET (1..n)
        BY <1>3, <2>2
      <3>2. f[x] = IF x = {} THEN c ELSE Step(k, f[x \ {Max(x)}], s[Max(x)])
        BY <1>4, <3>1
      <3> QED
        BY <3>1, <3>2, Zenon
    <2> QED
      BY <2>1, <2>2
  <1>7. IsFold(k, h, c, s, m)
    BY <1>5, <1>6 DEF IsFold
  <1>8. ASSUME NEW g, IsFold(k, g, c, s, m)
        PROVE  g = h /\ g[1..m] = Step(k, f[1..n], s[m])
    <2> DEFINE part == [x \in SUBSET (1..n) |-> g[x]]
    <2>1. /\ IsFold(k, part, c, s, n)
          /\ \A x \in SUBSET (1..m) : m \in x => g[x] = Step(k, g[x \ {m}], s[m])
          /\ \A x \in SUBSET (1..m) : m \in x => x \ {m} \in SUBSET (1..n)
      BY <1>8, FoldPart
    <2>2. part = f
      BY <1>1, <2>1
    <2>3. \A x \in SUBSET (1..n) : g[x] = f[x]
      BY <2>2
    <2>4. g = [x \in SUBSET (1..m) |-> g[x]]
      BY <1>8 DEF IsFold
    <2> HIDE DEF part
    <2>5. ASSUME NEW x \in SUBSET (1..m) PROVE g[x] = h[x]
      <3>1. CASE m \in x
        BY <1>2, <2>1, <2>3, <3>1
      <3>2. CASE m \notin x
        BY <1>3, <2>3, <3>2
      <3> QED
        BY <3>1, <3>2
    <2>6. g = h
      BY <1>5, <2>4, <2>5
    <2>7. g[1..m] = Step(k, f[1..n], s[m])
      <3>1. 1..m \in SUBSET (1..m) /\ m \in 1..m /\ (1..m) \ {m} = 1..n
        OBVIOUS
      <3>2. g[1..m] = Step(k, g[(1..m) \ {m}], s[m])
        BY <2>1, <3>1
      <3>3. g[1..n] = f[1..n]
        BY <2>3
      <3> QED
        BY <3>1, <3>2, <3>3, Zenon
    <2> QED
      BY <2>6, <2>7
  <1>9. Folded(k, c, s, n) = f[1..n]
    BY <1>1 DEF Folded
  <1>10. Folds(k, c, s, m)
    BY <1>7, <1>8 DEF Folds
  <1>11. Folded(k, c, s, m) = Step(k, f[1..n], s[m])
    BY <1>7, <1>8 DEF Folded
  <1> QED
    BY <1>9, <1>10, <1>11

LEMMA FoldsAll == ASSUME NEW k, NEW c, NEW s PROVE \A n \in Nat : Folds(k, c, s, n)
  <1> DEFINE T == {n \in Nat : Folds(k, c, s, n)}
  <1>1. 0 \in T /\ \A n \in Nat : n \in T => n + 1 \in T
    BY FoldZero, FoldMore
  <1> HIDE DEF T
  <1>2. Nat \subseteq T
    BY <1>1, Induction
  <1> QED
    BY <1>2 DEF T

LEMMA FoldStep ==
    ASSUME NEW k, NEW c, NEW s, NEW n \in Nat
    PROVE  Folded(k, c, s, n + 1) = Step(k, Folded(k, c, s, n), s[n + 1])
  BY FoldsAll, FoldMore

\* The elements beyond the n-th do not count yet.
LEMMA FoldSame ==
    ASSUME NEW k, NEW c, NEW s, NEW t, NEW m \in Nat, \A i \in 1..m : s[i] = t[i]
    PROVE  Folded(k, c, s, m) = Folded(k, c, t, m)
  <1> DEFINE T == {n \in Nat : n <= m => Folded(k, c, s, n) = Folded(k, c, t, n)}
  <1>1. 0 \in T
    BY FoldZero
  <1>2. ASSUME NEW n \in Nat, n \in T, n + 1 <= m PROVE n + 1 \in T
    <2>1. Folded(k, c, s, n + 1) = Step(k, Folded(k, c, s, n), s[n + 1])
      BY FoldStep
    <2>2. Folded(k, c, t, n + 1) = Step(k, Folded(k, c, t, n), t[n + 1])
      BY FoldStep
    <2>3. s[n + 1] = t[n + 1] /\ Folded(k, c, s, n) = Folded(k, c, t, n)
      BY <1>2
    <2> QED
      BY <2>1, <2>2, <2>3
  <1>3. Nat \subseteq T
    <2>1. \A n \in Nat : n \in T => n + 1 \in T
      BY <1>2
    <2> HIDE DEF T
    <2> QED
      BY <1>1, <2>1, Induction
  <1> QED
    BY <1>3

\* The k-th fold of a sequence.
Reduced(k, c, s) == Folded(k, c, s, Len(s))

LEMMA ReducedNone == ASSUME NEW k, NEW c PROVE Reduced(k, c, <<>>) = c
  BY FoldZero DEF Reduced

LEMMA ReducedMore ==
    ASSUME NEW k, NEW c, NEW S, NEW s \in Seq(S), NEW o \in S
    PROVE  Reduced(k, c, Append(s, o)) = Step(k, Reduced(k, c, s), o)
  <1> DEFINE t == Append(s, o)
             n == Len(s)
  <1>1. n \in Nat /\ Len(t) = n + 1 /\ t[n + 1] = o /\ \A i \in 1..n : t[i] = s[i]
    OBVIOUS
  <1> HIDE DEF t, n
  <1>2. Folded(k, c, t, n + 1) = Step(k, Folded(k, c, t, n), o)
    BY <1>1, FoldStep
  <1>3. Folded(k, c, t, n) = Folded(k, c, s, n)
    BY <1>1, FoldSame
  <1> QED
    BY <1>1, <1>2, <1>3 DEF t, n, Reduced

\* A sequence is the prefixes of it, one after another.
Prefix(s, n) == [i \in 1..n |-> s[i]]

LEMMA PrefixIs ==
    ASSUME NEW S, NEW s \in Seq(S)
    PROVE  /\ Prefix(s, 0) = <<>> /\ Prefix(s, Len(s)) = s
           /\ \A n \in 0..Len(s) : Prefix(s, n) \in Seq(S) /\ Len(Prefix(s, n)) = n
           /\ \A n \in 0..(Len(s) - 1) : Prefix(s, n + 1) = Append(Prefix(s, n), s[n + 1]) /\ s[n + 1] \in S
  <1>1. Prefix(s, 0) = <<>>
    BY DEF Prefix
  <1>2. Prefix(s, Len(s)) = s
    BY DEF Prefix
  <1>3. ASSUME NEW n \in 0..Len(s) PROVE Prefix(s, n) \in Seq(S) /\ Len(Prefix(s, n)) = n
    BY DEF Prefix
  <1>4. ASSUME NEW n \in 0..(Len(s) - 1)
        PROVE  Prefix(s, n + 1) = Append(Prefix(s, n), s[n + 1]) /\ s[n + 1] \in S
    <2>1. Prefix(s, n) \in Seq(S) /\ Len(Prefix(s, n)) = n /\ n \in Nat /\ s[n + 1] \in S
      BY <1>3
    <2>2. Append(Prefix(s, n), s[n + 1]) \in Seq(S) /\ Len(Append(Prefix(s, n), s[n + 1])) = n + 1
      BY <2>1
    <2>3. \A i \in 1..(n + 1) : Append(Prefix(s, n), s[n + 1])[i] = s[i]
      BY <2>1 DEF Prefix
    <2> QED
      BY <2>1, <2>2, <2>3 DEF Prefix
  <1> QED
    BY <1>1, <1>2, <1>3, <1>4

LEMMA ReducedPrefix ==
    ASSUME NEW k, NEW c, NEW S, NEW s \in Seq(S), NEW n \in 0..(Len(s) - 1)
    PROVE  Reduced(k, c, Prefix(s, n + 1)) = Step(k, Reduced(k, c, Prefix(s, n)), s[n + 1])
  <1> DEFINE p == Prefix(s, n)
             o == s[n + 1]
  <1>1. p \in Seq(S) /\ o \in S /\ Prefix(s, n + 1) = Append(p, o)
    BY PrefixIs
  <1> HIDE DEF p, o
  <1>2. Reduced(k, c, Append(p, o)) = Step(k, Reduced(k, c, p), o)
    BY <1>1, ReducedMore
  <1> QED
    BY <1>1, <1>2 DEF p, o

LEMMA ReducedOne ==
    ASSUME NEW k, NEW c, NEW o PROVE Reduced(k, c, <<o>>) = Step(k, c, o)
  <1>1. PICK e : e = <<>>
    OBVIOUS
  <1>2. PICK S : S = {o}
    OBVIOUS
  <1>3. e \in Seq(S) /\ o \in S /\ Append(e, o) = <<o>>
    BY <1>1, <1>2
  <1>4. Reduced(k, c, e) = c
    BY <1>1, ReducedNone
  <1>5. Reduced(k, c, Append(e, o)) = Step(k, Reduced(k, c, e), o)
    <2>1. e \in Seq(S) /\ o \in S
      BY <1>3
    <2> QED
      BY <2>1, ReducedMore
  <1> QED
    BY <1>3, <1>4, <1>5

LEMMA ReducedConcat ==
    ASSUME NEW k, NEW c, NEW S, NEW s \in Seq(S), NEW t \in Seq(S)
    PROVE  Reduced(k, c, s \o t) = Reduced(k, Reduced(k, c, s), t)
  <1> DEFINE T == {n \in Nat : n <= Len(t) =>
                       Reduced(k, c, s \o Prefix(t, n)) = Reduced(k, Reduced(k, c, s), Prefix(t, n))}
  <1>1. 0 \in T
    <2>1. s \o Prefix(t, 0) = s /\ Prefix(t, 0) = <<>>
      BY PrefixIs
    <2> QED
      BY <2>1, ReducedNone
  <1>2. ASSUME NEW n \in Nat, n \in T, n + 1 <= Len(t) PROVE n + 1 \in T
    <2> DEFINE p == Prefix(t, n)
               o == t[n + 1]
    <2>1. p \in Seq(S) /\ o \in S /\ Prefix(t, n + 1) = Append(p, o)
      BY <1>2, PrefixIs
    <2>2. Reduced(k, c, s \o p) = Reduced(k, Reduced(k, c, s), p)
      BY <1>2
    <2> DEFINE q == s \o p
               d == Reduced(k, c, s)
    <2>6. q \in Seq(S) /\ s \o Append(p, o) = Append(q, o)
      BY <2>1
    <2> HIDE DEF p, o, q, d
    <2>4. Reduced(k, c, Append(q, o)) = Step(k, Reduced(k, c, q), o)
      BY <2>1, <2>6, ReducedMore
    <2>5. Reduced(k, d, Append(p, o)) = Step(k, Reduced(k, d, p), o)
      BY <2>1, ReducedMore
    <2>7. Reduced(k, c, s \o Prefix(t, n + 1)) = Reduced(k, d, Prefix(t, n + 1))
      BY <2>1, <2>2, <2>4, <2>5, <2>6 DEF q, d
    <2> QED
      BY <2>7 DEF d
  <1>3. Nat \subseteq T
    <2>1. \A n \in Nat : n \in T => n + 1 \in T
      BY <1>2
    <2> HIDE DEF T
    <2> QED
      BY <1>1, <2>1, Induction
  <1>4. Len(t) \in T
    BY <1>3
  <1> QED
    BY <1>4, PrefixIs

\* The folds of the model are these.
LEMMA ApplyFold == ASSUME NEW c, NEW S, NEW s \in Seq(S) PROVE FoldLeft(Apply, c, s) = Reduced(1, c, s)
  <1> DEFINE n == Len(s)
             IsIt(f) == f = [x \in SUBSET (1..n) |-> IF x = {} THEN c ELSE Apply(f[x \ {Max(x)}], s[Max(x)])]
  <1>1. \A f : IsIt(f) <=> IsFold(1, f, c, s, n)
    BY DEF IsFold, Step
  <1>2. DOMAIN s = 1..n
    OBVIOUS
  <1>3. FoldLeft(Apply, c, s) = (CHOOSE f : IsIt(f))[1..n]
    BY <1>2 DEF FoldLeft, MapThenFoldSet
  <1> HIDE DEF IsIt
  <1> QED
    BY <1>1, <1>3 DEF Folded, Reduced

LEMMA ResolveFold == ASSUME NEW c, NEW S, NEW s \in Seq(S) PROVE Following(c, s) = Reduced(2, c, s)
  <1> DEFINE n == Len(s)
             IsIt(f) == f = [x \in SUBSET (1..n) |-> IF x = {} THEN c ELSE Resolve(f[x \ {Max(x)}], s[Max(x)])]
  <1>1. \A f : IsIt(f) <=> IsFold(2, f, c, s, n)
    BY DEF IsFold, Step
  <1>2. DOMAIN s = 1..n
    OBVIOUS
  <1>3. Following(c, s) = (CHOOSE f : IsIt(f))[1..n]
    BY <1>2 DEF FoldLeft, MapThenFoldSet, Following
  <1> HIDE DEF IsIt
  <1> QED
    BY <1>1, <1>3 DEF Folded, Reduced

LEMMA CollectFold == ASSUME NEW c, NEW S, NEW s \in Seq(S) PROVE FoldLeft(Collect, c, s) = Reduced(3, c, s)
  <1> DEFINE n == Len(s)
             IsIt(f) == f = [x \in SUBSET (1..n) |-> IF x = {} THEN c ELSE Collect(f[x \ {Max(x)}], s[Max(x)])]
  <1>1. \A f : IsIt(f) <=> IsFold(3, f, c, s, n)
    BY DEF IsFold, Step
  <1>2. DOMAIN s = 1..n
    OBVIOUS
  <1>3. FoldLeft(Collect, c, s) = (CHOOSE f : IsIt(f))[1..n]
    BY <1>2 DEF FoldLeft, MapThenFoldSet
  <1> HIDE DEF IsIt
  <1> QED
    BY <1>1, <1>3 DEF Folded, Reduced

LEMMA FlatFold == ASSUME NEW S, NEW s \in Seq(S) PROVE Flat(s) = Reduced(4, <<>>, s)
  <1> DEFINE n == Len(s)
             IsIt(f) == f = [x \in SUBSET (1..n) |-> IF x = {} THEN <<>> ELSE AddLine(f[x \ {Max(x)}], s[Max(x)])]
  <1>1. \A f : IsIt(f) <=> IsFold(4, f, <<>>, s, n)
    BY DEF IsFold, Step
  <1>2. DOMAIN s = 1..n
    OBVIOUS
  <1>3. Flat(s) = (CHOOSE f : IsIt(f))[1..n]
    BY <1>2 DEF FoldLeft, MapThenFoldSet, Flat
  <1> HIDE DEF IsIt
  <1> QED
    BY <1>1, <1>3 DEF Folded, Reduced

LEMMA AnnounceFold == ASSUME NEW c, NEW S, NEW s \in Seq(S) PROVE FoldLeft(Announce, c, s) = Reduced(5, c, s)
  <1> DEFINE n == Len(s)
             IsIt(f) == f = [x \in SUBSET (1..n) |-> IF x = {} THEN c ELSE Announce(f[x \ {Max(x)}], s[Max(x)])]
  <1>1. \A f : IsIt(f) <=> IsFold(5, f, c, s, n)
    BY DEF IsFold, Step
  <1>2. DOMAIN s = 1..n
    OBVIOUS
  <1>3. FoldLeft(Announce, c, s) = (CHOOSE f : IsIt(f))[1..n]
    BY <1>2 DEF FoldLeft, MapThenFoldSet
  <1> HIDE DEF IsIt
  <1> QED
    BY <1>1, <1>3 DEF Folded, Reduced

-------------------------------------------------------------------------------
(* What the game is told.                                                  *)

Copies == [cache : Cache, ok : BOOLEAN]

LEMMA ItemsAre == ASSUME NEW f PROVE f \in Items <=> DOMAIN f \subseteq Nat /\ f \in [DOMAIN f -> Item]
  BY DEF Items

LEMMA PlusItems ==
    ASSUME NEW f \in Items, NEW g \in Items
    PROVE  Plus(f, g) \in Items /\ DOMAIN Plus(f, g) = DOMAIN f \cup DOMAIN g
  <1>1. DOMAIN Plus(f, g) = DOMAIN f \cup DOMAIN g
    BY DEF Plus
  <1>2. \A i \in DOMAIN f \cup DOMAIN g : Plus(f, g)[i] \in Item
    BY ItemsAre DEF Plus
  <1>3. Plus(f, g) \in [DOMAIN Plus(f, g) -> Item]
    BY <1>1, <1>2 DEF Plus
  <1> QED
    BY <1>1, <1>3, ItemsAre

LEMMA WithItems ==
    ASSUME NEW f \in Items, NEW i \in Nat, NEW x \in Item
    PROVE  /\ With(f, i, x) \in Items /\ DOMAIN With(f, i, x) = DOMAIN f \cup {i}
           /\ With(f, i, x)[i] = x /\ \A j \in DOMAIN f \ {i} : With(f, i, x)[j] = f[j]
  <1> DEFINE g == [j \in {i} |-> x]
  <1>1. g \in Items /\ DOMAIN g = {i} /\ g[i] = x
    BY ItemsAre
  <1>2. With(f, i, x) = Plus(f, g)
    BY DEF With
  <1> HIDE DEF g
  <1>3. \A j \in DOMAIN f \cup {i} : Plus(f, g)[j] = IF j = i THEN x ELSE f[j]
    BY <1>1 DEF Plus
  <1> QED
    BY <1>1, <1>2, <1>3, PlusItems

LEMMA WithoutItems ==
    ASSUME NEW f \in Items, NEW ids
    PROVE  /\ Without(f, ids) \in Items /\ DOMAIN Without(f, ids) = DOMAIN f \ ids
           /\ \A j \in DOMAIN f \ ids : Without(f, ids)[j] = f[j]
  BY ItemsAre DEF Without

LEMMA ReplyKinds ==
    ASSUME NEW e \in Reply
    PROVE  /\ e.kind \in {"item", "destroy", "subscription", "status", "init_response",
                          "finalize_response", "snapshot", "up_to_date", "micro_transaction"}
           /\ e.kind = "item" => e.id \in Nat /\ e.item \in Item
           /\ e.kind = "destroy" => e.id \in Nat
           /\ e.kind = "subscription" => e.there \in BOOLEAN
           /\ e.kind = "status" => e.active \in BOOLEAN
           /\ e.kind = "finalize_response" => e.ids \subseteq Nat
           /\ e.kind = "snapshot" => e.items \in Items /\ e.subscription \in BOOLEAN
           /\ e.kind = "micro_transaction" => e.id \in Nat
           /\ IsMessage(e) <=> e \in Message
  BY DEF Reply, Message, IsMessage

LEMMA ApplyType ==
    ASSUME NEW c \in Cache, NEW e \in Reply
    PROVE  Apply(c, e) \in Cache /\ (~IsMessage(e) => Apply(c, e) = c)
  <1>1. c.items \in Items /\ c.subscription \in BOOLEAN /\ c.status \in BOOLEAN \cup {none}
    BY DEF Cache
  <1>2. CASE e.kind = "item"
    <2>1. With(c.items, e.id, e.item) \in Items
      BY <1>1, <1>2, ReplyKinds, WithItems
    <2>2. Apply(c, e) = [c EXCEPT !.items = With(c.items, e.id, e.item)]
      BY <1>2 DEF Apply
    <2> HIDE DEF Items
    <2> QED
      BY <1>2, <2>1, <2>2 DEF Cache, IsMessage
  <1>3. CASE e.kind = "destroy"
    <2>1. Without(c.items, {e.id}) \in Items
      BY <1>1, WithoutItems
    <2>2. Apply(c, e) = [c EXCEPT !.items = Without(c.items, {e.id})]
      BY <1>3 DEF Apply
    <2> QED
      BY <1>3, <2>1, <2>2 DEF Cache, IsMessage
  <1>4. CASE e.kind = "subscription"
    BY <1>4, ReplyKinds DEF Apply, Cache, IsMessage
  <1>5. CASE e.kind = "status"
    BY <1>5, ReplyKinds DEF Apply, Cache, IsMessage
  <1>6. CASE e.kind = "snapshot"
    <2>1. Apply(c, e) = [c EXCEPT !.items = e.items, !.subscription = e.subscription]
      BY <1>6 DEF Apply
    <2> QED
      BY <1>6, <2>1, ReplyKinds DEF Cache, IsMessage
  <1>7. CASE e.kind \in {"init_response", "finalize_response", "up_to_date", "micro_transaction"}
    BY <1>7 DEF Apply
  <1> QED
    BY <1>2, <1>3, <1>4, <1>5, <1>6, <1>7, ReplyKinds

LEMMA ResolveType ==
    ASSUME NEW c \in Copies, NEW e \in Reply
    PROVE  /\ Resolve(c, e) \in Copies
           /\ Resolve(c, e).cache = Apply(c.cache, e)
           /\ Resolve(c, e).ok => c.ok
  <1>1. c.cache \in Cache /\ c.ok \in BOOLEAN
    BY DEF Copies
  <1>2. Apply(c.cache, e) \in Cache /\ (~IsMessage(e) => Apply(c.cache, e) = c.cache)
    BY <1>1, ApplyType
  <1>3. CASE IsMessage(e)
    <2>1. Resolve(c, e) = [cache |-> Apply(c.cache, e),
                           ok |-> c.ok /\ (e.kind = "finalize_response" => e.ids \subseteq DOMAIN c.cache.items)]
      BY <1>3 DEF Resolve
    <2> QED
      BY <1>1, <1>2, <2>1 DEF Copies
  <1>4. CASE ~IsMessage(e)
    BY <1>1, <1>2, <1>4 DEF Resolve
  <1> QED
    BY <1>3, <1>4

LEMMA FollowingType ==
    ASSUME NEW c \in Copies, NEW s \in Seq(Reply)
    PROVE  /\ Reduced(2, c, s) \in Copies
           /\ Reduced(2, c, s).cache = Reduced(1, c.cache, s)
           /\ Reduced(2, c, s).ok => c.ok
  <1> DEFINE Good(d, e) == d \in Copies /\ d.cache = e /\ (d.ok => c.ok)
             T == {n \in Nat : n <= Len(s) => Good(Reduced(2, c, Prefix(s, n)), Reduced(1, c.cache, Prefix(s, n)))}
  <1>1. 0 \in T
    BY PrefixIs, ReducedNone
  <1>2. ASSUME NEW n \in Nat, n \in T, n + 1 <= Len(s) PROVE n + 1 \in T
    <2> DEFINE d == Reduced(2, c, Prefix(s, n))
               b == Reduced(1, c.cache, Prefix(s, n))
               e == s[n + 1]
    <2>1. Good(d, b) /\ e \in Reply
      BY <1>2
    <2>2. Reduced(2, c, Prefix(s, n + 1)) = Step(2, d, e) /\ Reduced(1, c.cache, Prefix(s, n + 1)) = Step(1, b, e)
      BY <1>2, ReducedPrefix
    <2> HIDE DEF d, b, e
    <2>3. Step(2, d, e) = Resolve(d, e) /\ Step(1, b, e) = Apply(b, e)
      BY DEF Step
    <2>4. Good(Resolve(d, e), Apply(b, e))
      BY <2>1, ResolveType
    <2> QED
      BY <2>2, <2>3, <2>4
  <1>3. Nat \subseteq T
    <2>1. \A n \in Nat : n \in T => n + 1 \in T
      BY <1>2
    <2> HIDE DEF T
    <2> QED
      BY <1>1, <2>1, Induction
  <1>4. Len(s) \in T
    BY <1>3
  <1> QED
    BY <1>4, PrefixIs

\* Known, after the game is sent more.
LEMMA KnownType ==
    ASSUME NEW c \in Cache, NEW i \in Seq(Message), NEW o \in Seq(Reply)
    PROVE  /\ Following([cache |-> c, ok |-> TRUE], i \o o) =
                Reduced(2, Reduced(2, [cache |-> c, ok |-> TRUE], i), o)
           /\ Following([cache |-> c, ok |-> TRUE], i \o o) \in Copies
           /\ Following([cache |-> c, ok |-> TRUE], i \o o).cache = FoldLeft(Apply, c, i \o o)
  <1> DEFINE d == [cache |-> c, ok |-> TRUE]
  <1>1. d \in Copies /\ d.cache = c
    BY DEF Copies
  <1> HIDE DEF d
  <1>2. i \in Seq(Reply) /\ i \o o \in Seq(Reply)
    <2>1. Message \subseteq Reply
      BY DEF Reply
    <2>2. i \in Seq(Reply)
      BY <2>1
    <2> QED
      BY <2>2
  <1>3. Following(d, i \o o) = Reduced(2, d, i \o o)
    BY <1>2, ResolveFold
  <1>4. Reduced(2, d, i \o o) = Reduced(2, Reduced(2, d, i), o)
    BY <1>2, ReducedConcat
  <1>5. Reduced(2, d, i \o o) \in Copies /\ Reduced(2, d, i \o o).cache = Reduced(1, c, i \o o)
    BY <1>1, <1>2, FollowingType
  <1>6. FoldLeft(Apply, c, i \o o) = Reduced(1, c, i \o o)
    BY <1>2, ApplyFold
  <1> QED
    BY <1>3, <1>4, <1>5, <1>6 DEF d

LEMMA KnownIs == ASSUME TypeOK PROVE Known \in Copies /\ Known.cache = Fetched
  BY KnownType DEF TypeOK, Known, Fetched

\* An operation of the coordinator that sends s.
LEMMA KnownMore ==
    ASSUME TypeOK, NEW s \in Seq(Reply), outbox' = outbox \o s, cache' = cache, inbox' = inbox
    PROVE  Known' = Reduced(2, Known, s)
  <1> DEFINE d == Reduced(2, [cache |-> cache, ok |-> TRUE], inbox)
  <1>1. outbox \in Seq(Reply) /\ inbox \in Seq(Message) /\ cache \in Cache
    BY DEF TypeOK
  <1>2. Known = Reduced(2, d, outbox)
    BY <1>1, KnownType DEF Known
  <1>3. outbox \o s \in Seq(Reply)
    BY <1>1
  <1>4. Known' = Following([cache |-> cache, ok |-> TRUE], inbox \o (outbox \o s))
    BY DEF Known
  <1>5. Known' = Reduced(2, d, outbox \o s)
    BY <1>1, <1>3, <1>4, KnownType
  <1> HIDE DEF d
  <1>6. Reduced(2, d, outbox \o s) = Reduced(2, Reduced(2, d, outbox), s)
    BY <1>1, ReducedConcat
  <1> QED
    BY <1>2, <1>5, <1>6

LEMMA TellOne == ASSUME NEW c, NEW e PROVE Reduced(2, c, <<e>>) = Resolve(c, e)
  BY ReducedOne DEF Step

LEMMA TellMore ==
    ASSUME NEW c, NEW s \in Seq(Reply), NEW t \in Seq(Reply)
    PROVE  Reduced(2, c, s \o t) = Reduced(2, Reduced(2, c, s), t)
  BY ReducedConcat

\* An answer that is no shared object, and tells of no item.
LEMMA TellNothing ==
    ASSUME NEW c \in Copies, NEW e \in Reply,
           \/ e.kind \in {"init_response", "micro_transaction", "up_to_date"}
           \/ e.kind = "finalize_response" /\ e.ids \subseteq DOMAIN c.cache.items
    PROVE  Resolve(c, e) = c
  <1>1. c = [cache |-> c.cache, ok |-> c.ok] /\ c.ok \in BOOLEAN
    BY DEF Copies
  <1>2. CASE IsMessage(e)
    <2>1. Apply(c.cache, e) = c.cache
      BY DEF Apply
    <2>2. Resolve(c, e) = [cache |-> c.cache,
                           ok |-> c.ok /\ (e.kind = "finalize_response" => e.ids \subseteq DOMAIN c.cache.items)]
      BY <1>2, <2>1 DEF Resolve
    <2>3. (c.ok /\ (e.kind = "finalize_response" => e.ids \subseteq DOMAIN c.cache.items)) = c.ok
      BY <1>1
    <2> QED
      BY <1>1, <2>2, <2>3, Zenon
  <1>3. CASE ~IsMessage(e)
    BY <1>3 DEF Resolve
  <1> QED
    BY <1>2, <1>3

\* A shared object leaves what the game was told right or wrong.
LEMMA TellObject ==
    ASSUME NEW c \in Copies, NEW e \in Message, e.kind # "finalize_response"
    PROVE  Resolve(c, e).ok = c.ok /\ Resolve(c, e).cache = Apply(c.cache, e)
  <1>1. IsMessage(e) /\ c.ok \in BOOLEAN
    BY ReplyKinds DEF Reply, Copies
  <1>2. Resolve(c, e) = [cache |-> Apply(c.cache, e), ok |-> c.ok]
    BY <1>1 DEF Resolve
  <1> QED
    BY <1>2

LEMMA TellStatus ==
    ASSUME NEW c \in Copies, NEW active \in BOOLEAN
    PROVE  LET e == [kind |-> "status", active |-> active]
               d == Resolve(c, e)
           IN  /\ e \in Message /\ d \in Copies /\ d.ok = c.ok
               /\ d.cache.items = c.cache.items /\ d.cache.subscription = c.cache.subscription
               /\ d.cache.status = active
  <1> DEFINE e == [kind |-> "status", active |-> active]
  <1>1. e \in Message /\ e.kind = "status" /\ e.active = active
    BY DEF Message
  <1> HIDE DEF e
  <1>2. c.cache \in Cache
    BY DEF Copies
  <1>3. Apply(c.cache, e) = [c.cache EXCEPT !.status = active]
    BY <1>1 DEF Apply
  <1>4. Resolve(c, e).ok = c.ok /\ Resolve(c, e).cache = Apply(c.cache, e) /\ Resolve(c, e) \in Copies
    BY <1>1, TellObject, ResolveType DEF Reply
  <1> QED
    BY <1>1, <1>2, <1>3, <1>4 DEF Cache, e

LEMMA TellSubscription ==
    ASSUME NEW c \in Copies, NEW there \in BOOLEAN
    PROVE  LET e == SubscriptionObject(there)
               d == Resolve(c, e)
           IN  /\ e \in Message /\ d \in Copies /\ d.ok = c.ok
               /\ d.cache.items = c.cache.items /\ d.cache.status = c.cache.status
               /\ d.cache.subscription = there
  <1> DEFINE e == SubscriptionObject(there)
  <1>1. e \in Message /\ e.kind = "subscription" /\ e.there = there
    BY DEF Message, SubscriptionObject
  <1> HIDE DEF e
  <1>2. c.cache \in Cache
    BY DEF Copies
  <1>3. Apply(c.cache, e) = [c.cache EXCEPT !.subscription = there]
    BY <1>1 DEF Apply
  <1>4. Resolve(c, e).ok = c.ok /\ Resolve(c, e).cache = Apply(c.cache, e) /\ Resolve(c, e) \in Copies
    BY <1>1, TellObject, ResolveType DEF Reply
  <1> QED
    BY <1>1, <1>2, <1>3, <1>4 DEF Cache, e

LEMMA TellItem ==
    ASSUME NEW c \in Copies, NEW i \in Nat, NEW x \in Item
    PROVE  LET e == [kind |-> "item", id |-> i, item |-> x]
               d == Resolve(c, e)
           IN  /\ e \in Message /\ d \in Copies /\ d.ok = c.ok
               /\ d.cache.items = With(c.cache.items, i, x)
               /\ d.cache.subscription = c.cache.subscription /\ d.cache.status = c.cache.status
  <1> DEFINE e == [kind |-> "item", id |-> i, item |-> x]
  <1>1. e \in Message /\ e.kind = "item" /\ e.id = i /\ e.item = x
    BY DEF Message
  <1> HIDE DEF e
  <1>2. c.cache \in Cache
    BY DEF Copies
  <1>3. Apply(c.cache, e) = [c.cache EXCEPT !.items = With(c.cache.items, i, x)]
    BY <1>1 DEF Apply
  <1>4. Resolve(c, e).ok = c.ok /\ Resolve(c, e).cache = Apply(c.cache, e) /\ Resolve(c, e) \in Copies
    BY <1>1, TellObject, ResolveType DEF Reply
  <1> QED
    BY <1>1, <1>2, <1>3, <1>4 DEF Cache, e

LEMMA TellDestroy ==
    ASSUME NEW c \in Copies, NEW i \in Nat
    PROVE  LET e == DestroyObject(i)
               d == Resolve(c, e)
           IN  /\ e \in Message /\ d \in Copies /\ d.ok = c.ok
               /\ d.cache.items = Without(c.cache.items, {i})
               /\ d.cache.subscription = c.cache.subscription /\ d.cache.status = c.cache.status
  <1> DEFINE e == DestroyObject(i)
  <1>1. e \in Message /\ e.kind = "destroy" /\ e.id = i
    BY DEF Message, DestroyObject
  <1> HIDE DEF e
  <1>2. c.cache \in Cache
    BY DEF Copies
  <1>3. Apply(c.cache, e) = [c.cache EXCEPT !.items = Without(c.cache.items, {i})]
    BY <1>1 DEF Apply
  <1>4. Resolve(c, e).ok = c.ok /\ Resolve(c, e).cache = Apply(c.cache, e) /\ Resolve(c, e) \in Copies
    BY <1>1, TellObject, ResolveType DEF Reply
  <1> QED
    BY <1>1, <1>2, <1>3, <1>4 DEF Cache, e

LEMMA TellSnapshot ==
    ASSUME NEW c \in Copies, NEW its \in Items, NEW active \in BOOLEAN
    PROVE  LET e == [kind |-> "snapshot", items |-> its, subscription |-> active]
               d == Resolve(c, e)
           IN  /\ e \in Message /\ d \in Copies /\ d.ok = c.ok
               /\ d.cache.items = its /\ d.cache.subscription = active
               /\ d.cache.status = c.cache.status
  <1> DEFINE e == [kind |-> "snapshot", items |-> its, subscription |-> active]
  <1>1. e \in Message /\ e.kind = "snapshot" /\ e.items = its /\ e.subscription = active
    BY DEF Message
  <1> HIDE DEF e
  <1>2. c.cache \in Cache
    BY DEF Copies
  <1>3. Apply(c.cache, e) = [c.cache EXCEPT !.items = its, !.subscription = active]
    BY <1>1 DEF Apply
  <1>4. Resolve(c, e).ok = c.ok /\ Resolve(c, e).cache = Apply(c.cache, e) /\ Resolve(c, e) \in Copies
    BY <1>1, TellObject, ResolveType DEF Reply
  <1> QED
    BY <1>1, <1>2, <1>3, <1>4 DEF Cache, e

-------------------------------------------------------------------------------
(* What a purchase makes.                                                  *)

\* An order that was accepted is of one item at least.
LEMMA FlatType ==
    ASSUME NEW order \in Accepted
    PROVE  Flat(order) \in Seq(STRING) /\ Len(Flat(order)) >= 1
  <1> DEFINE Line == [def : STRING, quantity : Nat]
             R(n) == Reduced(4, <<>>, Prefix(order, n))
             T == {n \in Nat : n <= Len(order) => R(n) \in Seq(STRING) /\ Len(R(n)) >= n}
  <1>1. order \in Seq(Line) /\ order # <<>> /\ \A n \in DOMAIN order : order[n].quantity > 0
    BY StoreAssumption DEF Accepted
  <1>2. 0 \in T
    BY <1>1, PrefixIs, ReducedNone
  <1>3. ASSUME NEW n \in Nat, n \in T, n + 1 <= Len(order) PROVE n + 1 \in T
    <2> DEFINE r == R(n)
               line == order[n + 1]
    <2>1. r \in Seq(STRING) /\ Len(r) >= n
      BY <1>3
    <2>7. n + 1 \in DOMAIN order /\ line \in Line
      <3> HIDE DEF Line
      <3> QED
        BY <1>1, <1>3
    <2>2. line.quantity \in Nat /\ line.quantity > 0 /\ line.def \in STRING
      BY <1>1, <2>7
    <2>3. R(n + 1) = Step(4, r, line)
      BY <1>1, <1>3, ReducedPrefix
    <2> HIDE DEF r, line, R
    <2> DEFINE new == [k \in 1..line.quantity |-> line.def]
    <2>4. new \in Seq(STRING) /\ Len(new) = line.quantity
      BY <2>2
    <2> HIDE DEF new
    <2>5. r \o new \in Seq(STRING) /\ Len(r \o new) >= n + 1
      BY <2>1, <2>2, <2>4
    <2>6. Step(4, r, line) = r \o new
      <3>1. Step(4, r, line) = AddLine(r, line)
        BY DEF Step
      <3> QED
        BY <3>1 DEF AddLine, new
    <2>8. R(n + 1) \in Seq(STRING) /\ Len(R(n + 1)) >= n + 1
      BY <2>3, <2>5, <2>6
    <2> QED
      BY <2>8
  <1>4. Nat \subseteq T
    <2>1. \A n \in Nat : n \in T => n + 1 \in T
      BY <1>3
    <2> HIDE DEF T
    <2> QED
      BY <1>2, <2>1, Induction
  <1>5. Len(order) \in T /\ Len(order) \in Nat /\ Len(order) >= 1
    BY <1>1, <1>4
  <1>6. R(Len(order)) = Reduced(4, <<>>, order) /\ Flat(order) = Reduced(4, <<>>, order)
    BY <1>1, PrefixIs, FlatFold
  <1> HIDE DEF R
  <1> QED
    BY <1>5, <1>6

LEMMA MinIs == ASSUME NEW S \in SUBSET Nat, S # {} PROVE Min(S) \in S /\ \A x \in S : Min(S) <= x
  <1>1. PICK m \in S : \A x \in S : <<x, m>> \notin OpToRel(<, Nat)
    BY NatLessThanWellFounded, WFMin
  <1>2. ASSUME NEW x \in S, x < m PROVE FALSE
    <2>1. <<x, m>> \in OpToRel(<, Nat)
      BY <1>2 DEF OpToRel
    <2> QED
      BY <1>1, <2>1
  <1>3. \A x \in S : m <= x
    BY <1>2
  <1> QED
    BY <1>3 DEF Min

LEMMA MaxOf == ASSUME NEW S \in SUBSET Nat, NEW n \in Nat, S \subseteq 0..n, S # {}
               PROVE  Max(S) \in S /\ \A x \in S : Max(S) >= x
  <1> DEFINE D == {n - x : x \in S}
  <1>5. \A x \in S : x \in Int /\ n - x \in Nat
    OBVIOUS
  <1>1. D \in SUBSET Nat /\ D # {}
    BY <1>5
  <1>2. PICK d \in D : \A x \in D : d <= x
    BY <1>1, MinIs
  <1>3. PICK m \in S : d = n - m
    OBVIOUS
  <1>4. \A x \in S : m >= x
    BY <1>2, <1>3, <1>5
  <1> QED
    BY <1>4 DEF Max

\* What is made of an order before its subscription fails.
LEMMA BeforeSubscription ==
    ASSUME NEW defs \in Seq(STRING), Contains(defs, Subscription)
    PROVE  LET done == SubSeq(defs, 1, SelectInSeq(defs, LAMBDA d : d = Subscription) - 1)
           IN  done \in Seq(STRING) /\ ~Contains(done, Subscription)
  <1> DEFINE I == {i \in 1..Len(defs) : defs[i] = Subscription}
             m == SelectInSeq(defs, LAMBDA d : d = Subscription)
  <1>1. I # {} /\ I \in SUBSET Nat
    BY DEF Contains
  <1>2. m = Min(I)
    BY <1>1 DEF SelectInSeq
  <1>3. m \in I /\ \A i \in I : m <= i
    BY <1>1, <1>2, MinIs
  <1> HIDE DEF m
  <1> DEFINE done == SubSeq(defs, 1, m - 1)
  <1>4. done \in Seq(STRING) /\ Len(done) = m - 1 /\ \A i \in 1..(m - 1) : done[i] = defs[i]
    BY <1>3
  <1>5. \A i \in 1..(m - 1) : defs[i] # Subscription
    BY <1>3
  <1> HIDE DEF done
  <1>6. ~Contains(done, Subscription)
    BY <1>3, <1>4, <1>5 DEF Contains
  <1> QED
    BY <1>4, <1>6 DEF done, m

LEMMA BoughtItems ==
    ASSUME NEW id \in Nat, NEW defs \in Seq(STRING), lastId \in Nat
    PROVE  /\ Bought(id, defs) \in Items /\ DOMAIN Bought(id, defs) = lastId + 1 .. lastId + Len(defs)
           /\ \A i \in lastId + 1 .. lastId + Len(defs) : Bought(id, defs)[i] = [def |-> defs[i - lastId], txn |-> id]
  <1>1. DOMAIN Bought(id, defs) = lastId + 1 .. lastId + Len(defs)
    BY DEF Bought
  <1>2. \A i \in lastId + 1 .. lastId + Len(defs) : Bought(id, defs)[i] = [def |-> defs[i - lastId], txn |-> id]
    BY DEF Bought
  <1>3. \A i \in lastId + 1 .. lastId + Len(defs) : i \in Nat /\ defs[i - lastId] \in STRING
    OBVIOUS
  <1>4. ASSUME NEW i \in lastId + 1 .. lastId + Len(defs) PROVE Bought(id, defs)[i] \in Item
    <2>1. [def |-> defs[i - lastId], txn |-> id] \in Item
      BY <1>3 DEF Item
    <2> QED
      BY <1>2, <2>1
  <1>5. Bought(id, defs) = [i \in lastId + 1 .. lastId + Len(defs) |-> Bought(id, defs)[i]]
    BY DEF Bought
  <1> HIDE DEF Item
  <1>6. Bought(id, defs) \in [lastId + 1 .. lastId + Len(defs) -> Item]
    BY <1>4, <1>5
  <1> QED
    BY <1>1, <1>2, <1>3, <1>6, ItemsAre

-------------------------------------------------------------------------------
(* What the game is told of a purchase: object after object, the items and *)
(* the subscription among them.                                            *)

ObjectsOf(new, last, n) == [k \in 1..n |-> [kind |-> "item", id |-> last + k, item |-> new[last + k]]]

\* Messages that answer no order that was accepted.
Plain == {e \in Message : e.kind = "init_response" => e.id = none}

\* A copy d of a game that had c, after the first k of them.
Gained(c, d, new, last, k) ==
    /\ d \in Copies /\ d.ok = c.ok /\ d.cache.status = c.cache.status
    /\ DOMAIN d.cache.items = DOMAIN c.cache.items \cup (last + 1 .. last + k)
    /\ \A i \in DOMAIN d.cache.items :
         d.cache.items[i] = IF i \in last + 1 .. last + k THEN new[i] ELSE c.cache.items[i]
    /\ d.cache.subscription =
         (c.cache.subscription \/ \E i \in last + 1 .. last + k : new[i].def = Subscription)

LEMMA AnnounceTells ==
    ASSUME NEW new \in Items, NEW last \in Nat, NEW k \in Nat, last + k + 1 \in DOMAIN new,
           NEW c \in Copies, NEW s \in Seq(Plain), Gained(c, Reduced(2, c, s), new, last, k),
           NEW object, object = [kind |-> "item", id |-> last + k + 1, item |-> new[last + k + 1]]
    PROVE  Announce(s, object) \in Seq(Plain) /\ Gained(c, Reduced(2, c, Announce(s, object)), new, last, k + 1)
  <1> DEFINE d == Reduced(2, c, s)
             i == last + k + 1
             x == new[i]
             e == Resolve(d, object)
             sub == SubscriptionObject(TRUE)
             h == Resolve(e, sub)
  <1>1. i \in Nat /\ x \in Item
    BY ItemsAre
  <1>2. d \in Copies /\ Gained(c, d, new, last, k) /\ c.cache.subscription \in BOOLEAN
    BY DEF Gained, Copies, Cache
  <1> HIDE DEF d, x, e, h, i
  <1>3. /\ object = [kind |-> "item", id |-> i, item |-> x]
    BY DEF i, x
  <1>4. /\ object \in Message /\ e \in Copies /\ e.ok = d.ok
        /\ e.cache.items = With(d.cache.items, i, x)
        /\ e.cache.subscription = d.cache.subscription /\ e.cache.status = d.cache.status
    BY <1>1, <1>2, <1>3, TellItem DEF e
  <1>5. /\ sub \in Message /\ h \in Copies /\ h.ok = e.ok
        /\ h.cache.items = e.cache.items /\ h.cache.status = e.cache.status
        /\ h.cache.subscription = TRUE
    BY <1>4, TellSubscription DEF h
  <1>6. Message \subseteq Reply
    BY DEF Reply
  <1>7. PICK one, other, both : one = <<object>> /\ other = <<sub>> /\ both = <<object, sub>>
    OBVIOUS
  <1>19. object \in Plain /\ sub \in Plain
    BY <1>3, <1>4, <1>5 DEF Plain, SubscriptionObject
  <1>20. Plain \subseteq Reply
    BY <1>6 DEF Plain
  <1> HIDE DEF sub
  <1>18. /\ s \in Seq(Reply) /\ one \in Seq(Reply) /\ other \in Seq(Reply) /\ both \in Seq(Reply)
         /\ both = one \o other
         /\ s \o one \in Seq(Plain) /\ s \o both \in Seq(Plain)
    BY <1>7, <1>19, <1>20
  <1>8. Reduced(2, c, s \o one) = e
    <2>1. Reduced(2, c, s \o one) = Reduced(2, d, one)
      BY <1>18, TellMore DEF d
    <2> QED
      BY <1>7, <2>1, TellOne DEF e
  <1>9. Reduced(2, c, s \o both) = h
    <2>1. Reduced(2, c, s \o both) = Reduced(2, d, both)
      BY <1>18, TellMore DEF d
    <2>2. Reduced(2, d, one \o other) = Reduced(2, Reduced(2, d, one), other)
      BY <1>18, TellMore
    <2>3. Reduced(2, d, one) = e
      BY <1>7, TellOne DEF e
    <2>4. Reduced(2, e, other) = h
      BY <1>7, TellOne DEF h
    <2> QED
      BY <1>18, <2>1, <2>2, <2>3, <2>4
  <1>10. d.cache.items \in Items
    BY <1>2 DEF Copies, Cache
  <1>11. /\ DOMAIN e.cache.items = DOMAIN d.cache.items \cup {i} /\ e.cache.items[i] = x
         /\ \A j \in DOMAIN d.cache.items \ {i} : e.cache.items[j] = d.cache.items[j]
    <2> DEFINE f == d.cache.items
    <2>1. f \in Items /\ e.cache.items = With(f, i, x)
      BY <1>4, <1>10
    <2> HIDE DEF f
    <2>2. /\ DOMAIN With(f, i, x) = DOMAIN f \cup {i} /\ With(f, i, x)[i] = x
          /\ \A j \in DOMAIN f \ {i} : With(f, i, x)[j] = f[j]
      BY <1>1, <2>1, WithItems
    <2> QED
      BY <2>1, <2>2 DEF f
  <1>12. (last + 1 .. last + k) \cup {i} = last + 1 .. last + (k + 1) /\ i \notin last + 1 .. last + k
    BY DEF i
  <1>13. new[i] = x
    BY DEF x
  <1>14. /\ DOMAIN e.cache.items = DOMAIN c.cache.items \cup (last + 1 .. last + (k + 1))
         /\ \A j \in DOMAIN e.cache.items :
              e.cache.items[j] = IF j \in last + 1 .. last + (k + 1) THEN new[j] ELSE c.cache.items[j]
    <2>1. DOMAIN d.cache.items = DOMAIN c.cache.items \cup (last + 1 .. last + k)
      BY <1>2 DEF Gained
    <2>2. \A j \in DOMAIN d.cache.items :
             d.cache.items[j] = IF j \in last + 1 .. last + k THEN new[j] ELSE c.cache.items[j]
      BY <1>2 DEF Gained
    <2>3. DOMAIN e.cache.items = DOMAIN c.cache.items \cup (last + 1 .. last + (k + 1))
      BY <1>11, <1>12, <2>1
    <2>4. ASSUME NEW j \in DOMAIN e.cache.items
          PROVE  e.cache.items[j] = IF j \in last + 1 .. last + (k + 1) THEN new[j] ELSE c.cache.items[j]
      <3>1. CASE j = i
        BY <1>11, <1>12, <1>13, <3>1
      <3>2. CASE j # i
        <4>1. j \in DOMAIN d.cache.items /\ e.cache.items[j] = d.cache.items[j]
          BY <1>11, <3>2
        <4>2. j \in last + 1 .. last + k <=> j \in last + 1 .. last + (k + 1)
          BY <1>12, <3>2
        <4> QED
          BY <2>2, <4>1, <4>2
      <3> QED
        BY <3>1, <3>2
    <2> QED
      BY <2>3, <2>4
  <1>15. (\E j \in last + 1 .. last + (k + 1) : new[j].def = Subscription) <=>
         (\E j \in last + 1 .. last + k : new[j].def = Subscription) \/ x.def = Subscription
    BY <1>12, <1>13
  <1>16. CASE x.def = Subscription
    <2>1. Announce(s, object) = s \o both
      <3>1. object.item.def = Subscription
        BY <1>3, <1>16
      <3>2. Announce(s, object) = s \o <<object, SubscriptionObject(TRUE)>>
        BY <3>1, Zenon DEF Announce
      <3> QED
        BY <1>7, <3>2, Zenon DEF sub
    <2>2. h.cache.subscription = (c.cache.subscription \/ \E j \in last + 1 .. last + (k + 1) : new[j].def = Subscription)
      BY <1>5, <1>15, <1>16
    <2>3. h.ok = c.ok /\ h.cache.status = c.cache.status
      BY <1>2, <1>4, <1>5 DEF Gained
    <2>4. Gained(c, h, new, last, k + 1)
      BY <1>5, <1>14, <2>2, <2>3 DEF Gained
    <2> QED
      BY <1>18, <1>9, <2>1, <2>4
  <1>17. CASE x.def # Subscription
    <2>1. Announce(s, object) = s \o one
      BY <1>3, <1>7, <1>17 DEF Announce
    <2>2. d.cache.subscription = (c.cache.subscription \/ \E j \in last + 1 .. last + k : new[j].def = Subscription)
      BY <1>2 DEF Gained
    <2>3. e.cache.subscription = (c.cache.subscription \/ \E j \in last + 1 .. last + (k + 1) : new[j].def = Subscription)
      BY <1>4, <1>15, <1>17, <2>2
    <2>4. e.ok = c.ok /\ e.cache.status = c.cache.status
      BY <1>2, <1>4 DEF Gained
    <2>5. Gained(c, e, new, last, k + 1)
      BY <1>4, <1>14, <2>3, <2>4 DEF Gained
    <2> QED
      BY <1>18, <1>8, <2>1, <2>5
  <1> QED
    BY <1>16, <1>17

Announced(new, last, n) == FoldLeft(Announce, <<>>, ObjectsOf(new, last, n))

LEMMA ObjectsTell ==
    ASSUME NEW new \in Items, NEW last \in Nat, NEW n \in Nat, last + 1 .. last + n \subseteq DOMAIN new,
           NEW c \in Copies
    PROVE  /\ Announced(new, last, n) \in Seq(Plain)
           /\ Gained(c, Reduced(2, c, Announced(new, last, n)), new, last, n)
  <1> DEFINE objects == ObjectsOf(new, last, n)
             Object(k) == [kind |-> "item", id |-> last + k, item |-> new[last + k]]
             S == {Object(k) : k \in 1..n}
             A(k) == Reduced(5, <<>>, Prefix(objects, k))
             T == {k \in Nat : k <= n => A(k) \in Seq(Plain) /\ Gained(c, Reduced(2, c, A(k)), new, last, k)}
  <1>1. objects \in Seq(S) /\ Len(objects) = n /\ \A k \in 1..n : objects[k] = Object(k)
    <2>1. objects = [k \in 1..n |-> Object(k)]
      BY DEF ObjectsOf
    <2> HIDE DEF objects, Object
    <2> QED
      BY <2>1
  <1> HIDE DEF objects, S
  <1>2. 0 \in T
    <2>1. A(0) = <<>>
      BY <1>1, PrefixIs, ReducedNone
    <2>2. Reduced(2, c, <<>>) = c
      BY ReducedNone
    <2>3. Gained(c, c, new, last, 0)
      <3>1. last + 1 .. last + 0 = {}
        OBVIOUS
      <3>2. c.cache.subscription \in BOOLEAN
        BY DEF Copies, Cache
      <3> QED
        BY <3>1, <3>2 DEF Gained
    <2>4. <<>> \in Seq(Plain)
      OBVIOUS
    <2>5. A(0) \in Seq(Plain) /\ Gained(c, Reduced(2, c, A(0)), new, last, 0)
      BY <2>1, <2>2, <2>3, <2>4
    <2> HIDE DEF A
    <2> QED
      BY <2>5
  <1>3. ASSUME NEW k \in Nat, k \in T, k + 1 <= n PROVE k + 1 \in T
    <2> DEFINE s == A(k)
               o == objects[k + 1]
    <2>1. s \in Seq(Plain) /\ Gained(c, Reduced(2, c, s), new, last, k)
      BY <1>3
    <2>2. last + k + 1 \in DOMAIN new
      BY <1>3
    <2>3. o = [kind |-> "item", id |-> last + k + 1, item |-> new[last + k + 1]]
      <3>1. last + (k + 1) = last + k + 1 /\ k + 1 \in 1..n
        BY <1>3
      <3> QED
        BY <1>1, <3>1
    <2>4. A(k + 1) = Step(5, s, o)
      BY <1>1, <1>3, ReducedPrefix
    <2>5. Step(5, s, o) = Announce(s, o)
      BY DEF Step
    <2> HIDE DEF s, o, A
    <2>6. Announce(s, o) \in Seq(Plain) /\ Gained(c, Reduced(2, c, Announce(s, o)), new, last, k + 1)
      BY <2>1, <2>2, <2>3, AnnounceTells
    <2>7. A(k + 1) \in Seq(Plain) /\ Gained(c, Reduced(2, c, A(k + 1)), new, last, k + 1)
      BY <2>4, <2>5, <2>6
    <2> QED
      BY <2>7
  <1>4. Nat \subseteq T
    <2>1. \A k \in Nat : k \in T => k + 1 \in T
      BY <1>3
    <2> HIDE DEF T
    <2> QED
      BY <1>2, <2>1, Induction
  <1>5. n \in T
    BY <1>4
  <1>6. A(n) = Reduced(5, <<>>, objects)
    BY <1>1, PrefixIs
  <1>7. Announced(new, last, n) = Reduced(5, <<>>, objects)
    BY <1>1, AnnounceFold DEF Announced, objects
  <1> HIDE DEF A
  <1> QED
    BY <1>5, <1>6, <1>7

LEMMA ObjectsAre == ASSUME NEW n PROVE Objects(n) = Announced(items', lastId, n)
  BY DEF Objects, Announced, ObjectsOf, ItemObject

-------------------------------------------------------------------------------
(* What was made, after operations of the coordinator.                     *)

LEMMA PlusNone ==
    ASSUME NEW f, f = [i \in DOMAIN f |-> f[i]], NEW g, DOMAIN g = {}
    PROVE  Plus(f, g) = f
  BY DEF Plus

LEMMA NonePlus ==
    ASSUME NEW g, g = [i \in DOMAIN g |-> g[i]] PROVE Plus(<<>>, g) = g
  <1>1. DOMAIN <<>> = {}
    OBVIOUS
  <1>2. \A i \in DOMAIN g : (IF i \in DOMAIN g THEN g[i] ELSE <<>>[i]) = g[i]
    OBVIOUS
  <1> QED
    BY <1>1, <1>2 DEF Plus

LEMMA NoneIsFcn == <<>> = [i \in DOMAIN <<>> |-> <<>>[i]]
  OBVIOUS

\* The history, as Worker keeps it.
Keeps == made' = [id \in 1..Len(orders') |->
                    Plus(IF id \in DOMAIN made THEN made[id] ELSE <<>>, NewItems(id))]

LEMMA MadeIs ==
    ASSUME Ordered, NEW id \in DOMAIN made PROVE made[id] = [i \in DOMAIN made[id] |-> made[id][i]]
  <1>1. CASE id \in completed
    <2>1. PICK first \in DOMAIN made[id] : made[id] = InRow(first, Flat(orders[id]))
      BY <1>1 DEF Ordered, WhatWasOrdered
    <2> QED
      BY <2>1 DEF InRow
  <1>2. CASE id \notin completed
    BY <1>2, NoneIsFcn DEF Ordered, WhatWasOrdered
  <1> QED
    BY <1>1, <1>2

\* Transactions for which nothing is made.
LEMMA NothingMade ==
    ASSUME Ordered, Keeps, Len(orders) \in Nat, Len(orders') \in Nat,
           Ids \subseteq Ids', NEW id \in Ids', NewItems(id) = <<>>
    PROVE  made'[id] = IF id \in Ids THEN made[id] ELSE <<>>
  <1>1. made'[id] = Plus(IF id \in DOMAIN made THEN made[id] ELSE <<>>, NewItems(id))
    BY DEF Keeps, Ids
  <1>2. DOMAIN made = Ids /\ DOMAIN <<>> = {}
    BY DEF Ordered
  <1>3. CASE id \in Ids
    BY <1>1, <1>2, <1>3, MadeIs, PlusNone
  <1>4. CASE id \notin Ids
    BY <1>1, <1>2, <1>4, NoneIsFcn, PlusNone
  <1> QED
    BY <1>3, <1>4

LEMMA NewNone == ASSUME NEW id, \A i \in DOMAIN items' \ Held : items'[i].txn # id PROVE NewItems(id) = <<>>
  <1> DEFINE D == {i \in DOMAIN items' \ Held : items'[i].txn = id}
  <1>1. D = {}
    OBVIOUS
  <1>2. NewItems(id) = [i \in D |-> items'[i].def]
    BY DEF NewItems
  <1> HIDE DEF D
  <1> QED
    BY <1>1, <1>2

LEMMA KeepsWhatWasOrdered ==
    ASSUME TypeOK, Ordered, Keeps, DOMAIN items' \subseteq Held, completed' = completed,
           \/ orders' = orders
           \/ \E order \in Accepted : orders' = Append(orders, order)
    PROVE  /\ DOMAIN made' = Ids' /\ WhatWasOrdered' /\ completed' \subseteq Ids'
  <1>1. /\ Len(orders) \in Nat /\ Len(orders') \in Nat /\ Ids \subseteq Ids'
        /\ \A id \in Ids : orders'[id] = orders[id]
    BY DEF TypeOK, Ids
  <1>2. DOMAIN made' = Ids'
    BY DEF Keeps, Ids
  <1>3. ASSUME NEW id \in Ids'
        PROVE  made'[id] = IF id \in Ids THEN made[id] ELSE <<>>
    <2>1. NewItems(id) = <<>>
      BY NewNone
    <2> QED
      BY <1>1, <2>1, NothingMade
  <1>4. ASSUME NEW id \in Ids'
        PROVE  IF id \in completed THEN \E first \in DOMAIN made'[id] : made'[id] = InRow(first, Flat(orders'[id]))
               ELSE made'[id] = <<>>
    <2>1. DOMAIN made = Ids /\ completed \subseteq Ids
      BY DEF Ordered
    <2>2. CASE id \in completed
      <3>1. id \in Ids /\ made'[id] = made[id] /\ orders'[id] = orders[id]
        BY <1>1, <1>3, <2>1, <2>2
      <3>2. \E first \in DOMAIN made[id] : made[id] = InRow(first, Flat(orders[id]))
        BY <2>1, <2>2 DEF Ordered, WhatWasOrdered
      <3> QED
        BY <2>2, <3>1, <3>2
    <2>3. CASE id \notin completed
      <3>1. id \in Ids => made[id] = <<>>
        BY <2>1, <2>3 DEF Ordered, WhatWasOrdered
      <3> QED
        BY <1>3, <2>3, <3>1
    <2> QED
      BY <2>2, <2>3
  <1>5. WhatWasOrdered'
    BY <1>2, <1>4 DEF WhatWasOrdered
  <1>6. completed' \subseteq Ids'
    BY <1>1 DEF Ordered
  <1> QED
    BY <1>2, <1>5, <1>6

\* A purchase that is completed.
LEMMA MakesWhatWasOrdered ==
    ASSUME TypeOK, Ordered, Keeps, transactionId # none, orders' = orders,
           NEW defs, defs = Flat(lineItems), items' = Plus(items, Bought(transactionId, defs)),
           completed' = completed \cup {transactionId}
    PROVE  /\ DOMAIN made' = Ids' /\ WhatWasOrdered' /\ completed' \subseteq Ids'
  <1> DEFINE id == transactionId
             D == lastId + 1 .. lastId + Len(defs)
  <1>1. /\ id \in Ids /\ lineItems = orders[id] /\ id \notin completed /\ orders[id] \in Accepted
        /\ lastId \in Nat /\ Held \subseteq 1..lastId /\ Ids' = Ids /\ Len(orders) \in Nat
        /\ DOMAIN made = Ids /\ completed \subseteq Ids
    BY DEF TypeOK, Ordered, Ids
  <1>2. defs = Flat(orders[id]) /\ defs \in Seq(STRING) /\ Len(defs) >= 1
    BY <1>1, FlatType
  <1>3. /\ DOMAIN Bought(id, defs) = D
        /\ \A i \in D : Bought(id, defs)[i] = [def |-> defs[i - lastId], txn |-> id]
    BY <1>1, <1>2, BoughtItems DEF Ids
  <1>4. D \cap Held = {}
    BY <1>1
  <1>5. DOMAIN items' \ Held = D /\ \A i \in D : items'[i].def = defs[i - lastId] /\ items'[i].txn = id
    <2>1. DOMAIN items' = Held \cup D
      BY <1>3 DEF Plus, Held
    <2>2. \A i \in D : items'[i] = Bought(id, defs)[i]
      BY <1>3, <2>1 DEF Plus
    <2>3. ASSUME NEW i \in D PROVE items'[i].def = defs[i - lastId] /\ items'[i].txn = id
      <3>1. items'[i] = [def |-> defs[i - lastId], txn |-> id]
        BY <1>3, <2>2
      <3> QED
        BY <3>1
    <2> QED
      BY <1>4, <2>1, <2>3
  <1>6. DOMAIN made' = Ids'
    BY DEF Keeps, Ids
  <1> HIDE DEF id
  <1>7. ASSUME NEW other \in Ids, other # id PROVE made'[other] = made[other]
    <2>1. \A i \in DOMAIN items' \ Held : items'[i].txn # other
      BY <1>5, <1>7
    <2>2. NewItems(other) = <<>>
      BY <2>1, NewNone
    <2> QED
      BY <1>1, <2>2, NothingMade
  <1>8. made'[id] = InRow(lastId + 1, defs) /\ lastId + 1 \in DOMAIN made'[id]
    <2> DEFINE E == {i \in DOMAIN items' \ Held : items'[i].txn = id}
    <2>1. E = D
      <3>1. \A i \in D : items'[i].txn = id
        BY <1>5
      <3> QED
        BY <1>5, <3>1
    <2>2. NewItems(id) = [i \in D |-> items'[i].def]
      BY <2>1 DEF NewItems
    <2>3. \A i \in D : items'[i].def = defs[i - lastId] /\ i - lastId = i - (lastId + 1) + 1
      BY <1>1, <1>5
    <2>4. D = lastId + 1 .. (lastId + 1) + Len(defs) - 1
      BY <1>1, <1>2
    <2>5. NewItems(id) = InRow(lastId + 1, defs)
      <3>1. InRow(lastId + 1, defs) = [i \in D |-> defs[i - (lastId + 1) + 1]]
        BY <2>4 DEF InRow
      <3>2. \A i \in D : items'[i].def = defs[i - (lastId + 1) + 1]
        BY <2>3
      <3> HIDE DEF D
      <3> QED
        BY <2>2, <3>1, <3>2
    <2>6. made[id] = <<>>
      BY <1>1 DEF Ordered, WhatWasOrdered
    <2>7. made'[id] = Plus(<<>>, NewItems(id))
      BY <1>1, <2>6 DEF Keeps, Ids
    <2>8. made'[id] = NewItems(id)
      <3>1. NewItems(id) = [i \in DOMAIN NewItems(id) |-> NewItems(id)[i]]
        BY <2>2
      <3> QED
        BY <2>7, <3>1, NonePlus
    <2>9. lastId + 1 \in D
      BY <1>1, <1>2
    <2> QED
      BY <2>2, <2>5, <2>8, <2>9
  <1>9. ASSUME NEW other \in Ids'
        PROVE  IF other \in completed'
               THEN \E first \in DOMAIN made'[other] : made'[other] = InRow(first, Flat(orders'[other]))
               ELSE made'[other] = <<>>
    <2>1. CASE other = id
      BY <1>2, <1>8, <2>1 DEF id
    <2>2. CASE other # id
      <3>1. other \in Ids /\ made'[other] = made[other] /\ (other \in completed' <=> other \in completed)
        BY <1>1, <1>7, <2>2 DEF id
      <3> QED
        BY <1>1, <3>1 DEF Ordered, WhatWasOrdered
    <2> QED
      BY <2>1, <2>2
  <1>10. WhatWasOrdered'
    BY <1>6, <1>9 DEF WhatWasOrdered
  <1> QED
    BY <1>1, <1>6, <1>10 DEF id

-------------------------------------------------------------------------------
(* Every step keeps the invariant.                                         *)

LEMMA InitIInv == Init => IInv
  <1> SUFFICES ASSUME Init PROVE IInv
    OBVIOUS
  <1> USE DEF Init
  <1>1. items \in Items /\ Held = {} /\ cache \in Cache
    <2>1. DOMAIN <<>> = {} /\ <<>> \in [DOMAIN <<>> -> Item]
      OBVIOUS
    <2>2. <<>> \in Items
      BY <2>1, ItemsAre
    <2> QED
      BY <2>1, <2>2 DEF Held, Cache
  <1>2. TypeOK
    <2>1. Held \subseteq 1..lastId /\ lastId \in Nat /\ timeInitiated \in BOOLEAN /\ transactionId \in Ids \cup {none}
      BY <1>1
    <2>2. orders \in Seq(Accepted) /\ toGC \in Seq(Request) /\ outbox \in Seq(Reply) /\ inbox \in Seq(Message)
      OBVIOUS
    <2>3. /\ authorization \in [id : Nat, wait : {0, 1}] \cup {none}
          /\ shop \in [phase : {"idle", "ordering", "ordered", "authorized", "finalizing"}, id : Int \cup {none}]
      OBVIOUS
    <2> QED
      BY <1>1, <2>1, <2>2, <2>3, Zenon DEF TypeOK
  <1>3. Purchases
    BY DEF Purchases
  <1>4. Asked = {}
    BY DEF Asked
  <1>5. Callback
    BY <1>4 DEF Callback, Waiting
  <1>6. Ordered
    BY DEF Ordered, WhatWasOrdered, Ids
  <1>7. Known = [cache |-> cache, ok |-> TRUE]
    <2>1. inbox \o outbox = <<>> /\ <<>> \in Seq(Reply)
      OBVIOUS
    <2>2. Known = Reduced(2, [cache |-> cache, ok |-> TRUE], <<>>)
      BY <2>1, ResolveFold DEF Known
    <2> QED
      BY <2>2, ReducedNone
  <1>8. Told
    BY <1>7 DEF Told, Agrees
  <1> QED
    BY <1>2, <1>3, <1>5, <1>6, <1>8 DEF IInv

\* While the subscription has a time there is one: so it is active.
LEMMA ActiveIs == ASSUME Told, timeInitiated \in BOOLEAN PROVE Active(items, timeInitiated) = timeInitiated
  BY DEF Told, Active, HasItemDefinition, Held

LEMMA PlainReply == Seq(Plain) \subseteq Seq(Reply)
  <1>1. Plain \subseteq Reply
    BY DEF Plain, Reply
  <1> QED
    BY <1>1

\* The queue, after its first message has been taken.
LEMMA Taken ==
    ASSUME TypeOK, Purchases, toGC # <<>>, toGC' = Tail(toGC), Ids \subseteq Ids'
    PROVE  /\ Head(toGC) \in Request /\ toGC' \in Seq(Request)
           /\ \A n \in DOMAIN toGC' : Requested(n)'
           /\ \A n \in DOMAIN toGC' : n + 1 \in DOMAIN toGC /\ toGC'[n] = toGC[n + 1]
           /\ Head(toGC).kind = "finalize" => Head(toGC).id \in Ids
  <1>1. toGC \in Seq(Request) /\ \A n \in DOMAIN toGC : Requested(n)
    BY DEF TypeOK, Purchases
  <1>2. Head(toGC) \in Request /\ toGC' \in Seq(Request) /\ 1 \in DOMAIN toGC /\ Head(toGC) = toGC[1]
    BY <1>1
  <1>3. \A n \in DOMAIN toGC' : n \in Nat /\ n + 1 # 1 /\ n + 1 \in DOMAIN toGC /\ toGC'[n] = toGC[n + 1]
    BY <1>1
  <1>4. \A n \in DOMAIN toGC' : toGC'[n].kind = "finalize" => toGC'[n].id \in Ids
    BY <1>1, <1>3 DEF Requested
  <1>5. \A n \in DOMAIN toGC' : Requested(n)'
    BY <1>4 DEF Requested
  <1> QED
    BY <1>1, <1>2, <1>3, <1>4, <1>5 DEF Requested

LEMMA SentPlain ==
    ASSUME TypeOK, NEW s \in Seq(Plain), outbox' = outbox \o s
    PROVE  /\ outbox' \in Seq(Reply) /\ Asked' = Asked
           /\ \A n \in Asked : outbox'[n] = outbox[n]
           /\ \A n \in DOMAIN outbox' : \/ n \in DOMAIN outbox /\ outbox'[n] = outbox[n]
                                        \/ outbox'[n] \in Plain
  <1>1. outbox \in Seq(Reply) /\ s \in Seq(Reply)
    BY PlainReply DEF TypeOK
  <1>2. outbox' \in Seq(Reply) /\ DOMAIN outbox \subseteq DOMAIN outbox'
    BY <1>1
  <1>3. \A n \in DOMAIN outbox : outbox'[n] = outbox[n]
    BY <1>1
  <1>4. \A n \in DOMAIN outbox' \ DOMAIN outbox : n - Len(outbox) \in DOMAIN s /\ outbox'[n] = s[n - Len(outbox)]
    BY <1>1
  <1>5. \A n \in DOMAIN outbox' \ DOMAIN outbox : outbox'[n] \in Plain
    BY <1>4
  <1>6. \A e \in Plain : IsMessage(e)
    BY ReplyKinds DEF Plain, Reply
  <1>7. Asked' = Asked
    BY <1>2, <1>3, <1>5, <1>6 DEF Asked
  <1> QED
    BY <1>2, <1>3, <1>5, <1>7 DEF Asked

\* The coordinator sends messages, of its own accord or after it has taken one.
Sending(s) ==
    /\ toGC' = toGC \/ (toGC # <<>> /\ toGC' = Tail(toGC))
    /\ outbox' = outbox \o s
    /\ UNCHANGED <<inbox, authorization, shop, cache, orders>>

LEMMA SendingKeeps ==
    ASSUME IInv, NEW s \in Seq(Plain), Sending(s), transactionId' = transactionId \/ ~Waiting
    PROVE  /\ toGC' \in Seq(Request) /\ outbox' \in Seq(Reply) /\ Purchases' /\ Callback'
           /\ Known' = Reduced(2, Known, s) /\ Known \in Copies
  <1>1. TypeOK /\ Purchases /\ Callback
    BY DEF IInv
  <1>2. Ids' = Ids
    BY DEF Sending, Ids
  <1>3. /\ toGC' \in Seq(Request) /\ \A n \in DOMAIN toGC' : Requested(n)'
        /\ \A n \in DOMAIN toGC' : \E m \in DOMAIN toGC : toGC'[n] = toGC[m]
    <2>1. CASE toGC' = toGC
      BY <1>1, <1>2, <2>1 DEF TypeOK, Purchases, Requested
    <2>2. CASE toGC # <<>> /\ toGC' = Tail(toGC)
      BY <1>1, <1>2, <2>2, Taken
    <2> QED
      BY <2>1, <2>2 DEF Sending
  <1>4. /\ outbox' \in Seq(Reply) /\ Asked' = Asked
        /\ \A n \in Asked : outbox'[n] = outbox[n]
        /\ \A n \in DOMAIN outbox' : \/ n \in DOMAIN outbox /\ outbox'[n] = outbox[n]
                                     \/ outbox'[n] \in Plain
    BY <1>1, SentPlain DEF Sending
  <1>5. \A n \in DOMAIN outbox' : Answered(outbox[n])' 
    BY <1>1, <1>2, <1>4 DEF Purchases, Answered, Plain
  <1>6. Purchases'
    BY <1>1, <1>2, <1>3, <1>5 DEF Purchases, Answered, Sending
  <1>7. Waiting' = Waiting /\ authorization' = authorization /\ shop' = shop
    BY <1>4 DEF Waiting, Sending
  <1>8. Callback'
    <2>1. CASE ~Waiting
      BY <1>4, <1>7, <2>1 DEF Callback, Waiting
    <2>2. CASE transactionId' = transactionId
      BY <1>1, <1>3, <1>4, <1>7, <2>2 DEF Callback
    <2> QED
      BY <2>1, <2>2
  <1>9. Known' = Reduced(2, Known, s)
    BY <1>1, PlainReply, KnownMore DEF Sending
  <1> QED
    BY <1>1, <1>3, <1>4, <1>6, <1>8, <1>9, KnownIs

LEMMA PairIs == ASSUME NEW x, NEW y PROVE <<x, y>> = <<x>> \o <<y>>
  <1> DEFINE S == {x, y}
  <1>1. <<x>> \in Seq(S) /\ <<y>> \in Seq(S) /\ <<x, y>> \in Seq(S)
    OBVIOUS
  <1>2. Len(<<x>> \o <<y>>) = 2 /\ (<<x>> \o <<y>>)[1] = x /\ (<<x>> \o <<y>>)[2] = y
    OBVIOUS
  <1>3. <<x>> \o <<y>> \in Seq(S)
    BY <1>1
  <1>4. Len(<<x, y>>) = 2 /\ <<x, y>>[1] = x /\ <<x, y>>[2] = y
    OBVIOUS
  <1> HIDE DEF S
  <1>5. PICK p, q : p = <<x>> \o <<y>> /\ q = <<x, y>>
    OBVIOUS
  <1>6. /\ p \in Seq(S) /\ q \in Seq(S) /\ Len(p) = 2 /\ Len(q) = 2
        /\ p[1] = q[1] /\ p[2] = q[2]
    BY <1>1, <1>2, <1>3, <1>4, <1>5
  <1>7. p = q
    BY <1>6
  <1> QED
    BY <1>5, <1>7

LEMMA ConcatIs ==
    ASSUME NEW S, NEW s \in Seq(S), NEW t \in Seq(S)
    PROVE  /\ s \o t \in Seq(S) /\ Len(s \o t) = Len(s) + Len(t)
           /\ \A n \in DOMAIN s : (s \o t)[n] = s[n]
           /\ \A n \in 1..Len(t) : (s \o t)[Len(s) + n] = t[n]
  OBVIOUS

LEMMA OnePlain == ASSUME NEW e \in Plain PROVE <<e>> \in Seq(Plain) /\ <<e>> \in Seq(Reply)
  <1>1. <<e>> \in Seq(Plain)
    OBVIOUS
  <1> QED
    BY <1>1, PlainReply

\* Types, after an operation of the coordinator.
Typed ==
    /\ items \in Items /\ lastId \in Nat /\ Held \subseteq 1..lastId /\ timeInitiated \in BOOLEAN
    /\ orders \in Seq(Accepted)
    /\ transactionId \in Ids \cup {none}

LEMMA TypedKeeps ==
    ASSUME TypeOK, Typed', toGC' \in Seq(Request), outbox' \in Seq(Reply),
           welcomed' \in BOOLEAN, UNCHANGED <<inbox, authorization, shop, cache>>
    PROVE  TypeOK'
  BY DEF TypeOK, Typed

\* What the operation of a message leaves alone.
Takes == toGC # <<>> /\ toGC' = Tail(toGC) /\ Keeps /\ UNCHANGED <<inbox, authorization, shop, cache>>

\* An answer that changes nothing.
LEMMA AnswerKeeps ==
    ASSUME IInv, Takes, NEW e \in Plain, outbox' = outbox \o <<e>>,
           UNCHANGED <<inventory, purchase, orders, completed>>,
           welcomed' \in BOOLEAN, Agrees(Resolve(Known, e), items, timeInitiated, welcomed')
    PROVE  IInv'
  <1>1. TypeOK /\ Purchases /\ Ordered /\ Told
    BY DEF IInv
  <1> USE DEF inventory, purchase
  <1>2. Sending(<<e>>) /\ <<e>> \in Seq(Plain)
    BY OnePlain DEF Sending, Takes
  <1>3. toGC' \in Seq(Request) /\ outbox' \in Seq(Reply) /\ Purchases' /\ Callback' /\ Known' = Reduced(2, Known, <<e>>)
    BY <1>2, SendingKeeps
  <1>4. TypeOK'
    BY <1>1, <1>3, TypedKeeps DEF Typed, Takes, TypeOK, Held, Ids
  <1>5. Ordered'
    <2>1. DOMAIN items' \subseteq Held
      BY DEF Held
    <2>2. DOMAIN made' = Ids' /\ WhatWasOrdered' /\ completed' \subseteq Ids'
      BY <1>1, <2>1, KeepsWhatWasOrdered DEF Takes
    <2> QED
      BY <1>1, <2>2 DEF Ordered
  <1>6. Told'
    <2>1. Known' = Resolve(Known, e)
      BY <1>3, TellOne
    <2> QED
      BY <1>1, <2>1 DEF Told, Agrees, HasItemDefinition, Held
  <1> QED
    BY <1>3, <1>4, <1>5, <1>6 DEF IInv

LEMMA InitNoKeeps ==
    ASSUME IInv, Takes, Sends(<<InitResponse(none)>>),
           UNCHANGED <<inventory, purchase, orders, completed, welcomed>>
    PROVE  IInv'
  <1> DEFINE e == InitResponse(none)
  <1>1. TypeOK /\ Purchases /\ Told
    BY DEF IInv
  <1>2. e \in Plain /\ e \in Reply /\ e.kind = "init_response"
    BY DEF InitResponse, Plain, Message, Reply
  <1> HIDE DEF e
  <1>3. Known \in Copies /\ Resolve(Known, e) = Known
    BY <1>1, <1>2, KnownIs, TellNothing
  <1>4. Agrees(Resolve(Known, e), items, timeInitiated, welcomed')
    BY <1>1, <1>3 DEF Told
  <1> QED
    BY <1>1, <1>2, <1>4, AnswerKeeps DEF Sends, e, TypeOK

LEMMA FinalizeOtherKeeps ==
    ASSUME IInv, Takes, Sends(<<FinalizeResponse({})>>),
           UNCHANGED <<inventory, purchase, orders, completed, welcomed>>
    PROVE  IInv'
  <1> DEFINE e == FinalizeResponse({})
  <1>1. TypeOK /\ Purchases /\ Told
    BY DEF IInv
  <1>2. e \in Plain /\ e \in Reply /\ e.kind = "finalize_response" /\ e.ids = {}
    BY DEF FinalizeResponse, Plain, Message, Reply
  <1> HIDE DEF e
  <1>3. Known \in Copies /\ Resolve(Known, e) = Known
    BY <1>1, <1>2, KnownIs, TellNothing
  <1>4. Agrees(Resolve(Known, e), items, timeInitiated, welcomed')
    BY <1>1, <1>3 DEF Told
  <1> QED
    BY <1>1, <1>2, <1>4, AnswerKeeps DEF Sends, e, TypeOK

LEMMA StatusIs ==
    ASSUME timeInitiated' \in BOOLEAN, timeInitiated' => HasItemDefinition(Subscription)'
    PROVE  Status = [kind |-> "status", active |-> timeInitiated']
  <1>1. Active(items', timeInitiated') = timeInitiated'
    BY DEF Active, HasItemDefinition, Held
  <1> QED
    BY <1>1 DEF Status

LEMMA AskStatusKeeps ==
    ASSUME IInv, Takes, Sends(<<Status>>),
           UNCHANGED <<inventory, purchase, orders, completed, welcomed>>
    PROVE  IInv'
  <1> DEFINE e == [kind |-> "status", active |-> timeInitiated]
  <1>1. TypeOK /\ Purchases /\ Told /\ timeInitiated \in BOOLEAN
    BY DEF IInv, TypeOK
  <1>2. Status = e
    <2>1. Active(items', timeInitiated') = timeInitiated
      BY <1>1, ActiveIs DEF inventory
    <2> QED
      BY <2>1 DEF Status
  <1>3. Known \in Copies
    BY <1>1, KnownIs
  <1>4. e \in Plain
    BY <1>1 DEF Plain, Message
  <1>5. /\ Resolve(Known, e).ok = Known.ok /\ Resolve(Known, e).cache.items = Known.cache.items
        /\ Resolve(Known, e).cache.subscription = Known.cache.subscription
        /\ Resolve(Known, e).cache.status = timeInitiated
    BY <1>1, <1>3, TellStatus
  <1> HIDE DEF e
  <1>6. Agrees(Resolve(Known, e), items, timeInitiated, welcomed')
    BY <1>1, <1>5 DEF Told, Agrees
  <1> QED
    BY <1>1, <1>2, <1>4, <1>6, AnswerKeeps DEF Sends, TypeOK

LEMMA HelloKeeps ==
    ASSUME IInv, Takes, Sends(<<Snapshot>>), UNCHANGED <<inventory, purchase, orders, completed>>,
           welcomed' = TRUE
    PROVE  IInv'
  <1> DEFINE e == [kind |-> "snapshot", items |-> items, subscription |-> timeInitiated]
  <1>1. TypeOK /\ Purchases /\ Told /\ timeInitiated \in BOOLEAN /\ items \in Items
    BY DEF IInv, TypeOK
  <1>2. Snapshot = e
    <2>1. Active(items', timeInitiated') = timeInitiated /\ items' = items
      BY <1>1, ActiveIs DEF inventory
    <2> QED
      BY <2>1 DEF Snapshot
  <1>3. Known \in Copies
    BY <1>1, KnownIs
  <1>4. e \in Plain
    BY <1>1 DEF Plain, Message
  <1>5. /\ Resolve(Known, e).ok = Known.ok /\ Resolve(Known, e).cache.items = items
        /\ Resolve(Known, e).cache.subscription = timeInitiated
        /\ Resolve(Known, e).cache.status = Known.cache.status
    BY <1>1, <1>3, TellSnapshot
  <1> HIDE DEF e
  <1>6. Agrees(Resolve(Known, e), items, timeInitiated, welcomed')
    BY <1>1, <1>5 DEF Told, Agrees
  <1> QED
    BY <1>2, <1>4, <1>6, AnswerKeeps DEF Sends

\* A game that was sent no snapshot knows as much as before.
LEMMA UpToDateKeeps ==
    ASSUME IInv, Takes, Sends(<<UpToDate>>),
           UNCHANGED <<inventory, purchase, orders, completed, welcomed>>
    PROVE  IInv'
  <1>1. TypeOK /\ Purchases /\ Told
    BY DEF IInv
  <1>2. UpToDate \in Plain /\ UpToDate \in Reply /\ UpToDate.kind = "up_to_date"
    BY DEF UpToDate, Plain, Message, Reply
  <1>3. Known \in Copies /\ Resolve(Known, UpToDate) = Known
    BY <1>1, <1>2, KnownIs, TellNothing
  <1>4. Agrees(Resolve(Known, UpToDate), items, timeInitiated, welcomed')
    BY <1>1, <1>3 DEF Told
  <1> QED
    BY <1>1, <1>2, <1>4, AnswerKeeps DEF Sends, TypeOK

LEMMA InitYesKeeps ==
    ASSUME IInv, Takes, NEW order \in Orders, Acceptable(order),
           transactionId = none, transactionId' = Len(orders) + 1, lineItems' = order,
           orders' = Append(orders, order), UNCHANGED <<inventory, completed, welcomed>>,
           Sends(<<InitResponse(transactionId'), MicroTransactionResponse(transactionId')>>)
    PROVE  IInv'
  <1> USE DEF inventory
  <1> DEFINE id == Len(orders) + 1
             e == InitResponse(id)
             a == MicroTransactionResponse(id)
             s == <<e, a>>
  <1>1. TypeOK /\ Purchases /\ Callback /\ Ordered /\ Told
    BY DEF IInv
  <1>2. order \in Accepted
    BY DEF Accepted, Acceptable
  <1>3. /\ orders \in Seq(Accepted) /\ orders' \in Seq(Accepted) /\ Ids' = Ids \cup {id} /\ id \notin Ids
        /\ id \in Nat /\ id # none /\ orders'[id] = order /\ none \notin Ids /\ none \notin Ids'
    BY <1>1, <1>2, StoreAssumption DEF TypeOK, Ids
  <1>4. /\ e \in Message /\ a \in Reply /\ e \in Reply /\ IsMessage(e) /\ ~IsMessage(a) /\ a.id = id
        /\ e.kind = "init_response" /\ e.id = id /\ a.kind = "micro_transaction"
    BY <1>3 DEF InitResponse, MicroTransactionResponse, Message, Reply, IsMessage
  <1>5. outbox' = outbox \o s
    BY DEF Sends
  <1> HIDE DEF id, e, a
  <1>6. /\ outbox \in Seq(Reply) /\ outbox' \in Seq(Reply) /\ s \in Seq(Reply)
        /\ DOMAIN outbox' = DOMAIN outbox \cup {Len(outbox) + 1, Len(outbox) + 2}
        /\ \A n \in DOMAIN outbox : outbox'[n] = outbox[n]
        /\ outbox'[Len(outbox) + 1] = e /\ outbox'[Len(outbox) + 2] = a
    <2>1. outbox \in Seq(Reply) /\ s \in Seq(Reply) /\ Len(s) = 2 /\ s[1] = e /\ s[2] = a
      BY <1>1, <1>4 DEF TypeOK
    <2> HIDE DEF s
    <2>2. outbox' \in Seq(Reply) /\ Len(outbox') = Len(outbox) + 2 /\ Len(outbox) \in Nat
      <3>1. outbox \o s \in Seq(Reply) /\ Len(outbox \o s) = Len(outbox) + Len(s)
        BY <2>1, ConcatIs, Zenon
      <3> QED
        BY <1>5, <2>1, <3>1
    <2>3. \A n \in DOMAIN outbox : outbox'[n] = outbox[n]
      <3>1. \A n \in DOMAIN outbox : (outbox \o s)[n] = outbox[n]
        BY <2>1, ConcatIs, Zenon
      <3> QED
        BY <1>5, <3>1, Zenon
    <2>4. \A k \in 1..2 : outbox'[Len(outbox) + k] = s[k]
      <3>1. outbox \in Seq(Reply) /\ s \in Seq(Reply)
        BY <2>1
      <3>2. \A n \in 1..Len(s) : (outbox \o s)[Len(outbox) + n] = s[n]
        BY <3>1, SMTT(30)
      <3> QED
        BY <1>5, <2>1, <3>2
    <2>5. DOMAIN outbox' = DOMAIN outbox \cup {Len(outbox) + 1, Len(outbox) + 2}
      <3>1. DOMAIN outbox' = 1..Len(outbox') /\ DOMAIN outbox = 1..Len(outbox)
        BY <2>1, <2>2
      <3>2. 1 .. Len(outbox) + 2 = 1..Len(outbox) \cup {Len(outbox) + 1, Len(outbox) + 2}
        BY <2>2
      <3> QED
        BY <2>2, <3>1, <3>2, Zenon
    <2> QED
      BY <2>1, <2>2, <2>3, <2>4, <2>5
  <1>7. ~Waiting /\ Asked = {} /\ authorization = none
    BY <1>1 DEF Callback, Waiting
  <1>8. toGC' \in Seq(Request) /\ \A n \in DOMAIN toGC' : Requested(n)'
    BY <1>1, <1>3, Taken DEF Takes
  <1>9. TypeOK'
    <2>1. Typed'
      BY <1>1, <1>3 DEF TypeOK, Typed, Held, id
    <2> QED
      BY <1>1, <1>6, <1>8, <2>1, TypedKeeps DEF Takes, TypeOK
  <1>10. Purchases'
    <2>1. \A n \in DOMAIN outbox' : Answered(outbox[n])'
      BY <1>1, <1>3, <1>4, <1>6 DEF Purchases, Answered
    <2>2. \A n \in DOMAIN inbox' : Answered(inbox[n])'
      BY <1>1, <1>3 DEF Purchases, Answered, Takes
    <2>3. shop' = shop /\ shop.id \in Ids' \cup {none}
      BY <1>1, <1>3 DEF Purchases, Takes
    <2> QED
      BY <1>1, <1>8, <2>1, <2>2, <2>3 DEF Purchases
  <1>11. Callback'
    <2>1. \A n \in Asked' : outbox'[n].id = id
      BY <1>4, <1>6, <1>7 DEF Asked
    <2>2. \A n \in DOMAIN toGC' : toGC'[n].kind = "finalize" => toGC'[n].id \in Ids
      BY <1>1, <1>3, Taken DEF Purchases, Requested, Takes
    <2>3. shop' = shop /\ shop.id # id /\ authorization' = none
      BY <1>1, <1>3, <1>7 DEF Purchases, Takes
    <2>4. transactionId' = id
      BY DEF id
    <2> QED
      BY <1>3, <2>1, <2>2, <2>3, <2>4 DEF Callback
  <1>12. Ordered'
    <2>1. DOMAIN items' \subseteq Held
      BY DEF Held
    <2>2. DOMAIN made' = Ids' /\ WhatWasOrdered' /\ completed' \subseteq Ids'
      BY <1>1, <1>2, <2>1, KeepsWhatWasOrdered DEF Takes
    <2>3. transactionId' = id /\ id \notin completed
      BY <1>1, <1>3 DEF Ordered, id
    <2> QED
      BY <1>3, <2>2, <2>3 DEF Ordered
  <1>13. Told'
    <2>1. Known \in Copies
      BY <1>1, KnownIs
    <2>2. Known' = Reduced(2, Known, s)
      BY <1>1, <1>5, <1>6, KnownMore DEF Takes
    <2>8. PICK one, other : one = <<e>> /\ other = <<a>>
      OBVIOUS
    <2>9. <<e, a>> = <<e>> \o <<a>> /\ <<e>> \in Seq(Reply) /\ <<a>> \in Seq(Reply)
      <3>1. <<e>> \in Seq(Reply) /\ <<a>> \in Seq(Reply)
        BY <1>4
      <3> QED
        BY <3>1, PairIs
    <2>3. one = <<e>> /\ other = <<a>> /\ s = one \o other /\ one \in Seq(Reply) /\ other \in Seq(Reply)
      BY <2>8, <2>9, Zenon
    <2> HIDE DEF s
    <2>4. Reduced(2, Known, s) = Reduced(2, Reduced(2, Known, one), other)
      BY <2>3, TellMore
    <2>5. Reduced(2, Known, one) = Known
      BY <1>4, <2>1, <2>3, TellOne, TellNothing
    <2>6. Reduced(2, Known, other) = Known
      BY <1>4, <2>1, <2>3, TellOne, TellNothing
    <2>7. Known' = Known
      BY <2>2, <2>4, <2>5, <2>6
    <2> QED
      BY <1>1, <2>7 DEF Told, HasItemDefinition, Held
  <1> QED
    BY <1>9, <1>10, <1>11, <1>12, <1>13 DEF IInv

\* The subscription among what was bought.
LEMMA BoughtIs ==
    ASSUME TypeOK, NEW id \in Ids, NEW defs \in Seq(STRING), items' = Plus(items, Bought(id, defs))
    PROVE  LET D == lastId + 1 .. lastId + Len(defs) IN
           /\ items' \in Items /\ DOMAIN items' = Held \cup D /\ D \cap Held = {}
           /\ \A i \in Held : items'[i] = items[i]
           /\ \A i \in D : items'[i].def = defs[i - lastId]
           /\ (\E i \in D : items'[i].def = Subscription) <=> Contains(defs, Subscription)
  <1> DEFINE D == lastId + 1 .. lastId + Len(defs)
             b == Bought(id, defs)
  <1>1. items \in Items /\ lastId \in Nat /\ Held \subseteq 1..lastId /\ id \in Nat
    BY DEF TypeOK, Ids
  <1>2. /\ b \in Items /\ DOMAIN b = D
        /\ \A i \in D : b[i] = [def |-> defs[i - lastId], txn |-> id]
    BY <1>1, BoughtItems
  <1>3. D \cap Held = {}
    BY <1>1
  <1> HIDE DEF b
  <1>4. items' \in Items /\ DOMAIN items' = Held \cup D
    BY <1>1, <1>2, PlusItems DEF Held, b
  <1>5. \A i \in Held : items'[i] = items[i]
    <2> HIDE DEF D
    <2> QED
      BY <1>2, <1>3 DEF Plus, Held, b
  <1>6. ASSUME NEW i \in D PROVE items'[i].def = defs[i - lastId]
    <2>1. items'[i] = b[i]
      <3> HIDE DEF D
      <3> QED
        BY <1>2 DEF Plus, b
    <2>2. items'[i] = [def |-> defs[i - lastId], txn |-> id]
      BY <1>2, <2>1
    <2> QED
      BY <2>2
  <1>7. ASSUME NEW i \in D, items'[i].def = Subscription PROVE Contains(defs, Subscription)
    <2>1. i - lastId \in 1..Len(defs) /\ defs[i - lastId] = Subscription
      BY <1>1, <1>6, <1>7
    <2> QED
      BY <2>1 DEF Contains
  <1>8. ASSUME Contains(defs, Subscription) PROVE \E i \in D : items'[i].def = Subscription
    <2>1. PICK k \in 1..Len(defs) : defs[k] = Subscription
      BY <1>8 DEF Contains
    <2>2. lastId + k \in D /\ (lastId + k) - lastId = k
      BY <1>1
    <2> HIDE DEF D
    <2>3. items'[lastId + k].def = Subscription
      BY <1>6, <2>1, <2>2
    <2> QED
      BY <2>2, <2>3
  <1> QED
    BY <1>3, <1>4, <1>5, <1>6, <1>7, <1>8

LEMMA FinalizeDoneKeeps ==
    ASSUME IInv, Takes, Head(toGC).kind = "finalize", Head(toGC).id = transactionId,
           NEW defs, defs = Flat(lineItems), ~(HasItemDefinition(Subscription) /\ Contains(defs, Subscription)),
           transactionId' = none, lineItems' = <<>>, lastId' = lastId + Len(defs),
           timeInitiated' = (timeInitiated \/ Contains(defs, Subscription)),
           items' = Plus(items, Bought(transactionId, defs)),
           Sends(Objects(Len(defs)) \o <<FinalizeResponse(lastId + 1 .. lastId + Len(defs))>>
                   \o (IF Contains(defs, Subscription) THEN <<Status>> ELSE <<>>)),
           completed' = completed \cup {transactionId}, UNCHANGED <<orders, welcomed>>
    PROVE  IInv'
  <1> DEFINE id == transactionId
             ids == lastId + 1 .. lastId + Len(defs)
             objects == Objects(Len(defs))
             answer == FinalizeResponse(ids)
             rest == IF Contains(defs, Subscription) THEN <<Status>> ELSE <<>>
             s == objects \o <<answer>> \o rest
             d == Reduced(2, Known, objects)
  <1>1. TypeOK /\ Purchases /\ Callback /\ Ordered /\ Told
    BY DEF IInv
  <1>2. /\ id \in Ids /\ id # none /\ none \notin Ids /\ orders \in Seq(Accepted) /\ Ids' = Ids
    BY <1>1, Taken, StoreAssumption DEF Takes, TypeOK, Ids
  <1>3. ~Waiting
    <2>1. 1 \in DOMAIN toGC /\ toGC[1] = Head(toGC)
      BY <1>1 DEF Takes, TypeOK
    <2> QED
      BY <1>1, <2>1 DEF Callback
  <1>4. defs \in Seq(STRING) /\ Len(defs) \in Nat
    <2>1. lineItems = orders[id] /\ orders[id] \in Accepted
      BY <1>1, <1>2 DEF Ordered, Ids
    <2> QED
      BY <2>1, FlatType
  <1>5. /\ items' \in Items /\ DOMAIN items' = Held \cup ids /\ ids \cap Held = {}
        /\ \A i \in Held : items'[i] = items[i]
        /\ (\E i \in ids : items'[i].def = Subscription) <=> Contains(defs, Subscription)
    BY <1>1, <1>2, <1>4, BoughtIs
  <1>6. lastId \in Nat /\ ids \in SUBSET Nat /\ Held \subseteq 1..lastId /\ timeInitiated \in BOOLEAN /\ timeInitiated' \in BOOLEAN
    BY <1>1, <1>4 DEF TypeOK
  <1>7. timeInitiated' => HasItemDefinition(Subscription)'
    <2>1. CASE timeInitiated
      BY <1>1, <1>5, <2>1 DEF Told, HasItemDefinition, Held
    <2>2. CASE ~timeInitiated
      BY <1>5, <2>2 DEF HasItemDefinition, Held
    <2> QED
      BY <2>1, <2>2
  <1>8. Status = [kind |-> "status", active |-> timeInitiated'] /\ Status \in Plain
    <2>1. Status = [kind |-> "status", active |-> timeInitiated']
      BY <1>6, <1>7, StatusIs
    <2> QED
      BY <1>6, <2>1 DEF Plain, Message
  <1>9. answer \in Plain /\ answer.kind = "finalize_response" /\ answer.ids = ids
    BY <1>6 DEF FinalizeResponse, Plain, Message
  <1>10. Known \in Copies
    BY <1>1, KnownIs
  <1>11. objects \in Seq(Plain) /\ Gained(Known, d, items', lastId, Len(defs))
    BY <1>4, <1>5, <1>6, <1>10, ObjectsAre, ObjectsTell
  <1>12. rest \in Seq(Plain)
    <2>1. <<>> \in Seq(Plain)
      OBVIOUS
    <2> QED
      BY <1>8, <2>1, OnePlain
  <1> HIDE DEF objects, answer, rest, d, id, ids
  <1>13. <<answer>> \in Seq(Plain)
    BY <1>9, OnePlain
  <1>14. PICK one : one = <<answer>>
    OBVIOUS
  <1>15. s = objects \o one \o rest /\ objects \o one \in Seq(Plain) /\ s \in Seq(Plain)
    BY <1>11, <1>12, <1>13, <1>14
  <1>16. Sending(s)
    BY DEF Sending, Takes, Sends, objects, answer, rest, ids
  <1> HIDE DEF s
  <1>17. /\ toGC' \in Seq(Request) /\ outbox' \in Seq(Reply) /\ Purchases' /\ Callback'
         /\ Known' = Reduced(2, Known, s)
    BY <1>3, <1>15, <1>16, SendingKeeps
  <1>18. TypeOK'
    <2>1. DOMAIN items' \subseteq 1..lastId'
      <3>1. ids \subseteq 1..lastId'
        BY <1>4, <1>6 DEF ids
      <3>2. Held \subseteq 1..lastId'
        <4>1. \A i \in 1..lastId : i \in 1..lastId'
          BY <1>4, <1>6
        <4> QED
          BY <1>6, <4>1
      <3> QED
        BY <1>5, <3>1, <3>2
    <2>2. Typed'
      BY <1>1, <1>2, <1>4, <1>5, <1>6, <2>1 DEF Typed, Held
    <2> QED
      BY <1>1, <1>17, <2>2, TypedKeeps DEF Takes, TypeOK
  <1>19. Ordered'
    <2>1. DOMAIN made' = Ids' /\ WhatWasOrdered' /\ completed' \subseteq Ids'
      BY <1>1, <1>2, MakesWhatWasOrdered DEF Takes, id
    <2> QED
      BY <2>1 DEF Ordered
  <1>20. Known' = Reduced(2, d, rest)
    <2>1. objects \in Seq(Reply) /\ one \in Seq(Reply) /\ rest \in Seq(Reply) /\ objects \o one \in Seq(Reply)
      BY <1>11, <1>12, <1>13, <1>14, <1>15, PlainReply
    <2>2. Reduced(2, Known, (objects \o one) \o rest) = Reduced(2, Reduced(2, Known, objects \o one), rest)
      BY <2>1, TellMore
    <2>3. Reduced(2, Known, objects \o one) = Reduced(2, d, one)
      BY <2>1, TellMore DEF d
    <2>4. Reduced(2, d, one) = Resolve(d, answer)
      BY <1>14, TellOne
    <2>5. Resolve(d, answer) = d
      <3>1. d \in Copies /\ answer \in Reply /\ ids \subseteq DOMAIN d.cache.items
        BY <1>9, <1>11 DEF Gained, ids, Plain, Reply
      <3> QED
        BY <1>9, <3>1, TellNothing
    <2> QED
      BY <1>15, <1>17, <2>2, <2>3, <2>4, <2>5
  <1>21. /\ Known' \in Copies /\ Known'.ok = d.ok /\ Known'.cache.items = d.cache.items
         /\ Known'.cache.subscription = d.cache.subscription
         /\ Known'.cache.status = IF Contains(defs, Subscription) THEN timeInitiated' ELSE d.cache.status
    <2>1. d \in Copies
      BY <1>11 DEF Gained
    <2>2. CASE Contains(defs, Subscription)
      <3>1. Known' = Resolve(d, Status)
        BY <1>20, <2>2, TellOne DEF rest
      <3> QED
        BY <1>6, <1>8, <2>1, <2>2, <3>1, TellStatus
    <2>3. CASE ~Contains(defs, Subscription)
      BY <1>20, <2>1, <2>3, ReducedNone DEF rest
    <2> QED
      BY <2>2, <2>3
  <1>22. /\ Known.ok /\ Known.cache.status \in {none, timeInitiated}
         /\ welcomed => Known.cache.items = items /\ Known.cache.subscription = timeInitiated
    BY <1>1 DEF Told, Agrees
  <1>23. ASSUME welcomed PROVE d.cache.items = items'
    <2>0. Known.cache.items = items
      BY <1>22, <1>23
    <2>1. DOMAIN d.cache.items = DOMAIN items'
      BY <1>5, <1>11, <2>0 DEF Gained, Held, ids
    <2>2. \A i \in DOMAIN items' : d.cache.items[i] = items'[i]
      BY <1>5, <1>11, <2>0, <2>1 DEF Gained, ids
    <2>3. d.cache.items \in Items
      BY <1>11 DEF Gained, Copies, Cache
    <2>4. items' \in [DOMAIN items' -> Item] /\ d.cache.items \in [DOMAIN d.cache.items -> Item]
      BY <1>5, <2>3, ItemsAre
    <2> QED
      BY <2>1, <2>2, <2>4
  <1>24. /\ d.ok /\ d.cache.status = Known.cache.status
         /\ welcomed => d.cache.subscription = timeInitiated'
    BY <1>5, <1>11, <1>22 DEF Gained, ids
  <1>25. Told'
    <2>1. Known'.cache.status \in {none, timeInitiated'}
      <3>1. CASE Contains(defs, Subscription)
        BY <1>21, <3>1
      <3>2. CASE ~Contains(defs, Subscription)
        <4>1. timeInitiated' = timeInitiated
          BY <1>6, <3>2
        <4> QED
          BY <1>21, <1>22, <1>24, <3>2, <4>1
      <3> QED
        BY <3>1, <3>2
    <2> QED
      BY <1>7, <1>21, <1>23, <1>24, <2>1 DEF Told, Agrees
  <1> QED
    BY <1>17, <1>18, <1>19, <1>25 DEF IInv

\* The items that were made for a purchase that fails are gone.
LEMMA TakenBack ==
    ASSUME TypeOK, NEW id \in Ids, NEW done \in Seq(STRING)
    PROVE  Without(Plus(items, Bought(id, done)), lastId + 1 .. lastId + Len(done)) = items
  <1> DEFINE D == lastId + 1 .. lastId + Len(done)
             b == Bought(id, done)
             f == Plus(items, b)
  <1>1. items \in Items /\ lastId \in Nat /\ Held \subseteq 1..lastId /\ id \in Nat
    BY DEF TypeOK, Ids
  <1>2. b \in Items /\ DOMAIN b = D
    BY <1>1, BoughtItems
  <1>3. D \cap Held = {}
    BY <1>1
  <1> HIDE DEF b, D
  <1>4. f \in Items /\ DOMAIN f = Held \cup D
    BY <1>1, <1>2, PlusItems DEF Held
  <1>5. \A i \in Held : f[i] = items[i]
    BY <1>2, <1>3 DEF Plus, Held
  <1> HIDE DEF f
  <1>6. /\ DOMAIN Without(f, D) = Held /\ Without(f, D) \in Items
        /\ \A i \in Held : Without(f, D)[i] = items[i]
    <2>1. (Held \cup D) \ D = Held
      BY <1>3
    <2>2. /\ Without(f, D) \in Items /\ DOMAIN Without(f, D) = DOMAIN f \ D
          /\ \A j \in DOMAIN f \ D : Without(f, D)[j] = f[j]
      BY <1>4, WithoutItems
    <2>3. DOMAIN f \ D = Held
      BY <1>4, <2>1
    <2> QED
      BY <1>5, <2>2, <2>3
  <1>7. Without(f, D) \in [Held -> Item] /\ items \in [Held -> Item]
    BY <1>1, <1>6, ItemsAre DEF Held
  <1>8. Without(f, D) = items
    BY <1>6, <1>7
  <1> QED
    BY <1>8 DEF f, b, D

LEMMA FinalizeFailsKeeps ==
    ASSUME IInv, Takes, Head(toGC).kind = "finalize", Head(toGC).id = transactionId,
           NEW done \in Seq(STRING), ~Contains(done, Subscription),
           transactionId' = none, lineItems' = <<>>, lastId' = lastId + Len(done),
           timeInitiated' = (timeInitiated \/ Contains(done, Subscription)),
           items' = Without(Plus(items, Bought(transactionId, done)), lastId + 1 .. lastId + Len(done)),
           Sends(<<FinalizeResponse({})>>), UNCHANGED <<completed, orders, welcomed>>
    PROVE  IInv'
  <1> DEFINE e == FinalizeResponse({})
  <1>1. TypeOK /\ Purchases /\ Callback /\ Ordered /\ Told
    BY DEF IInv
  <1>2. /\ transactionId \in Ids /\ transactionId # none /\ none \notin Ids /\ Ids' = Ids
    BY <1>1, Taken, StoreAssumption DEF Takes, TypeOK, Ids
  <1>3. ~Waiting
    <2>1. 1 \in DOMAIN toGC /\ toGC[1] = Head(toGC)
      BY <1>1 DEF Takes, TypeOK
    <2> QED
      BY <1>1, <2>1 DEF Callback
  <1>4. items' = items /\ timeInitiated' = timeInitiated
    <2>1. timeInitiated \in BOOLEAN
      BY <1>1 DEF TypeOK
    <2> QED
      BY <1>1, <1>2, <2>1, TakenBack
  <1>5. e \in Plain /\ e \in Reply /\ e.kind = "finalize_response" /\ e.ids = {}
    BY DEF FinalizeResponse, Plain, Message, Reply
  <1>6. Sending(<<e>>)
    BY DEF Sending, Takes, Sends
  <1> HIDE DEF e
  <1>7. /\ toGC' \in Seq(Request) /\ outbox' \in Seq(Reply) /\ Purchases' /\ Callback'
        /\ Known' = Reduced(2, Known, <<e>>) /\ Known \in Copies
    BY <1>3, <1>5, <1>6, OnePlain, SendingKeeps
  <1>8. Known' = Known
    BY <1>5, <1>7, TellOne, TellNothing
  <1>9. TypeOK'
    <2>1. Held \subseteq 1..lastId /\ lastId \in Nat /\ Len(done) \in Nat
      BY <1>1 DEF TypeOK
    <2>2. lastId' \in Nat /\ Held \subseteq 1..lastId'
      <3>1. \A i \in 1..lastId : i \in 1..lastId'
        BY <2>1
      <3> QED
        BY <2>1, <3>1
    <2>3. Typed'
      BY <1>1, <1>2, <1>4, <2>2 DEF Typed, TypeOK, Held
    <2> QED
      BY <1>1, <1>7, <2>3, TypedKeeps DEF Takes, TypeOK
  <1>10. Ordered'
    <2>1. DOMAIN items' \subseteq Held
      BY <1>4 DEF Held
    <2>2. DOMAIN made' = Ids' /\ WhatWasOrdered' /\ completed' \subseteq Ids'
      BY <1>1, <2>1, KeepsWhatWasOrdered DEF Takes
    <2> QED
      BY <2>2 DEF Ordered
  <1>11. Told'
    BY <1>1, <1>4, <1>8 DEF Told, HasItemDefinition, Held
  <1> QED
    BY <1>7, <1>9, <1>10, <1>11 DEF IInv

LEMMA WorkerKeeps == ASSUME IInv, Worker PROVE IInv'
  <1> DEFINE m == Head(toGC)
             defs == Flat(lineItems)
             fails == HasItemDefinition(Subscription) /\ Contains(defs, Subscription)
             before == SubSeq(defs, 1, SelectInSeq(defs, LAMBDA d : d = Subscription) - 1)
  <1>1. TypeOK /\ Purchases /\ Ordered
    BY DEF IInv
  <1>2. Takes /\ HandleMessage(m)
    BY DEF Worker, Takes, Keeps, game
  <1>3. m \in Request
    BY <1>1 DEF Worker, TypeOK
  <1>4. CASE m.kind = "init"
    <2>1. StorePurchaseInit(m.order) /\ m.order \in Orders /\ welcomed' = welcomed
      BY <1>2, <1>3, <1>4 DEF HandleMessage, Request
    <2> HIDE DEF m
    <2>2. CASE transactionId = none /\ Acceptable(m.order) /\ orders' = Append(orders, m.order)
      BY <1>2, <2>1, <2>2, InitYesKeeps DEF StorePurchaseInit, m
    <2>3. CASE Sends(<<InitResponse(none)>>) /\ UNCHANGED <<purchase, orders>>
      BY <1>2, <2>1, <2>3, InitNoKeeps DEF StorePurchaseInit, m
    <2> QED
      BY <2>1, <2>2, <2>3 DEF StorePurchaseInit
  <1>5. CASE m.kind = "finalize"
    <2>1. StorePurchaseFinalize(m.id) /\ welcomed' = welcomed
      BY <1>2, <1>5 DEF HandleMessage
    <2>2. CASE transactionId # m.id
      BY <1>2, <2>1, <2>2, FinalizeOtherKeeps DEF StorePurchaseFinalize
    <2>3. CASE transactionId = m.id
      <3>1. FinalizePending(m.id)
        BY <2>1, <2>3 DEF StorePurchaseFinalize
      <3>2. defs \in Seq(STRING)
        <4>1. m.id \in Ids
          BY <1>1, <1>5, Taken DEF Takes, Worker, Purchases, Requested, TypeOK
        <4>2. transactionId # none /\ orders[transactionId] \in Accepted
          BY <1>1, <2>3, <4>1, StoreAssumption DEF TypeOK, Ids
        <4> QED
          BY <1>1, <4>2, FlatType DEF Ordered
      <3>3. CASE fails
        <4>1. before \in Seq(STRING) /\ ~Contains(before, Subscription)
          BY <3>2, <3>3, BeforeSubscription
        <4>2. /\ transactionId' = none /\ lineItems' = <<>> /\ lastId' = lastId + Len(before)
              /\ timeInitiated' = (timeInitiated \/ Contains(before, Subscription))
              /\ items' = Without(Plus(items, Bought(transactionId, before)), lastId + 1 .. lastId + Len(before))
              /\ Sends(<<FinalizeResponse({})>>) /\ UNCHANGED <<completed, orders>>
          BY <2>3, <3>1, <3>3 DEF FinalizePending
        <4> HIDE DEF before
        <4> QED
          BY <1>2, <1>5, <2>1, <2>3, <4>1, <4>2, FinalizeFailsKeeps
      <3>4. CASE ~fails
        <4>1. /\ transactionId' = none /\ lineItems' = <<>> /\ lastId' = lastId + Len(defs)
              /\ timeInitiated' = (timeInitiated \/ Contains(defs, Subscription))
              /\ items' = Plus(items, Bought(transactionId, defs))
              /\ Sends(Objects(Len(defs)) \o <<FinalizeResponse(lastId + 1 .. lastId + Len(defs))>>
                         \o (IF Contains(defs, Subscription) THEN <<Status>> ELSE <<>>))
              /\ completed' = completed \cup {transactionId} /\ orders' = orders
          BY <2>3, <3>1, <3>4 DEF FinalizePending
        <4> QED
          BY <1>2, <1>5, <2>1, <2>3, <3>4, <4>1, FinalizeDoneKeeps
      <3> QED
        BY <3>3, <3>4
    <2> QED
      BY <2>2, <2>3
  <1>6. CASE m.kind = "hello"
    <2>1. CASE Answer(Snapshot) /\ welcomed' = TRUE
      BY <1>2, <2>1, HelloKeeps DEF Answer
    <2>2. CASE Answer(UpToDate) /\ UNCHANGED welcomed
      BY <1>2, <2>2, UpToDateKeeps DEF Answer
    <2> QED
      BY <1>2, <1>6, <2>1, <2>2 DEF HandleMessage, OnClientHello
  <1>7. CASE m.kind = "ask_status"
    <2>1. Answer(Status) /\ welcomed' = welcomed
      BY <1>2, <1>7 DEF HandleMessage
    <2> QED
      BY <1>2, <2>1, AskStatusKeeps DEF Answer
  <1> QED
    BY <1>3, <1>4, <1>5, <1>6, <1>7 DEF Request

\* The history of what was made is about purchases only.
LEMMA RconOrdered ==
    ASSUME Ordered, UNCHANGED <<purchase, orders, completed, made>> PROVE Ordered'
  BY DEF Ordered, WhatWasOrdered, purchase, Ids

LEMMA CreateKeeps ==
    ASSUME IInv, CreateRconItem, UNCHANGED <<made, toGC, inbox, authorization, game, welcomed>>
    PROVE  IInv'
  <1> DEFINE i == lastId + 1
             x == [def |-> Subscription, txn |-> none]
             e == [kind |-> "item", id |-> i, item |-> x]
  <1> USE DEF game, purchase
  <1>1. TypeOK /\ Ordered /\ Told
    BY DEF IInv
  <1>2. /\ items \in Items /\ lastId \in Nat /\ Held \subseteq 1..lastId /\ i \in Nat /\ i \notin Held
        /\ x \in Item
    <2>1. items \in Items /\ lastId \in Nat /\ Held \subseteq 1..lastId
      BY <1>1 DEF TypeOK
    <2>2. x \in Item
      BY DEF Item
    <2> QED
      BY <2>1, <2>2
  <1>3. lastId' = i /\ items' = With(items, i, x) /\ timeInitiated' = timeInitiated
    BY DEF CreateRconItem
  <1> HIDE DEF x
  <1>4. /\ items' \in Items /\ DOMAIN items' = Held \cup {i} /\ items'[i] = x
        /\ \A j \in Held \ {i} : items'[j] = items[j]
    <2> HIDE DEF i
    <2>1. /\ With(items, i, x) \in Items /\ DOMAIN With(items, i, x) = DOMAIN items \cup {i}
          /\ With(items, i, x)[i] = x /\ \A j \in DOMAIN items \ {i} : With(items, i, x)[j] = items[j]
      BY <1>2, WithItems
    <2> QED
      BY <1>3, <2>1 DEF Held
  <1>5. ItemObject(i) = e
    BY <1>4 DEF ItemObject
  <1>6. e \in Plain
    BY <1>2 DEF Plain, Message
  <1> HIDE DEF e
  <1>7. outbox' = outbox \o <<e>>
    BY <1>3, <1>5 DEF CreateRconItem, Sends
  <1>8. Sending(<<e>>) /\ transactionId' = transactionId
    BY <1>7 DEF Sending, CreateRconItem
  <1>9. /\ toGC' \in Seq(Request) /\ outbox' \in Seq(Reply) /\ Purchases' /\ Callback'
        /\ Known' = Reduced(2, Known, <<e>>) /\ Known \in Copies
    BY <1>6, <1>8, OnePlain, SendingKeeps
  <1>10. Known' = Resolve(Known, e)
    BY <1>9, TellOne
  <1>11. /\ Known'.ok = Known.ok /\ Known'.cache.items = With(Known.cache.items, i, x)
         /\ Known'.cache.subscription = Known.cache.subscription
         /\ Known'.cache.status = Known.cache.status
    BY <1>2, <1>9, <1>10, TellItem DEF e
  <1>13. timeInitiated' => HasItemDefinition(Subscription)'
    BY <1>1, <1>2, <1>3, <1>4 DEF Told, HasItemDefinition, Held
  <1>14. Told'
    BY <1>1, <1>3, <1>11, <1>13 DEF Told, Agrees
  <1>15. TypeOK'
    <2>1. DOMAIN items' \subseteq 1..lastId'
      <3>1. \A j \in 1..lastId : j \in 1..lastId'
        BY <1>2, <1>3
      <3>2. i \in 1..lastId'
        BY <1>2, <1>3
      <3> HIDE DEF i
      <3> QED
        BY <1>2, <1>4, <3>1, <3>2
    <2>2. Typed'
      BY <1>1, <1>2, <1>3, <1>4, <2>1 DEF Typed, TypeOK, CreateRconItem, Held, Ids
    <2> QED
      BY <1>1, <1>9, <2>2, TypedKeeps DEF TypeOK
  <1>16. Ordered'
    BY <1>1, RconOrdered DEF CreateRconItem
  <1> QED
    BY <1>9, <1>14, <1>15, <1>16 DEF IInv

LEMMA RemoveKeeps ==
    ASSUME IInv, NEW i \in Held, RemoveItem(i), UNCHANGED <<made, toGC, inbox, authorization, game, welcomed>>
    PROVE  IInv'
  <1> DEFINE e == DestroyObject(i)
             gone == items[i].def = Subscription
             rest == IF gone THEN <<SubscriptionObject(FALSE), Status>> ELSE <<>>
             sub == SubscriptionObject(FALSE)
             d == Resolve(Known, e)
  <1> USE DEF game, purchase
  <1>1. TypeOK /\ Ordered /\ Told
    BY DEF IInv
  <1>2. items \in Items /\ lastId \in Nat /\ Held \subseteq 1..lastId /\ i \in Nat /\ timeInitiated \in BOOLEAN
    BY <1>1 DEF TypeOK
  <1>3. /\ lastId' = lastId /\ items' = Without(items, {i}) /\ timeInitiated' = (timeInitiated /\ ~gone)
    BY DEF RemoveItem
  <1>4. /\ items' \in Items /\ DOMAIN items' = Held \ {i}
        /\ \A j \in Held \ {i} : items'[j] = items[j]
    BY <1>2, <1>3, WithoutItems DEF Held
  <1>5. timeInitiated' => HasItemDefinition(Subscription)'
    <2>1. ASSUME timeInitiated' PROVE HasItemDefinition(Subscription)'
      <3>1. timeInitiated /\ ~gone
        BY <1>3, <2>1
      <3>2. PICK j \in Held : items[j].def = Subscription
        BY <1>1, <3>1 DEF Told, HasItemDefinition
      <3>3. j # i
        BY <3>1, <3>2
      <3> QED
        BY <1>4, <3>2, <3>3 DEF HasItemDefinition, Held
    <2> QED
      BY <2>1
  <1>6. Status = [kind |-> "status", active |-> timeInitiated'] /\ timeInitiated' \in BOOLEAN
    BY <1>2, <1>3, <1>5, StatusIs
  <1>7. Status \in Plain
    BY <1>6 DEF Plain, Message
  <1>8. e \in Plain /\ sub \in Plain
    BY <1>2 DEF Plain, Message, DestroyObject, SubscriptionObject
  <1>9. Known \in Copies
    BY <1>1, KnownIs
  <1>10. /\ d \in Copies /\ d.ok = Known.ok /\ d.cache.items = Without(Known.cache.items, {i})
         /\ d.cache.subscription = Known.cache.subscription /\ d.cache.status = Known.cache.status
    BY <1>2, <1>9, TellDestroy
  <1> HIDE DEF e, d, sub
  <1>11. PICK one, two, three, both :
           one = <<e>> /\ two = <<sub>> /\ three = <<Status>> /\ both = <<sub, Status>>
    OBVIOUS
  <1>12. one \in Seq(Plain) /\ two \in Seq(Plain) /\ three \in Seq(Plain) /\ both = two \o three
    BY <1>7, <1>8, <1>11, OnePlain, PairIs
  <1>13. both \in Seq(Plain) /\ <<>> \in Seq(Plain)
    BY <1>12
  <1>14. PICK tail : tail = rest
    OBVIOUS
  <1>15. tail \in Seq(Plain) /\ (gone => tail = both) /\ (~gone => tail = <<>>)
    BY <1>11, <1>13, <1>14 DEF sub
  <1>16. outbox' = outbox \o (one \o tail)
    BY <1>11, <1>14 DEF RemoveItem, Sends, e
  <1> HIDE DEF rest, gone
  <1>17. Sending(one \o tail) /\ transactionId' = transactionId
    BY <1>16 DEF Sending, RemoveItem
  <1>18. one \o tail \in Seq(Plain)
    BY <1>12, <1>15
  <1>19. /\ toGC' \in Seq(Request) /\ outbox' \in Seq(Reply) /\ Purchases' /\ Callback'
         /\ Known' = Reduced(2, Known, one \o tail)
    BY <1>17, <1>18, SendingKeeps
  <1>20. Known' = Reduced(2, d, tail)
    <2>1. one \in Seq(Reply) /\ tail \in Seq(Reply)
      BY <1>12, <1>15, PlainReply
    <2>2. Reduced(2, Known, one \o tail) = Reduced(2, Reduced(2, Known, one), tail)
      BY <2>1, TellMore
    <2> QED
      BY <1>11, <1>19, <2>2, TellOne DEF d
  <1>21. /\ Known'.ok = d.ok /\ Known'.cache.items = d.cache.items
         /\ Known'.cache.subscription = (IF gone THEN FALSE ELSE d.cache.subscription)
         /\ Known'.cache.status = (IF gone THEN timeInitiated' ELSE d.cache.status)
    <2>1. CASE gone
      <3> DEFINE h == Resolve(d, sub)
      <3>1. /\ h \in Copies /\ h.ok = d.ok /\ h.cache.items = d.cache.items
            /\ h.cache.subscription = FALSE
        BY <1>10, TellSubscription DEF sub
      <3> HIDE DEF h
      <3>2. two \in Seq(Reply) /\ three \in Seq(Reply)
        BY <1>12, PlainReply
      <3>3. Reduced(2, d, two \o three) = Reduced(2, Reduced(2, d, two), three)
        BY <3>2, TellMore
      <3>4. Known' = Resolve(h, Status)
        BY <1>11, <1>12, <1>15, <1>20, <2>1, <3>3, TellOne DEF h
      <3>5. /\ Known'.ok = h.ok /\ Known'.cache.items = h.cache.items
            /\ Known'.cache.subscription = h.cache.subscription
            /\ Known'.cache.status = timeInitiated'
        BY <1>6, <3>1, <3>4, TellStatus
      <3> QED
        BY <2>1, <3>1, <3>5
    <2>2. CASE ~gone
      BY <1>15, <1>20, <2>2, ReducedNone
    <2> QED
      BY <2>1, <2>2
  <1>23. Agrees(Known', items', timeInitiated', welcomed')
    <2>1. Agrees(Known, items, timeInitiated, welcomed)
      BY <1>1 DEF Told
    <2>2. CASE gone
      BY <1>3, <1>10, <1>21, <2>1, <2>2 DEF Agrees
    <2>3. CASE ~gone
      <3>1. timeInitiated' = timeInitiated
        BY <1>2, <1>3, <2>3
      <3> QED
        BY <1>3, <1>10, <1>21, <2>1, <2>3, <3>1 DEF Agrees
    <2> QED
      BY <2>2, <2>3
  <1>24. Told'
    BY <1>5, <1>23 DEF Told
  <1>25. TypeOK'
    <2>1. Typed'
      BY <1>1, <1>2, <1>3, <1>4, <1>6 DEF Typed, TypeOK, RemoveItem, Held, Ids
    <2> QED
      BY <1>1, <1>19, <2>1, TypedKeeps DEF TypeOK
  <1>26. Ordered'
    BY <1>1, RconOrdered DEF RemoveItem
  <1> QED
    BY <1>19, <1>24, <1>25, <1>26 DEF IInv

LEMMA RconKeeps == ASSUME IInv, RconCommand PROVE IInv'
  BY CreateKeeps, RemoveKeeps DEF RconCommand

-------------------------------------------------------------------------------
(* The game.                                                               *)

\* A message that the game posts.
LEMMA PostKeeps ==
    ASSUME IInv, NEW m \in Request, m.kind = "finalize" => m.id \in Ids /\ m.id = shop.id,
           m.kind = "finalize" => shop.phase \in {"authorized", "finalizing"},
           toGC' = Append(toGC, m),
           shop' \in [phase : {"idle", "ordering", "ordered", "authorized", "finalizing"}, id : Int \cup {none}],
           shop'.id \in {none, shop.id},
           shop'.phase \in {"ordered", "authorized", "finalizing"} => shop'.id # none,
           shop'.phase \in {"authorized", "finalizing"} =>
             shop.phase \in {"authorized", "finalizing"} /\ shop'.id = shop.id,
           UNCHANGED <<inventory, purchase, outbox, inbox, authorization, cache, orders, completed, made, welcomed>>
    PROVE  IInv'
  <1> USE DEF inventory, purchase
  <1>1. TypeOK /\ Purchases /\ Callback /\ Ordered /\ Told
    BY DEF IInv
  <1>2. /\ toGC' \in Seq(Request) /\ DOMAIN toGC' = DOMAIN toGC \cup {Len(toGC) + 1}
        /\ \A n \in DOMAIN toGC : toGC'[n] = toGC[n]
        /\ toGC'[Len(toGC) + 1] = m
    BY <1>1 DEF TypeOK
  <1>3. Ids' = Ids /\ Asked' = Asked /\ Waiting' = Waiting /\ Known' = Known
    BY <1>2 DEF Ids, Asked, Waiting, Known
  <1>4. TypeOK'
    BY <1>1, <1>2, <1>3 DEF TypeOK, Held
  <1>5. Purchases'
    <2>1. \A n \in DOMAIN toGC' : Requested(n)'
      BY <1>1, <1>2, <1>3 DEF Purchases, Requested
    <2>2. \A n \in DOMAIN outbox' : Answered(outbox[n])'
      BY <1>1, <1>3 DEF Purchases, Answered
    <2>3. \A n \in DOMAIN inbox' : Answered(inbox[n])'
      BY <1>1, <1>3 DEF Purchases, Answered
    <2> QED
      BY <1>1, <1>3, <2>1, <2>2, <2>3 DEF Purchases
  <1>6. Callback'
    BY <1>1, <1>2, <1>3 DEF Callback
  <1>7. Ordered'
    BY <1>1, RconOrdered
  <1>8. Told'
    BY <1>1, <1>3 DEF Told, HasItemDefinition, Held
  <1> QED
    BY <1>4, <1>5, <1>6, <1>7, <1>8 DEF IInv

LEMMA OrderKeeps == ASSUME IInv, NEW order \in Orders, Order(order) PROVE IInv'
  <1> DEFINE m == [kind |-> "init", order |-> order]
  <1>1. m \in Request /\ m.kind = "init" /\ toGC' = Append(toGC, m)
    BY DEF Order, Post, Request
  <1>2. shop' = [phase |-> "ordering", id |-> none]
    BY DEF Order
  <1> HIDE DEF m
  <1> QED
    BY <1>1, <1>2, PostKeeps DEF Order

LEMMA FinalizeKeeps == ASSUME IInv, Finalize PROVE IInv'
  <1> DEFINE m == [kind |-> "finalize", id |-> shop.id]
  <1>1. /\ shop \in [phase : {"idle", "ordering", "ordered", "authorized", "finalizing"}, id : Int \cup {none}]
        /\ shop.phase \in {"authorized", "finalizing"} /\ shop.id \in Ids
    BY DEF IInv, TypeOK, Purchases, Finalize
  <1>2. m \in Request /\ m.kind = "finalize" /\ m.id = shop.id /\ toGC' = Append(toGC, m)
    BY <1>1 DEF Finalize, Post, Request, Ids
  <1>3. shop' = [shop EXCEPT !.phase = "finalizing"] /\ none \notin Ids
    BY StoreAssumption DEF Finalize, Ids
  <1>4. /\ shop' \in [phase : {"idle", "ordering", "ordered", "authorized", "finalizing"}, id : Int \cup {none}]
        /\ shop'.id = shop.id /\ shop'.phase = "finalizing"
    BY <1>1, <1>3
  <1> HIDE DEF m
  <1> QED
    BY <1>1, <1>2, <1>3, <1>4, PostKeeps DEF Finalize

LEMMA AskKeeps == ASSUME IInv, AskStatus PROVE IInv'
  <1> DEFINE m == [kind |-> "ask_status"]
  <1>1. m \in Request /\ m.kind = "ask_status" /\ toGC' = Append(toGC, m)
    BY DEF AskStatus, Post, Request
  <1>2. shop' = shop /\ cache' = cache
    BY DEF AskStatus, game
  <1> HIDE DEF m
  <1> QED
    BY <1>1, <1>2, PostKeeps DEF AskStatus, IInv, TypeOK, Purchases

LEMMA GiveUpKeeps == ASSUME IInv, GiveUp PROVE IInv'
  <1> USE DEF inventory, purchase
  <1>1. TypeOK /\ Purchases /\ Callback /\ Ordered /\ Told
    BY DEF IInv
  <1>2. /\ shop' = [phase |-> "idle", id |-> none]
        /\ UNCHANGED <<inventory, purchase, toGC, outbox, inbox, authorization, cache, orders, completed, made, welcomed>>
    BY DEF GiveUp
  <1>3. Ids' = Ids /\ Asked' = Asked /\ Waiting' = Waiting /\ Known' = Known
    BY <1>2 DEF Ids, Asked, Waiting, Known
  <1>4. TypeOK'
    BY <1>1, <1>2, <1>3 DEF TypeOK, Held
  <1>5. Purchases'
    BY <1>1, <1>2, <1>3 DEF Purchases, Requested, Answered
  <1>6. Callback'
    BY <1>1, <1>2, <1>3 DEF Callback
  <1>7. Ordered'
    BY <1>1, <1>2, RconOrdered
  <1>8. Told'
    BY <1>1, <1>2, <1>3 DEF Told, HasItemDefinition, Held
  <1> QED
    BY <1>4, <1>5, <1>6, <1>7, <1>8 DEF IInv

\* The first message of the inbox was always going to be understood.
LEMMA RetrieveKeeps == ASSUME IInv, Retrieve PROVE IInv'
  <1> DEFINE e == Head(inbox)
             t == Tail(inbox)
             c == [cache |-> cache, ok |-> TRUE]
             d == Resolve(c, e)
  <1> USE DEF inventory, purchase
  <1>1. TypeOK /\ Purchases /\ Callback /\ Ordered /\ Told
    BY DEF IInv
  <1>2. /\ inbox # <<>> /\ inbox' = t /\ cache' = Apply(cache, e)
        /\ UNCHANGED <<inventory, purchase, toGC, outbox, authorization, orders, completed, made, welcomed>>
    BY DEF Retrieve
  <1>3. inbox \in Seq(Message) /\ outbox \in Seq(Reply) /\ cache \in Cache
    BY <1>1 DEF TypeOK
  <1>4. /\ e \in Message /\ e \in Reply /\ t \in Seq(Message) /\ 1 \in DOMAIN inbox /\ e = inbox[1]
        /\ \A n \in DOMAIN t : n + 1 \in DOMAIN inbox /\ t[n] = inbox[n + 1]
    BY <1>2, <1>3 DEF Reply
  <1>5. c \in Copies
    BY <1>3 DEF Copies
  <1>6. Known = Reduced(2, d, t \o outbox)
    <2>1. PICK one : one = <<e>>
      OBVIOUS
    <2>2. one \in Seq(Reply) /\ t \in Seq(Reply) /\ t \o outbox \in Seq(Reply) /\ inbox \o outbox \in Seq(Reply)
      <3>1. Message \subseteq Reply
        BY DEF Reply
      <3>2. t \in Seq(Reply) /\ inbox \in Seq(Reply)
        BY <1>3, <1>4, <3>1
      <3>3. one \in Seq(Reply)
        BY <1>4, <2>1
      <3> HIDE DEF t
      <3> QED
        BY <1>3, <3>2, <3>3
    <2>3. inbox \o outbox = one \o (t \o outbox)
      <3>1. inbox = one \o t
        BY <1>2, <1>3, <2>1
      <3> HIDE DEF t
      <3> QED
        BY <1>3, <2>2, <3>1
    <2>4. Known = Reduced(2, c, one \o (t \o outbox))
      BY <2>2, <2>3, ResolveFold DEF Known
    <2> HIDE DEF t, c
    <2>5. Known = Reduced(2, Reduced(2, c, one), t \o outbox)
      BY <2>2, <2>4, TellMore
    <2> QED
      BY <2>1, <2>5, TellOne
  <1>7. Known.ok
    BY <1>1 DEF Told, Agrees
  <1>8. d \in Copies /\ d.cache = Apply(cache, e) /\ d.ok
    <2>1. d \in Copies /\ d.cache = Apply(c.cache, e)
      BY <1>4, <1>5, ResolveType
    <2>2. t \o outbox \in Seq(Reply)
      <3>1. t \in Seq(Reply)
        <4>1. Message \subseteq Reply
          BY DEF Reply
        <4> QED
          BY <1>4, <4>1
      <3> HIDE DEF t
      <3> QED
        BY <1>3, <3>1
    <2> HIDE DEF d, t
    <2>3. d.ok
      BY <1>6, <1>7, <2>1, <2>2, FollowingType
    <2> QED
      BY <2>1, <2>3
  <1>9. d = [cache |-> cache', ok |-> TRUE] /\ cache' \in Cache
    BY <1>2, <1>8 DEF Copies
  <1>10. Known' = Known
    <2>1. t \o outbox \in Seq(Reply)
      <3>1. t \in Seq(Reply)
        <4>1. Message \subseteq Reply
          BY DEF Reply
        <4> QED
          BY <1>4, <4>1
      <3> HIDE DEF t
      <3> QED
        BY <1>3, <3>1
    <2>2. Known' = Following([cache |-> cache', ok |-> TRUE], t \o outbox)
      BY <1>2 DEF Known
    <2> HIDE DEF t, d
    <2>3. Known' = Reduced(2, [cache |-> cache', ok |-> TRUE], t \o outbox)
      BY <2>1, <2>2, ResolveFold
    <2> QED
      BY <1>6, <1>9, <2>3
  <1>11. Ids' = Ids /\ Asked' = Asked /\ Waiting' = Waiting
    BY <1>2 DEF Ids, Asked, Waiting
  <1>12. /\ shop' \in [phase : {"idle", "ordering", "ordered", "authorized", "finalizing"}, id : Int \cup {none}]
         /\ shop'.id \in Ids \cup {none}
         /\ shop'.phase \in {"ordered", "authorized", "finalizing"} => shop'.id # none
         /\ shop'.phase \in {"authorized", "finalizing"} => shop' = shop
    <2>1. CASE shop.phase = "ordering" /\ e.kind = "init_response"
      <3>1. shop' = IF e.id = none THEN [phase |-> "idle", id |-> none] ELSE [phase |-> "ordered", id |-> e.id]
        BY <2>1 DEF Retrieve
      <3>2. e.id \in Ids \cup {none} /\ Ids \subseteq Int
        BY <1>1, <1>4, <2>1 DEF Purchases, Answered, Ids
      <3> HIDE DEF e
      <3> QED
        BY <3>1, <3>2
    <2>2. CASE shop.phase = "finalizing" /\ e.kind = "finalize_response"
      <3>1. shop' = [phase |-> "idle", id |-> none]
        BY <2>2 DEF Retrieve
      <3> QED
        BY <3>1
    <2>3. CASE /\ ~(shop.phase = "ordering" /\ e.kind = "init_response")
               /\ ~(shop.phase = "finalizing" /\ e.kind = "finalize_response")
      <3>1. shop' = shop
        BY <2>3 DEF Retrieve
      <3> QED
        BY <1>1, <3>1 DEF TypeOK, Purchases
    <2> QED
      BY <2>1, <2>2, <2>3
  <1> HIDE DEF e, t, c, d
  <1>13. TypeOK'
    BY <1>1, <1>2, <1>4, <1>9, <1>11, <1>12 DEF TypeOK, Held
  <1>14. Purchases'
    <2>1. \A n \in DOMAIN toGC' : Requested(n)'
      BY <1>1, <1>2, <1>11 DEF Purchases, Requested
    <2>2. \A n \in DOMAIN outbox' : Answered(outbox[n])'
      BY <1>1, <1>2, <1>11 DEF Purchases, Answered
    <2>3. \A n \in DOMAIN inbox' : Answered(inbox[n])'
      BY <1>1, <1>2, <1>4, <1>11 DEF Purchases, Answered
    <2> QED
      BY <1>11, <1>12, <2>1, <2>2, <2>3 DEF Purchases
  <1>15. Callback'
    BY <1>1, <1>2, <1>11, <1>12 DEF Callback
  <1>16. Ordered'
    BY <1>1, <1>2, RconOrdered
  <1>17. Told'
    BY <1>1, <1>2, <1>10, <1>11 DEF Told, HasItemDefinition, Held
  <1> QED
    BY <1>13, <1>14, <1>15, <1>16, <1>17 DEF IInv

-------------------------------------------------------------------------------
(* The main thread.                                                        *)

\* The host events, one by one: the messages go to the game, the last event that asks for
\* the callback leaves its authorization.
Collected(c, d, s, n, a) ==
    /\ d.inbox \in Seq(Message)
    /\ Reduced(2, c, d.inbox) = Reduced(2, Reduced(2, c, a.inbox), Prefix(s, n))
    /\ d = [inbox |-> d.inbox, authorization |-> d.authorization]
    /\ \A k \in DOMAIN d.inbox : \/ k \in DOMAIN a.inbox /\ d.inbox[k] = a.inbox[k]
                                 \/ \E m \in 1..n : d.inbox[k] = s[m]
    /\ \/ d.authorization = a.authorization /\ \A m \in 1..n : IsMessage(s[m])
       \/ \E m \in 1..n : ~IsMessage(s[m]) /\ d.authorization = [id |-> s[m].id, wait |-> 1]

LEMMA CollectOne ==
    ASSUME NEW c \in Copies, NEW s \in Seq(Reply), NEW n \in Nat, n + 1 <= Len(s), NEW a,
           a.inbox \in Seq(Message), NEW d, Collected(c, d, s, n, a)
    PROVE  Collected(c, Collect(d, s[n + 1]), s, n + 1, a)
  <1> DEFINE e == s[n + 1]
             p == Prefix(s, n)
             i == d.inbox
             h == Reduced(2, c, a.inbox)
             new == Collect(d, e)
  <1>1. e \in Reply /\ n + 1 \in 1..(n + 1) /\ \A m \in 1..n : m \in 1..(n + 1)
    OBVIOUS
  <1>2. p \in Seq(Reply) /\ Prefix(s, n + 1) = Append(p, e)
    BY PrefixIs
  <1>3. i \in Seq(Message) /\ Reduced(2, c, i) = Reduced(2, h, p) /\ d = [inbox |-> i, authorization |-> d.authorization]
    BY DEF Collected
  <1> HIDE DEF p, h, i
  <1>4. Reduced(2, h, Append(p, e)) = Resolve(Reduced(2, h, p), e)
    <2> HIDE DEF e
    <2>1. Reduced(2, h, Append(p, e)) = Step(2, Reduced(2, h, p), e)
      BY <1>1, <1>2, ReducedMore
    <2> QED
      BY <2>1 DEF Step
  <1>5. CASE IsMessage(e)
    <2> HIDE DEF e
    <2>1. new = [inbox |-> Append(i, e), authorization |-> d.authorization]
      BY <1>3, <1>5 DEF Collect, i
    <2>2. e \in Message
      BY <1>1, <1>5, ReplyKinds
    <2>3. Reduced(2, c, Append(i, e)) = Step(2, Reduced(2, c, i), e)
      BY <1>3, <2>2, ReducedMore
    <2>4. Reduced(2, c, Append(i, e)) = Reduced(2, h, Append(p, e))
      BY <1>3, <1>4, <2>3 DEF Step
    <2>5. /\ Append(i, e) \in Seq(Message) /\ DOMAIN Append(i, e) = DOMAIN i \cup {Len(i) + 1}
          /\ Append(i, e)[Len(i) + 1] = e /\ \A k \in DOMAIN i : Append(i, e)[k] = i[k]
      BY <1>3, <2>2
    <2>6. \A k \in DOMAIN i : \/ k \in DOMAIN a.inbox /\ i[k] = a.inbox[k]
                              \/ \E m \in 1..n : i[k] = s[m]
      BY DEF Collected, i
    <2>7. \A k \in DOMAIN Append(i, e) : \/ k \in DOMAIN a.inbox /\ Append(i, e)[k] = a.inbox[k]
                                         \/ \E m \in 1..(n + 1) : Append(i, e)[k] = s[m]
      BY <1>1, <2>5, <2>6 DEF e
    <2>8. \/ d.authorization = a.authorization /\ \A m \in 1..(n + 1) : IsMessage(s[m])
          \/ \E m \in 1..(n + 1) : ~IsMessage(s[m]) /\ d.authorization = [id |-> s[m].id, wait |-> 1]
      <3>1. CASE d.authorization = a.authorization /\ \A m \in 1..n : IsMessage(s[m])
        <4>1. \A m \in 1..(n + 1) : m \in 1..n \/ m = n + 1
          OBVIOUS
        <4> QED
          BY <1>5, <3>1, <4>1 DEF e
      <3>2. CASE \E m \in 1..n : ~IsMessage(s[m]) /\ d.authorization = [id |-> s[m].id, wait |-> 1]
        BY <1>1, <3>2
      <3> QED
        BY <3>1, <3>2 DEF Collected
    <2>9. new.inbox = Append(i, e) /\ new.authorization = d.authorization
      BY <2>1
    <2> HIDE DEF new
    <2>10. Collected(c, new, s, n + 1, a)
      BY <1>2, <2>1, <2>4, <2>5, <2>7, <2>8, <2>9 DEF Collected, h
    <2> QED
      BY <2>10 DEF new, e
  <1>6. CASE ~IsMessage(e)
    <2>1. Reduced(2, h, Append(p, e)) = Reduced(2, h, p)
      BY <1>4, <1>6 DEF Resolve
    <2> HIDE DEF e
    <2>2. new = [inbox |-> i, authorization |-> [id |-> e.id, wait |-> 1]]
      BY <1>3, <1>6 DEF Collect, i
    <2>3. \A k \in DOMAIN i : \/ k \in DOMAIN a.inbox /\ i[k] = a.inbox[k]
                              \/ \E m \in 1..(n + 1) : i[k] = s[m]
      BY <1>1 DEF Collected, i
    <2>4. new.inbox = i /\ new.authorization = [id |-> s[n + 1].id, wait |-> 1] /\ ~IsMessage(s[n + 1])
      BY <1>6, <2>2 DEF e
    <2> HIDE DEF new
    <2>5. Collected(c, new, s, n + 1, a)
      BY <1>1, <1>2, <1>3, <2>1, <2>2, <2>3, <2>4 DEF Collected, h
    <2> QED
      BY <2>5 DEF new, e
  <1> QED
    BY <1>5, <1>6

LEMMA CollectAll ==
    ASSUME NEW c \in Copies, NEW s \in Seq(Reply), NEW i \in Seq(Message), NEW w
    PROVE  LET a == [inbox |-> i, authorization |-> w] IN Collected(c, FoldLeft(Collect, a, s), s, Len(s), a)
  <1> DEFINE a == [inbox |-> i, authorization |-> w]
             R(n) == Reduced(3, a, Prefix(s, n))
             T == {n \in Nat : n <= Len(s) => Collected(c, R(n), s, n, a)}
  <1>1. 0 \in T
    <2>1. R(0) = a /\ Prefix(s, 0) = <<>>
      BY PrefixIs, ReducedNone
    <2>2. Collected(c, a, s, 0, a)
      BY <2>1, ReducedNone DEF Collected
    <2> HIDE DEF R
    <2> QED
      BY <2>1, <2>2
  <1>2. ASSUME NEW n \in Nat, n \in T, n + 1 <= Len(s) PROVE n + 1 \in T
    <2>1. Collected(c, R(n), s, n, a)
      BY <1>2
    <2>2. R(n + 1) = Step(3, R(n), s[n + 1])
      BY <1>2, ReducedPrefix
    <2>3. a.inbox \in Seq(Message)
      OBVIOUS
    <2> HIDE DEF R, a
    <2>4. Step(3, R(n), s[n + 1]) = Collect(R(n), s[n + 1])
      BY DEF Step
    <2>5. Collected(c, Collect(R(n), s[n + 1]), s, n + 1, a)
      BY <1>2, <2>1, <2>3, CollectOne
    <2>6. Collected(c, R(n + 1), s, n + 1, a)
      BY <2>2, <2>4, <2>5
    <2> QED
      BY <2>6
  <1>3. Nat \subseteq T
    <2>1. \A n \in Nat : n \in T => n + 1 \in T
      BY <1>2
    <2> HIDE DEF T
    <2> QED
      BY <1>1, <2>1, Induction
  <1>4. Len(s) \in T
    BY <1>3
  <1>5. R(Len(s)) = FoldLeft(Collect, a, s)
    BY PrefixIs, CollectFold
  <1> HIDE DEF R, a
  <1>6. Collected(c, FoldLeft(Collect, a, s), s, Len(s), a)
    BY <1>4, <1>5
  <1> QED
    BY <1>6 DEF a

LEMMA FrameKeeps == ASSUME IInv, Frame PROVE IInv'
  <1> DEFINE due == authorization # none /\ authorization.wait = 0
             a == [inbox |-> inbox, authorization |-> IF due THEN none ELSE authorization]
             d == FoldLeft(Collect, a, outbox)
             c == [cache |-> cache, ok |-> TRUE]
  <1> USE DEF inventory, purchase
  <1>1. TypeOK /\ Purchases /\ Callback /\ Ordered /\ Told
    BY DEF IInv
  <1>2. /\ inbox' = d.inbox /\ authorization' = d.authorization /\ outbox' = <<>>
        /\ shop' = IF due /\ shop.phase = "ordered" /\ shop.id = authorization.id
                   THEN [shop EXCEPT !.phase = "authorized"] ELSE shop
        /\ UNCHANGED <<inventory, purchase, toGC, cache, orders, completed, made, welcomed>>
    BY DEF Frame
  <1>3. inbox \in Seq(Message) /\ outbox \in Seq(Reply) /\ cache \in Cache
    BY <1>1 DEF TypeOK
  <1>4. c \in Copies
    BY <1>3 DEF Copies
  <1>5. Collected(c, d, outbox, Len(outbox), a)
    BY <1>3, <1>4, CollectAll
  <1>6. a.inbox = inbox /\ a.authorization = IF due THEN none ELSE authorization
    OBVIOUS
  <1> HIDE DEF a, c, d
  <1>7. inbox' \in Seq(Message) /\ Reduced(2, c, inbox') = Reduced(2, Reduced(2, c, inbox), outbox)
    BY <1>2, <1>3, <1>5, <1>6, PrefixIs DEF Collected
  <1>8. \A k \in DOMAIN inbox' : \/ k \in DOMAIN inbox /\ inbox'[k] = inbox[k]
                                 \/ \E m \in DOMAIN outbox : inbox'[k] = outbox[m]
    BY <1>2, <1>3, <1>5, <1>6 DEF Collected
  <1>9. \/ authorization' = (IF due THEN none ELSE authorization) /\ Asked = {}
        \/ \E m \in Asked : authorization' = [id |-> outbox[m].id, wait |-> 1]
    <2>1. DOMAIN outbox = 1..Len(outbox)
      BY <1>3
    <2>2. \/ d.authorization = a.authorization /\ \A m \in 1..Len(outbox) : IsMessage(outbox[m])
          \/ \E m \in 1..Len(outbox) : ~IsMessage(outbox[m]) /\ d.authorization = [id |-> outbox[m].id, wait |-> 1]
      BY <1>5 DEF Collected
    <2>3. Asked = {m \in 1..Len(outbox) : ~IsMessage(outbox[m])}
      BY <2>1 DEF Asked
    <2>4. CASE d.authorization = a.authorization /\ \A m \in 1..Len(outbox) : IsMessage(outbox[m])
      BY <1>2, <1>6, <2>3, <2>4
    <2>5. CASE \E m \in 1..Len(outbox) : ~IsMessage(outbox[m]) /\ d.authorization = [id |-> outbox[m].id, wait |-> 1]
      BY <1>2, <2>3, <2>5
    <2> QED
      BY <2>2, <2>4, <2>5
  <1>10. Known' = Known
    <2>1. Known = Reduced(2, Reduced(2, c, inbox), outbox)
      BY <1>3, KnownType DEF Known, c
    <2>2. inbox' \o outbox' = inbox'
      BY <1>2, <1>7
    <2>3. Known' = Following(c, inbox')
      BY <1>2, <2>2 DEF Known, c
    <2>4. Following(c, inbox') = Reduced(2, c, inbox')
      BY <1>7, ResolveFold
    <2> QED
      BY <1>7, <2>1, <2>3, <2>4
  <1>11. Ids' = Ids /\ Asked' = {}
    BY <1>2 DEF Ids, Asked
  <1>12. /\ shop' \in [phase : {"idle", "ordering", "ordered", "authorized", "finalizing"}, id : Int \cup {none}]
         /\ shop'.id = shop.id
         /\ shop'.phase \in {"ordered", "authorized", "finalizing"} => shop.phase \in {"ordered", "authorized", "finalizing"}
         /\ shop' # shop => due
    BY <1>1, <1>2 DEF TypeOK
  <1>13. authorization' \in [id : Nat, wait : {0, 1}] \cup {none}
    <2>1. authorization \in [id : Nat, wait : {0, 1}] \cup {none}
      BY <1>1 DEF TypeOK
    <2>2. \A m \in Asked : outbox[m].id \in Nat
      BY <1>3, ReplyKinds DEF Asked, IsMessage
    <2> QED
      BY <1>9, <2>1, <2>2
  <1>14. TypeOK'
    <2>1. outbox' \in Seq(Reply)
      BY <1>2
    <2> QED
      BY <1>1, <1>2, <1>7, <1>11, <1>12, <1>13, <2>1 DEF TypeOK, Held
  <1>15. Purchases'
    <2>1. \A n \in DOMAIN toGC' : Requested(n)'
      BY <1>1, <1>2, <1>11 DEF Purchases, Requested
    <2>2. \A n \in DOMAIN outbox' : Answered(outbox[n])'
      BY <1>2
    <2>3. \A n \in DOMAIN inbox' : Answered(inbox[n])'
      BY <1>1, <1>8, <1>11 DEF Purchases, Answered
    <2> QED
      BY <1>1, <1>11, <1>12, <2>1, <2>2, <2>3 DEF Purchases
  <1>16. Callback'
    <2>1. CASE authorization' = (IF due THEN none ELSE authorization) /\ Asked = {}
      <3>1. CASE due
        BY <1>2, <1>11, <2>1, <3>1 DEF Callback, Waiting
      <3>2. CASE ~due
        BY <1>1, <1>2, <1>11, <2>1, <3>2 DEF Callback, Waiting
      <3> QED
        BY <3>1, <3>2
    <2>2. CASE \E m \in Asked : authorization' = [id |-> outbox[m].id, wait |-> 1]
      <3>1. Asked # {} /\ authorization = none /\ authorization'.id = transactionId /\ transactionId # none
        BY <1>1, <2>2 DEF Callback
      <3>2. shop' = shop
        BY <1>12, <3>1
      <3> QED
        BY <1>1, <1>2, <1>11, <3>1, <3>2 DEF Callback, Waiting
    <2> QED
      BY <1>9, <2>1, <2>2
  <1>17. Ordered'
    BY <1>1, <1>2, RconOrdered
  <1>18. Told'
    BY <1>1, <1>2, <1>10, <1>11 DEF Told, HasItemDefinition, Held
  <1> QED
    BY <1>14, <1>15, <1>16, <1>17, <1>18 DEF IInv

LEMMA DelayKeeps == ASSUME IInv, DelayPasses PROVE IInv'
  <1> USE DEF inventory, purchase, game
  <1>1. TypeOK /\ Purchases /\ Callback /\ Ordered /\ Told
    BY DEF IInv
  <1>2. /\ authorization # none /\ authorization' = [authorization EXCEPT !.wait = 0]
        /\ UNCHANGED <<inventory, purchase, toGC, outbox, inbox, game, orders, completed, made, welcomed>>
    BY DEF DelayPasses
  <1>3. authorization' \in [id : Nat, wait : {0, 1}] /\ authorization'.id = authorization.id
    BY <1>1, <1>2 DEF TypeOK
  <1>4. Ids' = Ids /\ Asked' = Asked /\ Known' = Known
    BY <1>2 DEF Ids, Asked, Known
  <1>5. TypeOK'
    BY <1>1, <1>2, <1>3, <1>4 DEF TypeOK, Held
  <1>6. Purchases'
    BY <1>1, <1>2, <1>4 DEF Purchases, Requested, Answered
  <1>7. Callback'
    BY <1>1, <1>2, <1>3, <1>4 DEF Callback, Waiting
  <1>8. Ordered'
    BY <1>1, <1>2, RconOrdered
  <1>9. Told'
    BY <1>1, <1>2, <1>4 DEF Told, HasItemDefinition, Held
  <1> QED
    BY <1>5, <1>6, <1>7, <1>8, <1>9 DEF IInv

\* A new coordinator: nothing is pending, nothing is under way, and the game knows nothing.
LEMMA RecreateKeeps == ASSUME IInv, Recreate PROVE IInv'
  <1> DEFINE subs == {i \in Held : items[i].def = Subscription}
             last == Max(subs \cup {0})
  <1>1. TypeOK /\ Purchases /\ Ordered /\ Told
    BY DEF IInv
  <1>2. /\ items' = Without(items, subs \ {last}) /\ timeInitiated' = (subs # {})
        /\ lastId' = IF Held = {} THEN 0 ELSE Max(DOMAIN items')
        /\ transactionId' = none /\ outbox' = <<>> /\ inbox' = <<>> /\ authorization' = none
        /\ toGC' = <<[kind |-> "hello"]>> /\ shop' = [phase |-> "idle", id |-> none]
        /\ cache' = [cache EXCEPT !.status = none] /\ orders' = orders /\ completed' = completed /\ made' = made /\ welcomed' = FALSE
    BY DEF Recreate
  <1>3. /\ items \in Items /\ lastId \in Nat /\ Held \subseteq 1..lastId /\ cache \in Cache
        /\ orders \in Seq(Accepted)
    BY <1>1 DEF TypeOK
  <1>4. last \in subs \cup {0} /\ \A i \in subs : last >= i
    <2>1. subs \cup {0} \in SUBSET Nat /\ subs \cup {0} \subseteq 0..lastId /\ subs \cup {0} # {}
      <3>1. subs \subseteq Held
        OBVIOUS
      <3> HIDE DEF subs
      <3>2. \A i \in 1..lastId : i \in Nat /\ i \in 0..lastId
        BY <1>3
      <3>3. 0 \in Nat /\ 0 \in 0..lastId
        BY <1>3
      <3> QED
        BY <1>3, <3>1, <3>2, <3>3
    <2> HIDE DEF subs
    <2> QED
      BY <1>3, <2>1, MaxOf
  <1>5. subs # {} => last \in subs
    <2>1. ASSUME NEW i \in subs PROVE last # 0
      <3>1. i \in 1..lastId
        BY <1>3
      <3> QED
        BY <1>3, <1>4, <3>1
    <2> QED
      BY <1>4, <2>1
  <1> HIDE DEF last
  <1>6. /\ items' \in Items /\ DOMAIN items' = Held \ (subs \ {last})
        /\ \A i \in DOMAIN items' : items'[i] = items[i]
    <2> HIDE DEF subs
    <2> DEFINE gone == subs \ {last}
    <2>1. items' = Without(items, gone)
      BY <1>2
    <2> HIDE DEF gone
    <2>2. /\ items' \in Items /\ DOMAIN items' = DOMAIN items \ gone
          /\ \A i \in DOMAIN items \ gone : items'[i] = items[i]
      BY <1>3, <2>1, WithoutItems
    <2> QED
      BY <2>2 DEF Held, gone
  <1>7. timeInitiated' => HasItemDefinition(Subscription)'
    BY <1>2, <1>5, <1>6 DEF HasItemDefinition, Held
  <1>8. lastId' \in Nat /\ DOMAIN items' \subseteq 1..lastId'
    <2>1. CASE Held = {}
      BY <1>2, <1>6, <2>1
    <2>2. CASE Held # {}
      <3>1. DOMAIN items' # {}
        <4>1. PICK i \in Held : TRUE
          BY <2>2
        <4>2. CASE i \in subs
          BY <1>5, <1>6, <4>2
        <4>3. CASE i \notin subs
          BY <1>6, <4>3
        <4> QED
          BY <4>2, <4>3
      <3>2. DOMAIN items' \subseteq 1..lastId /\ DOMAIN items' \in SUBSET Nat /\ DOMAIN items' \subseteq 0..lastId
        <4>1. DOMAIN items' \subseteq 1..lastId
          <5> HIDE DEF subs
          <5> QED
            BY <1>3, <1>6
        <4>2. \A i \in 1..lastId : i \in Nat /\ i \in 0..lastId
          BY <1>3
        <4> QED
          BY <4>1, <4>2
      <3>3. Max(DOMAIN items') \in DOMAIN items' /\ \A i \in DOMAIN items' : Max(DOMAIN items') >= i
        BY <1>3, <3>1, <3>2, MaxOf
      <3>4. lastId' = Max(DOMAIN items')
        BY <1>2, <2>2
      <3> QED
        BY <1>3, <3>2, <3>3, <3>4
    <2> QED
      BY <2>1, <2>2
  <1>9. cache' \in Cache /\ cache'.status = none
    BY <1>2, <1>3 DEF Cache
  <1> HIDE DEF subs
  <1>10. toGC' \in Seq(Request) /\ DOMAIN toGC' = {1} /\ toGC'[1].kind = "hello"
    <2>1. [kind |-> "hello"] \in Request
      BY DEF Request
    <2> QED
      BY <1>2, <2>1
  <1>11. Ids' = Ids /\ Asked' = {}
    BY <1>2 DEF Ids, Asked
  <1>12. TypeOK'
    <2>1. Held' \subseteq 1..lastId' /\ timeInitiated' \in BOOLEAN /\ transactionId' \in Ids' \cup {none}
      BY <1>2, <1>8 DEF Held
    <2>2. orders' \in Seq(Accepted) /\ outbox' \in Seq(Reply) /\ inbox' \in Seq(Message)
      BY <1>2, <1>3
    <2>3. /\ authorization' \in [id : Nat, wait : {0, 1}] \cup {none}
          /\ shop' \in [phase : {"idle", "ordering", "ordered", "authorized", "finalizing"}, id : Int \cup {none}]
      BY <1>2
    <2> QED
      BY <1>2, <1>6, <1>8, <1>9, <1>10, <2>1, <2>2, <2>3, Zenon DEF TypeOK
  <1>13. Purchases'
    BY <1>2, <1>10 DEF Purchases, Requested
  <1>14. Callback'
    BY <1>2, <1>11 DEF Callback, Waiting
  <1>15. Ordered'
    BY <1>1, <1>2, <1>11 DEF Ordered, WhatWasOrdered
  <1>16. Told'
    <2>1. inbox' \o outbox' = <<>>
      BY <1>2
    <2>2. <<>> \in Seq(Reply)
      OBVIOUS
    <2>3. Known' = Following([cache |-> cache', ok |-> TRUE], <<>>)
      BY <2>1 DEF Known
    <2>4. Known' = [cache |-> cache', ok |-> TRUE]
      BY <2>2, <2>3, ResolveFold, ReducedNone
    <2> QED
      BY <1>2, <1>7, <1>9, <2>4 DEF Told, Agrees
  <1> QED
    BY <1>12, <1>13, <1>14, <1>15, <1>16 DEF IInv

LEMMA NextIInv == IInv /\ [Next]_vars => IInv'
  <1> SUFFICES ASSUME IInv, [Next]_vars PROVE IInv'
    OBVIOUS
  <1>1. CASE UNCHANGED vars
    <2>1. UNCHANGED <<inventory, purchase, toGC, outbox, inbox, authorization, game, orders, completed, made, welcomed>>
      BY <1>1 DEF vars
    <2> QED
      BY <2>1 DEF inventory, purchase, game, IInv, TypeOK, Purchases, Callback, Ordered, Told,
                  Held, Ids, Requested, Answered, Asked, Waiting, WhatWasOrdered, Known,
                  HasItemDefinition
  <1>2. CASE Next
    BY <1>2, OrderKeeps, FinalizeKeeps, AskKeeps, GiveUpKeeps, RetrieveKeeps, WorkerKeeps, RconKeeps,
       FrameKeeps, DelayKeeps, RecreateKeeps DEF Next
  <1> QED
    BY <1>1, <1>2

LEMMA Invariance == Spec => []IInv
  BY InitIInv, NextIInv, PTL DEF Spec

\* One authorization waits at a time, and it is the pending purchase's: the slot of the
\* hooks never has to hold two (steam_hook.cpp:190, 1991).
THEOREM OneSlotSuffices == Spec => []OneAuthorization
  <1>1. IInv => OneAuthorization
    BY DEF IInv, TypeOK, Callback, OneAuthorization, Ids
  <1> QED
    BY <1>1, Invariance, PTL

\* Exactly what was ordered is made, and nothing for a purchase that was not completed,
\* whatever is given and removed meanwhile (gc_client.cpp:2554-2572).
THEOREM OrdersAreFilled == Spec => []WhatWasOrdered
  <1>1. IInv => WhatWasOrdered
    BY DEF IInv, Ordered
  <1> QED
    BY <1>1, Invariance, PTL

\* A game that was sent a snapshot by this coordinator learns its items and its
\* subscription; every game learns the status, and knows the items of a purchase before it
\* hears that it is completed (gc_client.cpp:985-1012, 2573-2574).
THEOREM GameLearnsAll == Spec => []SubscriptionKnown
  <1>1. IInv => SubscriptionKnown
    <2> SUFFICES ASSUME IInv PROVE SubscriptionKnown
      OBVIOUS
    <2>1. TypeOK /\ Told
      BY DEF IInv
    <2>2. /\ Known \in Copies /\ Known.cache = Fetched /\ Active(items, timeInitiated) = timeInitiated
      BY <2>1, KnownIs, ActiveIs DEF TypeOK
    <2>3. ASSUME inbox # <<>>, Head(inbox).kind = "finalize_response"
          PROVE  Head(inbox).ids \subseteq DOMAIN cache.items
      <3> DEFINE e == Head(inbox)
                 t == Tail(inbox)
                 c == [cache |-> cache, ok |-> TRUE]
      <3>1. inbox \in Seq(Message) /\ outbox \in Seq(Reply) /\ cache \in Cache
        BY <2>1 DEF TypeOK
      <3>2. c \in Copies
        BY <3>1 DEF Copies
      <3>3. Message \subseteq Reply
        BY DEF Reply
      <3>4. e \in Reply /\ IsMessage(e)
        BY <2>3, <3>1, <3>3 DEF IsMessage
      <3>5. t \in Seq(Reply) /\ inbox \in Seq(Reply) /\ t \o outbox \in Seq(Reply)
        <4>1. t \in Seq(Reply) /\ inbox \in Seq(Reply)
          BY <2>3, <3>1, <3>3
        <4> HIDE DEF t
        <4> QED
          BY <3>1, <4>1
      <3>6. PICK one : one = <<e>>
        OBVIOUS
      <3>7. one \in Seq(Reply) /\ inbox \o outbox = one \o (t \o outbox) /\ inbox \o outbox \in Seq(Reply)
        <4>1. one \in Seq(Reply) /\ inbox = one \o t
          BY <2>3, <3>1, <3>4, <3>6
        <4> HIDE DEF t
        <4> QED
          BY <3>1, <3>5, <4>1
      <3>8. Known = Reduced(2, c, inbox \o outbox)
        BY <3>7, ResolveFold DEF Known
      <3> HIDE DEF t, c, e
      <3>9. Known = Reduced(2, Resolve(c, e), t \o outbox)
        <4>1. Reduced(2, c, one \o (t \o outbox)) = Reduced(2, Reduced(2, c, one), t \o outbox)
          BY <3>5, <3>7, TellMore
        <4> QED
          BY <3>6, <3>7, <3>8, <4>1, TellOne
      <3>10. Known.ok
        BY <2>1 DEF Told, Agrees
      <3>11. Resolve(c, e).ok
        BY <3>2, <3>4, <3>5, <3>9, <3>10, ResolveType, FollowingType
      <3>12. Resolve(c, e).ok = (c.ok /\ (e.kind = "finalize_response" => e.ids \subseteq DOMAIN c.cache.items))
        BY <3>4 DEF Resolve
      <3> QED
        BY <2>3, <3>11, <3>12 DEF c, e
    <2> QED
      BY <2>1, <2>2, <2>3 DEF SubscriptionKnown, ResponseResolves, Told, Agrees
  <1> QED
    BY <1>1, Invariance, PTL

===============================================================================

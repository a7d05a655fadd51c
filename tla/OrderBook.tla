----------------------------- MODULE OrderBook -----------------------------
(***************************************************************************)
(* gma::OrderBook (src/connectors/market/src/book/OrderBook.cpp): the      *)
(* per-order book of one symbol.  Every public member runs under m_, so    *)
(* each is a function from a book to a book:                               *)
(*   lad    bids_ / asks_: side -> price -> [orders (FIFO list), total]    *)
(*   byId   the locator index: key -> [side, price]; the list iterator a   *)
(*          Locator also holds is the entry of that list with that key     *)
(*   agg    bidsAgg_ / asksAgg_: the level-only ladders                    *)
(*   synth  synthCounters_: next synthetic id of a feed scope              *)
(* Ladders and index are partial functions, as the maps are.               *)
(***************************************************************************)
EXTENDS Integers, Sequences, FiniteSets, TLC, SequencesExt

CONSTANTS Ids,       \* venue order ids; 0 stands for "missing"
          Scopes,    \* FeedScope: (feedId, epoch)
          Prices,    \* in ticks
          Sizes,     \* order sizes
          Quantities,\* trade sizes
          Priorities,\* priority stamps
          None       \* an absent optional

ASSUME BookAssumption ==
    Ids \subseteq Nat /\ Sizes \subseteq Nat \ {0} /\ Quantities \subseteq Nat

Sides == {"bid", "ask"}

Keys == [id : Nat, scope : Scopes, syn : BOOLEAN]
Key(id, scope, syn) == [id |-> id, scope |-> scope, syn |-> syn]

Order(key, side, price, size, prio) ==
    [key |-> key, side |-> side, price |-> price, size |-> size, prio |-> prio]

Orders == [key : Keys, side : Sides, price : Prices, size : Nat, prio : Priorities \cup {0}]

EmptyBook == [lad   |-> [s \in Sides |-> <<>>],
              byId  |-> <<>>,
              agg   |-> [s \in Sides |-> <<>>],
              synth |-> [sc \in Scopes |-> 1]]

-----------------------------------------------------------------------------
(* Levels                                                                  *)

NewLevel == [orders |-> <<>>, total |-> 0]

Without(f, k) == Restrict(f, DOMAIN f \ {k})

With(f, k, x) == [y \in DOMAIN f \cup {k} |-> IF y = k THEN x ELSE f[y]]

\* getOrCreateLevel()
LevelAt(b, s, p) == IF p \in DOMAIN b.lad[s] THEN b.lad[s][p] ELSE NewLevel

\* Store a changed level; eraseLevelIfEmpty() removes it with its last order.
PutLevel(b, s, p, lvl) ==
    [b EXCEPT !.lad[s] = IF lvl.orders = <<>> THEN Without(@, p) ELSE With(@, p, lvl)]

Pos(orders, k) == CHOOSE i \in DOMAIN orders : orders[i].key = k

\* list::erase at the locator's iterator
Drop(orders, k) == RemoveAt(orders, Pos(orders, k))

\* The order a locator leads to.
Resting(b, k) ==
    LET os == b.lad[b.byId[k].side][b.byId[k].price].orders IN os[Pos(os, k)]

\* The guarded subtraction of deleteImpl and updateImpl.
Minus(total, size) == IF total >= size THEN total - size ELSE 0

Unlist(lvl, o) == [orders |-> Drop(lvl.orders, o.key), total |-> Minus(lvl.total, o.size)]

PushBack(lvl, o) == [orders |-> Append(lvl.orders, o), total |-> lvl.total + o.size]

-----------------------------------------------------------------------------
(* Core operations: deleteImpl, addImpl, updateImpl, priorityImpl,         *)
(* consumeAtLevel.  `Changes' operators are the Boolean they return.       *)

\* The locator must lead to a level; the code erases one that does not.
Located(b, k) == k \in DOMAIN b.byId
Dangling(b, k) == b.byId[k].price \notin DOMAIN b.lad[b.byId[k].side]

\* Defect: the locator of a deleted order is kept.
DeleteKeepsLocator(b, k) ==
    IF ~Located(b, k) THEN b
    ELSE LET loc == b.byId[k]
         IN  PutLevel(b, loc.side, loc.price,
                      Unlist(b.lad[loc.side][loc.price], Resting(b, k)))

Delete(b, k) ==
    IF ~Located(b, k) THEN b
    ELSE LET loc == b.byId[k]
             rest == IF Dangling(b, k) THEN b
                     ELSE PutLevel(b, loc.side, loc.price,
                                   Unlist(b.lad[loc.side][loc.price], Resting(b, k)))
         IN  [rest EXCEPT !.byId = Without(@, k)]

\* Cancel + add when the key already rests; otherwise to the back of its level.
Add(b, o) ==
    LET c == Delete(b, o.key)
        put == PutLevel(c, o.side, o.price, PushBack(LevelAt(c, o.side, o.price), o))
    IN  [put EXCEPT !.byId = With(@, o.key, [side |-> o.side, price |-> o.price])]

Target(opt, old) == IF opt = None THEN old ELSE opt

UpdateChanges(b, k, newPrice, newSize) ==
    /\ Located(b, k) /\ ~Dangling(b, k)
    /\ LET o == Resting(b, k)
       IN  \/ Target(newSize, o.size) = 0
           \/ Target(newPrice, o.price) # o.price
           \/ Target(newSize, o.size) # o.size

\* Size 0 removes; the same price resizes in place and keeps the order's rank;
\* another price sends it to the back of the new level.
Update(b, k, newPrice, newSize) ==
    IF ~Located(b, k) THEN b
    ELSE IF Dangling(b, k) THEN [b EXCEPT !.byId = Without(@, k)]
    ELSE LET o == Resting(b, k)
             loc == b.byId[k]
             lvl == b.lad[loc.side][loc.price]
             tgt == [o EXCEPT !.price = Target(newPrice, o.price),
                              !.size = Target(newSize, o.size)]
         IN  IF tgt.size = 0 THEN Delete(b, k)
             ELSE IF tgt.price = o.price
             THEN PutLevel(b, loc.side, loc.price,
                           [orders |-> [lvl.orders EXCEPT ![Pos(lvl.orders, k)] = tgt],
                            total  |-> lvl.total - o.size + tgt.size])
             ELSE LET out == PutLevel(b, loc.side, loc.price, Unlist(lvl, o))
                      put == PutLevel(out, loc.side, tgt.price,
                                      PushBack(LevelAt(out, loc.side, tgt.price), tgt))
                  IN  [put EXCEPT !.byId[k].price = tgt.price]

PriorityChanges(b, k, prio) ==
    Located(b, k) /\ ~Dangling(b, k) /\ Resting(b, k).prio # prio

\* A new priority stamp moves the order to the back of its level.
Priority(b, k, prio) ==
    IF Located(b, k) /\ Dangling(b, k) THEN [b EXCEPT !.byId = Without(@, k)]
    ELSE IF ~PriorityChanges(b, k, prio) THEN b
    ELSE LET loc == b.byId[k]
             lvl == b.lad[loc.side][loc.price]
             o == [Resting(b, k) EXCEPT !.prio = prio]
         IN  PutLevel(b, loc.side, loc.price,
                      [lvl EXCEPT !.orders = Append(Drop(lvl.orders, k), o)])

SizeSum(os) ==
    LET sum[n \in 0 .. Len(os)] == IF n = 0 THEN 0 ELSE sum[n - 1] + os[n].size
    IN  sum[Len(os)]

\* Defect: the queue is filled from its back.
FillFromBack(os, qty) ==
    [i \in DOMAIN os |->
        [os[i] EXCEPT !.size = Minus(@, Minus(qty, SizeSum(SubSeq(os, i + 1, Len(os)))))]]

\* What is left of each order when qty is taken from the front: an order gives
\* what the orders ahead of it have not covered.
Fill(os, qty) ==
    [i \in DOMAIN os |->
        [os[i] EXCEPT !.size = Minus(@, Minus(qty, SizeSum(SubSeq(os, 1, i - 1))))]]

\* The places of the orders the trade reached and left nothing of.
Spent(os, qty) ==
    {i \in DOMAIN os : Fill(os, qty)[i].size = 0 /\ SizeSum(SubSeq(os, 1, i - 1)) < qty}

\* The orders at the other places.
Unspent(os, spent) ==
    FlattenSeq([i \in DOMAIN os |-> IF i \in spent THEN <<>> ELSE <<os[i]>>])

\* consumeAtLevel(): filled orders leave the list and the index.
Consume(b, s, p, qty) ==
    IF p \notin DOMAIN b.lad[s] THEN b
    ELSE LET lvl == b.lad[s][p]
             cut == Fill(lvl.orders, qty)
             spent == Spent(lvl.orders, qty)
             put == PutLevel(b, s, p,
                        [orders |-> Unspent(cut, spent),
                         total  |-> lvl.total - (SizeSum(lvl.orders) - SizeSum(cut))])
         IN  [put EXCEPT !.byId = Restrict(@, DOMAIN @ \ {cut[i].key : i \in spent})]

-----------------------------------------------------------------------------
(* Queries                                                                 *)

\* bestBid() / bestAsk(): the front of the ladder, None when it is empty.
Best(b, s) ==
    LET ps == DOMAIN b.lad[s]
    IN  IF ps = {} THEN None
        ELSE IF s = "bid" THEN Max(ps) ELSE Min(ps)

LevelSize(b, s, p) == IF p \in DOMAIN b.lad[s] THEN b.lad[s][p].total ELSE 0

BestSize(b, s) == IF Best(b, s) = None THEN 0 ELSE b.lad[s][Best(b, s)].total

\* forEachLevel(): (price, total) of the n best levels, best first.
Depth(b, s, n) ==
    LET ps == DOMAIN b.lad[s]
        rank(p) == Cardinality({r \in ps : IF s = "bid" THEN r > p ELSE r < p})
        m == IF n < Cardinality(ps) THEN n ELSE Cardinality(ps)
    IN  [i \in 1 .. m |-> LET p == CHOOSE x \in ps : rank(x) = i - 1
                         IN  <<p, b.lad[s][p].total>>]

-----------------------------------------------------------------------------
(* Public members that do more than lock and forward                       *)

\* applyTrade(): the passive side comes from the aggressor, else from where
\* the trade lies in the book.  None: no level can be consumed.
Passive(b, p, aggr) ==
    CASE aggr = "buy" -> "ask"
      [] aggr = "sell" -> "bid"
      [] OTHER -> IF Best(b, "bid") # None /\ p <= Best(b, "bid") THEN "bid"
                  ELSE IF Best(b, "ask") # None /\ p >= Best(b, "ask") THEN "ask"
                  ELSE None

Trade(b, p, qty, aggr) ==
    IF qty = 0 \/ Passive(b, p, aggr) = None THEN b
    ELSE Consume(b, Passive(b, p, aggr), p, qty)

TradeChanges(b, p, qty, aggr) ==
    /\ qty > 0 /\ Passive(b, p, aggr) # None
    /\ LevelSize(b, Passive(b, p, aggr), p) > 0

\* Defect: the counter of synthetic ids restarts with every add.
ScopedKeyNoCounter(b, id, scope, missing) ==
    IF missing \/ id = 0 THEN Key(1, scope, TRUE) ELSE Key(id, scope, FALSE)

\* The key of a scoped add: an order without an id gets the next synthetic one.
ScopedKey(b, id, scope, missing) ==
    IF missing \/ id = 0 THEN Key(b.synth[scope], scope, TRUE) ELSE Key(id, scope, FALSE)

\* applyAdd(o, scope, idMissing) and applyAddGetKey()
AddScoped(b, id, scope, missing, side, price, size, prio) ==
    LET k == ScopedKey(b, id, scope, missing)
    IN  Add([b EXCEPT !.synth[scope] = IF k.syn THEN @ + 1 ELSE @],
            Order(k, side, price, size, prio))

\* applySnapshotPerOrder(): clear the per-order book, then add one by one.
SnapshotPerOrder(b, orders) ==
    LET clear == [b EXCEPT !.lad = [s \in Sides |-> <<>>], !.byId = <<>>]
        after[n \in 0 .. Len(orders)] ==
            IF n = 0 THEN clear ELSE Add(after[n - 1], orders[n])
    IN  after[Len(orders)]

\* applySnapshotAggregated(): a later entry of the same level overwrites.
SnapshotAggregated(b, levels) ==
    LET kept(s) == {i \in DOMAIN levels : levels[i].side = s /\ levels[i].total # 0}
        last(s, p) == CHOOSE i \in kept(s) : /\ levels[i].price = p
                          /\ \A j \in kept(s) : levels[j].price = p => j <= i
    IN  [b EXCEPT !.agg =
            [s \in Sides |-> [p \in {levels[i].price : i \in kept(s)} |->
                [total |-> levels[last(s, p)].total,
                 count |-> IF levels[last(s, p)].count = None THEN 0
                           ELSE levels[last(s, p)].count]]]]

AggAt(b, s, p) == IF p \in DOMAIN b.agg[s] THEN b.agg[s][p] ELSE [total |-> 0, count |-> 0]

\* applyLevelSummary(): total 0 erases the level, an absent count is kept.
LevelSummary(b, s, p, total, count) ==
    [b EXCEPT !.agg[s] =
        IF total = 0 THEN Without(@, p)
        ELSE With(@, p, [total |-> total, count |-> Target(count, AggAt(b, s, p).count)])]

LevelSummaryChanges(b, s, p, total, count) ==
    \/ total = 0
    \/ AggAt(b, s, p).total # total
    \/ count # None /\ AggAt(b, s, p).count # count

=============================================================================

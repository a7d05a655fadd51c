--------------------------- MODULE ObMaterializer ---------------------------
(***************************************************************************)
(* What a client reads of an order book: the depth copy taken by the       *)
(* snapshot source of MarketConnector, the metrics ob/ObMaterializer.cpp   *)
(* computes on it, and the subset ob/ObProvider.cpp serves as `ob.*'       *)
(* atomics.  Prices are in ticks of size 1, which does not change.  A      *)
(* value is a fraction <<numerator, denominator>> and None is NaN.  A copy *)
(* is of two moments: `bids' and `asks' are the book when the one and the  *)
(* other ladder was read, each under a lock of its own.                    *)
(***************************************************************************)
EXTENDS OrderBook, ObKey

CONSTANT DefPerLevels    \* the Provider's default depth (10 in production)

\* A depth level as the snapshot source fills it: the order count is unknown.
DepthLevel(e) ==
    [price |-> e[1], size |-> e[2], orders |-> None, notional |-> e[1] * e[2]]

\* capture(): both ladders, best first; stale and lastChangeMs are never set.
Capture(bids, asks, n, seq, epoch) ==
    LET side(s) == LET d == Depth(IF s = "bid" THEN bids ELSE asks, s, n) IN [i \in DOMAIN d |-> DepthLevel(d[i])]
    IN  [bid |-> side("bid"), ask |-> side("ask"),
         meta |-> [seq |-> seq, epoch |-> epoch, stale |-> FALSE, lastChangeMs |-> 0]]

Whole(v) == IF v = None THEN None ELSE <<v, 1>>

\* The sum of a target over levels: one unknown makes it unknown, and a level
\* adds nothing to a sum of no target.
Total(ls, target) ==
    IF target = "none" THEN 0
    ELSE IF \E i \in DOMAIN ls : ls[i][target] = None THEN None
    ELSE FoldLeft(LAMBDA acc, l : acc + l[target], 0, ls)

Average(ls, target) ==
    IF Total(ls, target) = None THEN None
    ELSE IF ls = <<>> \/ target = "none" THEN Whole(0)
    ELSE <<Total(ls, target), Len(ls)>>

\* Defect: the upper end of a range is left out.
BetweenHalfOpen(ls, a, b) == SubSeq(ls, Max({1, a}), Min({Len(ls), b - 1}))

\* Levels a to b, counted from 1, as far as they exist.
Between(ls, a, b) == SubSeq(ls, Max({1, a}), Min({Len(ls), b}))

Band(ls, p1, p2) == SelectSeq(ls, LAMBDA l : p1 <= l.price /\ l.price <= p2)

-----------------------------------------------------------------------------
(* The metrics                                                             *)

BestPrice(snap, s) == IF snap[s] = <<>> THEN None ELSE Whole(snap[s][1].price)

BestLevelSize(snap, s) == Whole(IF snap[s] = <<>> THEN 0 ELSE snap[s][1].size)

TwoSided(snap) == snap.bid # <<>> /\ snap.ask # <<>>

Spread(snap) ==
    IF TwoSided(snap) THEN Whole(snap.ask[1].price - snap.bid[1].price) ELSE None

Mid(snap) ==
    IF TwoSided(snap) THEN <<snap.ask[1].price + snap.bid[1].price, 2>> ELSE None

LevelIdx(snap, k) ==
    IF k.n <= 0 \/ k.n > Len(snap[k.side]) THEN None ELSE Whole(snap[k.side][k.n][k.attr])

LevelPx(snap, k) ==
    LET at == SelectSeq(snap[k.side], LAMBDA l : l.price = k.px)
    IN  IF at = <<>> THEN None ELSE Whole(at[1][k.attr])

\* By index, every reducer but avg returns the sum.
RangeIdxReduce(snap, k) ==
    LET ls == Between(snap[k.side], k.a, k.b)
    IN  IF ls = <<>> THEN None
        ELSE IF k.reduce = "avg" THEN Average(ls, k.target)
        ELSE Whole(Total(ls, k.target))

\* By price, min and max return 0, and so does a count, whose target is none.
RangePxReduce(snap, k) ==
    LET ls == Band(snap[k.side], k.a, k.b)
    IN  CASE k.reduce = "avg" -> Average(ls, k.target)
          [] k.reduce = "sum" -> Whole(Total(ls, k.target))
          [] k.reduce = "count" -> Whole(IF k.target = "none" THEN 0 ELSE Len(ls))
          [] OTHER -> Whole(0)

Balance(bid, ask) == IF bid + ask <= 0 THEN Whole(0) ELSE <<bid - ask, bid + ask>>

ImbalanceLevels(snap, a, b) ==
    Balance(Total(Between(snap.bid, a, b), "size"), Total(Between(snap.ask, a, b), "size"))

ImbalanceBand(snap, p1, p2) ==
    Balance(Total(Band(snap.bid, p1, p2), "size"), Total(Band(snap.ask, p1, p2), "size"))

CumLevels(snap, s, n, target) ==
    Whole(IF n <= 0 THEN 0 ELSE Total(Between(snap[s], 1, n), target))

\* Volume-weighted price of some levels.
Weighted(ls) ==
    IF Total(ls, "size") <= 0 THEN None ELSE <<Total(ls, "notional"), Total(ls, "size")>>

VwapLevels(snap, k) == Weighted(Between(snap[k.side], k.a, k.b))

VwapPriceBand(snap, k) == Weighted(Band(snap[k.side], k.a, k.b))

Meta(snap, field) ==
    CASE field = "seq" -> Whole(snap.meta.seq)
      [] field = "epoch" -> Whole(snap.meta.epoch)
      [] field = "is_stale" -> Whole(IF snap.meta.stale THEN 1 ELSE 0)
      [] field = "levels.bid" -> Whole(Len(snap.bid))
      [] field = "levels.ask" -> Whole(Len(snap.ask))
      [] field = "last_change_ms" -> Whole(snap.meta.lastChangeMs)
      [] OTHER -> None

Eval(snap, k) ==
    CASE k.metric = "best" ->
            IF k.attr = "size" THEN BestLevelSize(snap, k.side) ELSE BestPrice(snap, k.side)
      [] k.metric = "level" -> LevelIdx(snap, k)
      [] k.metric = "at" -> LevelPx(snap, k)
      [] k.metric = "range" ->
            IF k.by = "levels" THEN RangeIdxReduce(snap, k) ELSE RangePxReduce(snap, k)
      [] k.metric = "cum" -> CumLevels(snap, k.side, k.n, k.attr)
      [] k.metric = "vwap" ->
            IF k.by = "levels" THEN VwapLevels(snap, k) ELSE VwapPriceBand(snap, k)
      [] k.metric = "imbalance" ->
            IF k.by = "levels" THEN ImbalanceLevels(snap, k.a, k.b)
                               ELSE ImbalanceBand(snap, k.a, k.b)
      [] k.metric = "spread" -> Spread(snap)
      [] k.metric = "mid" -> Mid(snap)
      [] k.metric = "meta" -> Meta(snap, k.field)
      [] OTHER -> None

-----------------------------------------------------------------------------
(* Provider::get(): its own reading of the tokens; no seq, epoch or mode   *)

\* stoi() reads the number a token starts with and throws on a word.
Stoi(tok) == IF IsNum(tok) \/ IsDash(tok) THEN tok[2] ELSE None

\* Defect: a request beyond the default depth does not deepen the copy.
WantedDefault(bids, asks, n) == Capture(bids, asks, DefPerLevels, 0, 0)

Wanted(bids, asks, n) == Capture(bids, asks, Max({DefPerLevels, n}), 0, 0)

ProviderLevel(bids, asks, t) ==
    LET n == Stoi(t[4])
    IN  IF n = None \/ n <= 0 THEN None
        ELSE LET ls == Wanted(bids, asks, n)[t[3][2]]
             IN  IF Len(ls) < n \/ ~IsWord(t[5], Targets) THEN None
                 ELSE Whole(ls[n][t[5][2]])

\* An unknown metric is noticed at the first level, if there is one.
ProviderCum(bids, asks, t) ==
    LET n == Stoi(t[5])
    IN  IF n = None \/ n <= 0 THEN None
        ELSE LET ls == Between(Wanted(bids, asks, n)[t[3][2]], 1, n)
             IN  IF ls = <<>> THEN Whole(0)
                 ELSE IF ~IsWord(t[6], Targets \ {"price"}) THEN None
                 ELSE Whole(Total(ls, t[6][2]))

\* Only as deep as the shorter side.
ProviderImbalance(bids, asks, t) ==
    IF ~IsDash(t[4]) \/ t[4][2] <= 0 \/ t[4][3] < t[4][2] THEN None
    ELSE LET snap == Wanted(bids, asks, t[4][3])
         IN  ImbalanceLevels(snap, t[4][2], Min({t[4][3], Len(snap.bid), Len(snap.ask)}))

\* spread, level, cum and imbalance; any other key is NaN.
ProviderGet(bids, asks, t) ==
    CASE t = <<Word("ob"), Word("spread")>> -> Spread(Capture(bids, asks, 1, 0, 0))
      [] Len(t) = 5 /\ t[2] = Word("level") /\ IsWord(t[3], SideNames) ->
            ProviderLevel(bids, asks, t)
      [] Len(t) = 6 /\ t[2] = Word("cum") /\ IsWord(t[3], SideNames)
                    /\ t[4] = Word("levels") -> ProviderCum(bids, asks, t)
      [] Len(t) = 4 /\ t[2] = Word("imbalance") /\ t[3] = Word("levels") ->
            ProviderImbalance(bids, asks, t)
      [] OTHER -> None

=============================================================================

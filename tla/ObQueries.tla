----------------------------- MODULE ObQueries -----------------------------
(***************************************************************************)
(* The order-book metrics read at any moment of a book's life, compared    *)
(* with what the resting orders themselves say.                            *)
(***************************************************************************)
EXTENDS OrderBookSpec, ObMaterializer

CONSTANTS LevelNumbers,  \* level indices asked for, from 1
          BandPrices     \* ends of price bands

Resolved(k) == [mode |-> "per"] @@ k

\* Keys of every form but meta, with the reducers that are implemented.
Spread1 == {[metric |-> m] : m \in {"spread", "mid"}}
BestKeys == [metric : {"best"}, side : Sides, attr : {"price", "size"}]
LevelKeys == [metric : {"level"}, side : Sides, n : LevelNumbers, attr : Targets]
AtKeys == [metric : {"at"}, side : Sides, px : BandPrices, attr : Targets]
CumKeys == [metric : {"cum"}, side : Sides, n : LevelNumbers, attr : Targets]
SpanSet(by) ==
    LET ends == IF by = "levels" THEN LevelNumbers ELSE BandPrices
    IN  {e \in ends \X ends : e[1] <= e[2]}
RangeKeys ==
    UNION {{[metric |-> "range", side |-> s, by |-> by, a |-> e[1], b |-> e[2],
             reduce |-> r, target |-> t] :
                s \in Sides, e \in SpanSet(by), r \in {"sum", "avg"}, t \in Targets} :
           by \in {"levels", "price"}}
VwapKeys ==
    UNION {{[metric |-> "vwap", side |-> s, by |-> by, a |-> e[1], b |-> e[2]] :
                s \in Sides, e \in SpanSet(by)} : by \in {"levels", "price"}}
ImbalanceKeys ==
    UNION {{[metric |-> "imbalance", by |-> by, a |-> e[1], b |-> e[2]] :
                e \in SpanSet(by)} : by \in {"levels", "price"}}
ObKeys == {Resolved(k) : k \in Spread1 \cup BestKeys \cup LevelKeys \cup AtKeys \cup CumKeys
                                 \cup RangeKeys \cup VwapKeys \cup ImbalanceKeys}

\* The prices a key names are printed in full.
Writable(k) ==
    /\ k.metric = "at" => Plain(k.px)
    /\ k.metric \in {"range", "vwap", "imbalance"} => k.by = "levels" \/ Plain(k.b)

\* A key written by formatObKey() is read back as itself, in both modes, or, if it
\* names a price that is not printed in full, not at all: never as another key.
KeysReadBack ==
    \A k \in ObKeys, m \in {"per", "agg"} :
        LET key == [k EXCEPT !.mode = m]
        IN  Parse(Format(key)) = IF Writable(key) THEN key ELSE NoKey

-----------------------------------------------------------------------------
(* Reference values, from the resting orders alone                         *)

RestingOn(s) == {Resting(book, k) : k \in {j \in LiveKeys : book.byId[j].side = s}}

PricesOf(os) == {o.price : o \in os}

\* The place of a price among the prices of its side, 1 for the best.
Place(s, p) ==
    1 + Cardinality({q \in PricesOf(RestingOn(s)) : IF s = "bid" THEN q > p ELSE q < p})

Placed(s, a, b) == {o \in RestingOn(s) : Place(s, o.price) \in a .. b}
Priced(s, a, b) == {o \in RestingOn(s) : o.price \in a .. b}
Chosen(s, k) == IF k.by = "levels" THEN Placed(s, k.a, k.b) ELSE Priced(s, k.a, k.b)

Volume(os) == MapThenSumSet(LAMBDA o : o.size, os)
Notional(os) == MapThenSumSet(LAMBDA o : o.price * o.size, os)

\* A level counts its price once however many orders it holds.
Amount(os, t) ==
    CASE t = "price" -> MapThenSumSet(LAMBDA p : p, PricesOf(os))
      [] t = "size" -> Volume(os)
      [] t = "notional" -> Notional(os)
      [] t = "orders" -> IF os = {} THEN 0 ELSE None

OrNaN(os, v) == IF os = {} THEN None ELSE Whole(v)

Imbalance(k) ==
    Balance(Volume(Chosen("bid", k)), Volume(Chosen("ask", k)))

Ends == IF RestingOn("bid") = {} \/ RestingOn("ask") = {} THEN None
        ELSE <<Max(PricesOf(RestingOn("bid"))), Min(PricesOf(RestingOn("ask")))>>

Reference(k) ==
    CASE k.metric = "spread" -> IF Ends = None THEN None ELSE Whole(Ends[2] - Ends[1])
      [] k.metric = "mid" -> IF Ends = None THEN None ELSE <<Ends[1] + Ends[2], 2>>
      [] k.metric = "best" -> LET os == Placed(k.side, 1, 1)
                              IN  IF k.attr = "size" THEN Whole(Volume(os))
                                  ELSE OrNaN(os, Amount(os, "price"))
      [] k.metric = "level" -> LET os == Placed(k.side, k.n, k.n) IN OrNaN(os, Amount(os, k.attr))
      [] k.metric = "at" -> LET os == Priced(k.side, k.px, k.px) IN OrNaN(os, Amount(os, k.attr))
      [] k.metric = "cum" -> Whole(Amount(Placed(k.side, 1, k.n), k.attr))
      [] k.metric = "range" ->
            LET os == Chosen(k.side, k)
                sum == Amount(os, k.target)
            IN  IF os = {} THEN IF k.by = "levels" THEN None ELSE Whole(0)
                ELSE IF k.reduce = "sum" \/ sum = None THEN Whole(sum)
                ELSE <<sum, Cardinality(PricesOf(os))>>
      [] k.metric = "vwap" -> LET os == Chosen(k.side, k)
                              IN  IF os = {} THEN None ELSE <<Notional(os), Volume(os)>>
      [] k.metric = "imbalance" -> Imbalance(k)

Same(x, y) == IF x = None \/ y = None THEN x = y ELSE x[1] * y[2] = y[1] * x[2]

\* What a key names is what the orders resting at that moment say: the metric
\* survives formatting and parsing, and evaluated on a depth copy of the book
\* it equals the value computed from the orders, after any sequence of adds,
\* re-prices, fills and snapshots and also beyond the end of a ladder.  (A copy
\* whose two sides are of one moment: one made across a change may differ.)
QueriesMatchOrders ==
    /\ KeysReadBack
    /\ LET snap == Capture(book, book, 2 * Cardinality(LevelNumbers), 0, 0)
       IN  \A k \in ObKeys : Same(Eval(snap, k), Reference(k))

\* Provider::get() serves the spread, the levels, cumulated size, notional and
\* order count, and the imbalance, the last only as deep as the shorter side.
Served(k) ==
    \/ k.metric \in {"spread", "level"}
    \/ k.metric = "cum" /\ (k.attr # "price" \/ RestingOn(k.side) = {})
    \/ k.metric = "imbalance" /\ k.by = "levels"

Shared(k) ==
    IF k.metric # "imbalance" THEN k
    ELSE [k EXCEPT !.b = Min({@} \cup {Cardinality(PricesOf(RestingOn(s))) : s \in Sides})]

\* A value served for an `ob.*' atomic is the value of the resting orders, for
\* keys within and beyond the default depth: the Provider's own parser, its
\* choice of depth and its loops agree with the metric the key names.
ProviderServesOrders ==
    \A k \in ObKeys :
        Served(k) => Same(ProviderGet(book, book, Format(k)), Reference(Shared(k)))

\* The default profile of ObKeysCatalog.hpp:9-17, its 10 levels being the deepest
\* ones asked for here; its two meta keys are left out.
DefaultProfile ==
    LET deepest == Max(LevelNumbers)
    IN  {k \in ObKeys :
            \/ k.metric \in {"spread", "mid", "best"}
            \/ k.metric = "cum" /\ k.n = deepest /\ k.attr = "size"
            \/ k.metric \in {"vwap", "imbalance"} /\ k.by = "levels" /\ k.a = 1 /\ k.b = deepest}

\* docs/atomic-keys.md:189-203 gives this list as the `ob.*' vocabulary, the
\* "top-of-book and book-derived metrics from `ob::Provider`", which line 27 says
\* are "always present" once "the order book has any state": on a book with both
\* sides each of them has its value (ObProvider.cpp:32-90).
ProfileServed ==
    Ends # None => \A k \in DefaultProfile :
        Same(ProviderGet(book, book, Format(k)), Reference(Shared(k)))

=============================================================================

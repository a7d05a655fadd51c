----------------------------- MODULE MarketTick -----------------------------
(***************************************************************************)
(* gma::market's MarketTickComputer::compute, the computer Dispatcher runs *)
(* on every "tick" event (src/connectors/market/src/MarketTA.cpp).         *)
(*                                                                         *)
(* A tick is [sym, n, num, other]: symbol, ordinal, the payload members    *)
(* that hold a number and the ones that do not (a quote of zero or less    *)
(* counts as no number: it is not stored either).  What an indicator       *)
(* evaluates to is abstracted to the tick it was last computed on.         *)
(***************************************************************************)
EXTENDS AtomicStore

CONSTANTS PriceFields,   \* _fieldMap.priceFields present in the model
          BidField,      \* _fieldMap.bidFields
          AskField,      \* _fieldMap.askFields
          TaEnabled,     \* _fieldMap.taEnabled
          Indicators,    \* what the suite computes, in order: [key, depth], depth
                         \* being the shortest history that yields the key
          LightKeys,     \* what is computed without it: lastPrice, volume, ...
          SkipFields,    \* _skipFields: raw and FunctionMap names
          MaxHistory,    \* cfg.taHistoryMax
          MaxSymbols     \* cfg.maxSymbols

ASSUME HistoryCaps ==
    /\ Indicators \in Seq({Indicators[i] : i \in DOMAIN Indicators})
    /\ \A i \in DOMAIN Indicators : Indicators[i].depth \in Nat \ {0}
    /\ \A i, j \in DOMAIN Indicators : Indicators[i].key = Indicators[j].key => i = j
    /\ LightKeys \in Seq({LightKeys[i] : i \in DOMAIN LightKeys})
    /\ MaxHistory \in Nat \ {0}
    /\ MaxSymbols \in Nat \ {0}

\* Defect: nothing is popped at the limit.
PushUnbounded(h, x) == Append(h, x)

\* A bounded deque: push_back, then pop_front beyond the limit.
PushBounded(h, x) ==
    LET all == Append(h, x)
    IN  IF Len(all) > MaxHistory THEN Tail(all) ELSE all

HistOf(hist, k) == IF k \in DOMAIN hist THEN hist[k] ELSE <<>>

\* The quote values are stored one by one as they come, before any cap of the
\* history is looked at.  (So is a timestamp, which no property needs.)
StoreQuotes(data, tick) ==
    LET hasBid == BidField \in tick.num
        hasAsk == AskField \in tick.num
        quotes == (IF hasBid THEN <<(<<"bid", tick.n>>)>> ELSE <<>>)
                  \o (IF hasAsk THEN <<(<<"ask", tick.n>>)>> ELSE <<>>)
                  \o (IF hasBid /\ hasAsk THEN <<(<<"spread", tick.n>>)>> ELSE <<>>)
    IN  IF quotes = <<>> THEN data ELSE SetBatch(data, tick.sym, quotes)

HasPrice(tick) == PriceFields \cap tick.num # {}

SymbolCapped(hist, sym) ==
    sym \notin DOMAIN hist /\ Cardinality(DOMAIN hist) >= MaxSymbols

\* What a loop over q keeps that skips the entries in X.
Without(q, X) == FlattenSeq([i \in DOMAIN q |-> IF q[i] \in X THEN <<>> ELSE <<q[i]>>])

\* computeAllAtomicValues: prices and averages come from the first tick on,
\* prevClose, vwap, sma, ema, macd and obv from the second, and the rest once
\* the history covers their period.  (An invalid period in the configuration is
\* an empty Indicators; volatility_rank also needs a mean other than 0.)
AllAtomicValues(h) ==
    LET keys == [i \in DOMAIN Indicators |-> Indicators[i].key]
    IN  Without(keys, {keys[i] : i \in {j \in DOMAIN keys : Indicators[j].depth > Len(h)}})

\* The keys of the indicator suite, or of the lightweight path.
ResultKeys(h) == IF TaEnabled THEN AllAtomicValues(h) ELSE LightKeys

\* Defect: every result is announced, also those the raw path announces.
NotifiedAll(keys) == keys

\* With the indicators enabled the raw and builtin names are left to onTick.
NotifiedKeys(keys) == IF TaEnabled THEN Without(keys, SkipFields) ELSE keys

\* compute(): [store, hist, keys], keys being the ones to notify listeners of.
Compute(data, hist, tick) ==
    IF ~HasPrice(tick)
    THEN [store |-> data, hist |-> hist, keys |-> <<>>]
    ELSE IF SymbolCapped(hist, tick.sym)
    THEN [store |-> StoreQuotes(data, tick), hist |-> hist, keys |-> <<>>]
    ELSE LET h == PushBounded(HistOf(hist, tick.sym), tick.n)
             results == ResultKeys(h)
         IN  [store |-> SetBatch(StoreQuotes(data, tick), tick.sym,
                                 [i \in DOMAIN results |-> <<results[i], tick.n>>]),
              hist  |-> Put(hist, tick.sym, h),
              keys  |-> NotifiedKeys(results)]
=============================================================================

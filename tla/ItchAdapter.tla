---------------------------- MODULE ItchAdapter ----------------------------
(***************************************************************************)
(* gma::feed::ItchAdapter, which turns venue messages into feed events;    *)
(* the dispatchEvent() of WsFeedClient, which routes the events; and what  *)
(* OrderBookManager does with them before they reach a book                *)
(* (src/connectors/market/src/feed/ItchAdapter.cpp, ws/WsFeedClient.cpp,   *)
(* book/OrderBookManager.cpp).                                             *)
(*                                                                         *)
(* translate() is a function of the message and the adapter's state:       *)
(*   orders  orders_: ref -> [sym, side, price, size (remainingShares)]    *)
(*   known   the symbols locateToSymbol_ maps to                           *)
(* A message is a record with the fields its handler reads; one that lacks *)
(* a field its handler wants is ignored, and is not modelled.              *)
(***************************************************************************)
EXTENDS OrderBook

CONSTANTS FeedScope,      \* the scope of every order: FeedScope{}
          VenuePrices,    \* prices in messages, in units both tick sizes are made of
          DefaultTick,    \* kDefaultTick
          DirectoryTick   \* the 0.01 of routeStockDirectory

TickSizes == {DefaultTick, DirectoryTick}

\* validatePrice_(): no zero or negative price, none between two ticks.  (A price
\* that is no number is refused as 0 is.)
ValidPrice(tick, p) == p > 0 /\ p % tick = 0

\* toTicks()
ToTicks(tick, p) == p \div tick

\* The feed's scope is one the book knows, a price or size that is absent is none
\* that is present, and Prices are the prices of messages in ticks.
ASSUME AdapterAssumption ==
    /\ FeedScope \in Scopes /\ None \notin Nat
    /\ VenuePrices \subseteq Int /\ TickSizes \subseteq Nat \ {0}
    /\ \A p \in VenuePrices, t \in TickSizes : ValidPrice(t, p) => ToTicks(t, p) \in Prices

-----------------------------------------------------------------------------
(* Events                                                                  *)

ObAdd(ref, o) == [op |-> "add", ref |-> ref, o |-> o]
ObUpdate(ref, o) == [op |-> "update", ref |-> ref, o |-> o]
ObDelete(ref, o) == [op |-> "delete", ref |-> ref, o |-> o]

\* Only sym, price and size of o are read.
ObTrade(o, aggr) == [op |-> "trade", o |-> o, aggr |-> aggr]
TickEvent(o) == [op |-> "tick", o |-> o]
ObTickSize(sym) == [op |-> "ticksize", sym |-> sym]

\* Defect: the trade takes all that is left of the order.
TradeAllAndTick(o, n, aggr) ==
    << ObTrade(o, aggr), TickEvent([o EXCEPT !.size = n]) >>

\* A trade of n shares of o is followed by a tick with its price and volume.
TradeAndTick(o, n, aggr) ==
    << ObTrade([o EXCEPT !.size = n], aggr), TickEvent([o EXCEPT !.size = n]) >>

-----------------------------------------------------------------------------
(* Handlers: the new orders_ and the events                                *)

Ignored(orders) == [orders |-> orders, events |-> <<>>]

\* stock_directory: the symbol is learnt (see Hear) and its tick size announced.
RouteStockDirectory(orders, sym) == [orders |-> orders, events |-> << ObTickSize(sym) >>]

\* The symbol comes from the message itself or from the directory.
Resolves(known, sym, named) == named \/ sym \in known

RouteAddOrder(orders, known, ref, o, named) ==
    IF ~Resolves(known, o.sym, named) THEN Ignored(orders)
    ELSE [orders |-> With(orders, ref, o), events |-> << ObAdd(ref, o) >>]

\* The resting order is passive.
Aggressor(o) == IF o.side = "bid" THEN "sell" ELSE "buy"

\* Defect: a partial reduction is announced but not remembered.
ReduceForgets(orders, ref, n) ==
    LET o == orders[ref]
    IN  IF n >= o.size
        THEN [orders |-> Without(orders, ref), events |-> << ObDelete(ref, o) >>]
        ELSE [orders |-> orders,
              events |-> << ObUpdate(ref, [o EXCEPT !.size = @ - n]) >>]

\* What order_executed and order_cancel do with n shares of a tracked order.
Reduce(orders, ref, n) ==
    LET o == orders[ref]
    IN  IF n >= o.size
        THEN [orders |-> Without(orders, ref), events |-> << ObDelete(ref, o) >>]
        ELSE [orders |-> [orders EXCEPT ![ref].size = @ - n],
              events |-> << ObUpdate(ref, [o EXCEPT !.size = @ - n]) >>]

\* The reduction, then the trade, then the tick.
RouteOrderExecuted(orders, ref, n) ==
    IF ref \notin DOMAIN orders THEN Ignored(orders)
    ELSE LET r == Reduce(orders, ref, n)
             o == orders[ref]
         IN  [r EXCEPT !.events = @ \o TradeAndTick(o, n, Aggressor(o))]

RouteOrderCancel(orders, ref, n) ==
    IF ref \notin DOMAIN orders THEN Ignored(orders) ELSE Reduce(orders, ref, n)

RouteOrderDelete(orders, ref) ==
    IF ref \notin DOMAIN orders THEN Ignored(orders)
    ELSE [orders |-> Without(orders, ref), events |-> << ObDelete(ref, orders[ref]) >>]

\* Defect: the replaced order stays in the book.
RouteOrderReplaceNoDelete(orders, orig, ref, price, size) ==
    IF orig \notin DOMAIN orders THEN Ignored(orders)
    ELSE LET new == [orders[orig] EXCEPT !.price = price, !.size = size]
         IN  [orders |-> With(Without(orders, orig), ref, new),
              events |-> << ObAdd(ref, new) >>]

\* Symbol and side are inherited from the replaced order.
RouteOrderReplace(orders, orig, ref, price, size) ==
    IF orig \notin DOMAIN orders THEN Ignored(orders)
    ELSE LET new == [orders[orig] EXCEPT !.price = price, !.size = size]
         IN  [orders |-> With(Without(orders, orig), ref, new),
              events |-> << ObDelete(orig, orders[orig]), ObAdd(ref, new) >>]

\* A trade against an order that is not displayed.
RouteTrade(orders, known, t, aggr, named) ==
    IF ~Resolves(known, t.sym, named) THEN Ignored(orders)
    ELSE [orders |-> orders, events |-> TradeAndTick(t, t.size, aggr)]

-----------------------------------------------------------------------------
(* dispatchEvent(): OrderBookManager and Dispatcher                        *)

BookKey(ref) == Key(ref, FeedScope, FALSE)

\* What OrderBookManager keeps of a symbol: books_, tickSize_ and feed_'s flag.
NewSymbol == [book |-> EmptyBook, tick |-> DefaultTick, stale |-> FALSE]

\* onAdd(), onUpdate(), onDelete() and onTrade() behind gate_(): a price or size
\* that is not valid is refused and the book stays; prices become ticks of the
\* size in force, and no resting order moves when that size changes.
Applied(m, e) ==
    CASE e.op = "add" /\ ValidPrice(m.tick, e.o.price) /\ e.o.size > 0 ->
            Add(m.book, Order(BookKey(e.ref), e.o.side, ToTicks(m.tick, e.o.price), e.o.size, 0))
      [] e.op = "update" /\ e.o.size > 0 -> Update(m.book, BookKey(e.ref), None, e.o.size)
      [] e.op = "delete" -> Delete(m.book, BookKey(e.ref))
      [] e.op = "trade" /\ ValidPrice(m.tick, e.o.price) /\ e.o.size > 0 ->
            Trade(m.book, ToTicks(m.tick, e.o.price), e.o.size, e.aggr)
      [] OTHER -> m.book

\* gate_(): nothing reaches the book of a stale symbol.
BookAfter(m, e) == [m EXCEPT !.book = IF m.stale THEN @ ELSE Applied(m, e)]

\* Events go to the OrderBookManager or to the Dispatcher, never to both;
\* setTickSize() has no gate.
DispatchEvent(s, e) ==
    CASE e.op = "tick" -> [s EXCEPT !.ticks = Append(@, e.o)]
      [] e.op = "ticksize" -> [s EXCEPT !.books[e.sym].tick = DirectoryTick]
      [] OTHER -> [s EXCEPT !.books[e.o.sym] = BookAfter(@, e)]

\* handleMessage(): every event of a message, in the order of the vector.
HandleMessage(books, events) ==
    LET after[n \in 0 .. Len(events)] ==
            IF n = 0 THEN [books |-> books, ticks |-> <<>>]
            ELSE DispatchEvent(after[n - 1], events[n])
    IN  after[Len(events)]
=============================================================================

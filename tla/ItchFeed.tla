------------------------------ MODULE ItchFeed ------------------------------
(***************************************************************************)
(* A WsFeedClient with an ItchAdapter, the OrderBookManager its events go  *)
(* to, and the venue that sends the messages.  No other feed names these   *)
(* symbols, but a control line of the FeedServer may reset one of them, as *)
(* the manager is shared.  The adapter outlives a connection: it           *)
(* is a member of the client and resetStreams() does not touch it, while   *)
(* what the venue does during an outage is never told.                     *)
(*                                                                         *)
(* The stream keeps messages in order, so a message is translated in the   *)
(* step in which the venue makes it, or is lost with the connection.       *)
(***************************************************************************)
EXTENDS WsFeedClient, ItchAdapter

CONSTANTS Symbols, Refs,
          MaxTrades,    \* bound: trade messages
          MaxLost       \* bound: messages sent while nobody reads

ASSUME FeedAssumption ==
    Refs \subseteq Nat \ {0} /\ MaxTrades \in Nat /\ MaxLost \in Nat

VARIABLES
    venue,      \* the venue's live orders: ref -> [sym, side, price, size]
    announced,  \* the venue's directory: symbols it has introduced
    fresh,      \* refs the venue has not used yet: it never reuses one
    trades,     \* trade messages so far
    lost,       \* messages nobody read
    orders,     \* orders_
    known,      \* locateToSymbol_
    books,      \* OrderBookManager: [book, tick, stale] of each symbol
    volume      \* shares each symbol's ticks have reported to the Dispatcher

venueVars == <<venue, announced, fresh, trades>>
adapterVars == <<orders, known, books, volume>>
feedVars == <<venueVars, lost, adapterVars>>
allVars == <<vars, feedVars>>

VenueOrder == [sym : Symbols, side : Sides, price : VenuePrices, size : Sizes]

\* TLS changes how the connection is made, not what is heard over it.
FeedInit ==
    /\ Init /\ ~tls
    /\ venue = <<>>
    /\ announced = {}
    /\ fresh = Refs
    /\ trades = 0
    /\ lost = 0
    /\ orders = <<>>
    /\ known = {}
    /\ books = [s \in Symbols |-> NewSymbol]
    /\ volume = [s \in Symbols |-> 0]

-----------------------------------------------------------------------------

VolumeOf(ticks, s) ==
    SizeSum([i \in DOMAIN ticks |->
                IF ticks[i].sym = s THEN ticks[i] ELSE [ticks[i] EXCEPT !.size = 0]])

Reading == "read" \in pending /\ stream = "open"

\* The handler's result r is applied if the client is reading.
Hear(r, learnt) ==
    \/ /\ Reading
       /\ OnReadMessage
       /\ LET done == HandleMessage(books, r.events)
          IN  /\ orders' = r.orders
              /\ known' = known \cup learnt
              /\ books' = done.books
              /\ volume' = [s \in Symbols |-> volume[s] + VolumeOf(done.ticks, s)]
       /\ UNCHANGED lost
    \/ /\ ~Reading
       /\ lost < MaxLost
       /\ lost' = lost + 1
       /\ UNCHANGED <<vars, adapterVars>>

\* The directory may be sent again: at the start of a day, or to a new connection.
VenueDirectory(s) ==
    /\ announced' = announced \cup {s}
    /\ Hear(RouteStockDirectory(orders, s), {s})
    /\ UNCHANGED <<venue, fresh, trades>>

VenueAdd(ref, o, named) ==
    /\ ref \in fresh /\ o.sym \in announced
    /\ venue' = With(venue, ref, o)
    /\ fresh' = fresh \ {ref}
    /\ Hear(RouteAddOrder(orders, known, ref, o, named), {})
    /\ UNCHANGED <<announced, trades>>

\* n shares of a live order are gone, the order with the last of them.
Less(ref, n) ==
    venue' = IF n = venue[ref].size THEN Without(venue, ref)
             ELSE [venue EXCEPT ![ref].size = @ - n]

VenueExecute(ref, n) ==
    /\ n <= venue[ref].size
    /\ Less(ref, n)
    /\ Hear(RouteOrderExecuted(orders, ref, n), {})
    /\ UNCHANGED <<announced, fresh, trades>>

VenueCancel(ref, n) ==
    /\ n <= venue[ref].size
    /\ Less(ref, n)
    /\ Hear(RouteOrderCancel(orders, ref, n), {})
    /\ UNCHANGED <<announced, fresh, trades>>

VenueDelete(ref) ==
    /\ venue' = Without(venue, ref)
    /\ Hear(RouteOrderDelete(orders, ref), {})
    /\ UNCHANGED <<announced, fresh, trades>>

VenueReplace(orig, ref, price, size) ==
    /\ ref \in fresh
    /\ venue' = With(Without(venue, orig), ref,
                     [venue[orig] EXCEPT !.price = price, !.size = size])
    /\ fresh' = fresh \ {ref}
    /\ Hear(RouteOrderReplace(orders, orig, ref, price, size), {})
    /\ UNCHANGED <<announced, trades>>

VenueTrade(t, aggr, named) ==
    /\ trades < MaxTrades /\ t.sym \in announced
    /\ trades' = trades + 1
    /\ Hear(RouteTrade(orders, known, t, aggr, named), {})
    /\ UNCHANGED <<venue, announced, fresh>>

Quantity == Quantities \ {0}

VenueStep ==
    \/ \E s \in Symbols : VenueDirectory(s)
    \/ \E ref \in fresh, o \in VenueOrder, named \in BOOLEAN : VenueAdd(ref, o, named)
    \/ \E ref \in DOMAIN venue, n \in Quantity : VenueExecute(ref, n)
    \/ \E ref \in DOMAIN venue, n \in Quantity : VenueCancel(ref, n)
    \/ \E ref \in DOMAIN venue : VenueDelete(ref)
    \/ \E orig \in DOMAIN venue, ref \in fresh, p \in VenuePrices, z \in Sizes :
          VenueReplace(orig, ref, p, z)
    \/ \E t \in VenueOrder, aggr \in {"buy", "sell", "unknown"}, named \in BOOLEAN :
          VenueTrade(t, aggr, named)

\* A "reset" control line of the FeedServer, whose handlers run on the same io
\* thread: onReset() leaves the symbol stale.  Only a snapshot would end that, and
\* no feed sends one.
Reset(s) ==
    /\ IoFree
    /\ books' = [books EXCEPT ![s].stale = TRUE]
    /\ UNCHANGED <<vars, venueVars, lost, orders, known, volume>>

ClientStep == (Main \/ Strand \/ Environment) /\ UNCHANGED feedVars

FeedNext == VenueStep \/ ClientStep \/ (\E s \in Symbols : Reset(s))

FeedSpec == FeedInit /\ [][FeedNext]_allVars

-----------------------------------------------------------------------------
(* Properties                                                              *)

\* The types of the variables.
FeedTypeOK ==
    /\ \A r \in DOMAIN venue : r \in Refs /\ venue[r].size > 0
    /\ \A r \in DOMAIN orders : r \in Refs /\ orders[r].size > 0
    /\ known \subseteq Symbols /\ announced \subseteq Symbols
    /\ lost \in 0..MaxLost /\ trades \in 0..MaxTrades
    /\ volume \in [Symbols -> Nat]
    /\ \A s \in Symbols : books[s].tick \in TickSizes /\ books[s].stale \in BOOLEAN

\* As long as no message was lost, orders_ is the venue's own list: partial
\* executions, cancels and replacements leave the same shares on both sides.
TrackingExact == lost = 0 => orders = venue

\* A price that validatePrice_() takes whichever tick size is in force.
Quoted(p) == \A t \in TickSizes : ValidPrice(t, p)

\* Whatever was lost, the book of a symbol that is not stale rests on orders_: each
\* resting order is tracked, in its symbol and side, at its price in the ticks of
\* one of the two sizes, with at least as many shares; so a later delete, cancel
\* or execution finds it.  In a symbol in which nothing has traded the book holds
\* in full every tracked order whose price no tick size refuses.
BookWithinTracking ==
    \A s \in Symbols :
        LET b == books[s].book
        IN  ~books[s].stale =>
            /\ \A k \in DOMAIN b.byId :
                  /\ k.id \in DOMAIN orders
                  /\ orders[k.id].sym = s
                  /\ Resting(b, k).side = orders[k.id].side
                  /\ \E t \in TickSizes : Resting(b, k).price = ToTicks(t, orders[k.id].price)
                  /\ Resting(b, k).size <= orders[k.id].size
            /\ volume[s] = 0 =>
                  \A r \in DOMAIN orders : orders[r].sym = s /\ Quoted(orders[r].price) =>
                      /\ BookKey(r) \in DOMAIN b.byId
                      /\ Resting(b, BookKey(r)).size = orders[r].size

\* The references of a symbol's orders at such prices.
QuotedOf(f, s) == {r \in DOMAIN f : f[r].sym = s /\ Quoted(f[r].price)}

SharesOf(f, s) == SumFunctionOnSet([r \in DOMAIN f |-> f[r].size], QuotedOf(f, s))

\* The shares of the orders in refs that rest in b.
SharesIn(b, refs) ==
    SumFunctionOnSet([k \in DOMAIN b.byId |-> Resting(b, k).size],
                     {k \in DOMAIN b.byId : k.id \in refs})

\* An execution reduces its order and then consumes the level as a trade, so
\* its shares leave the book twice; but never more often: what a book that is
\* not stale is short of, of the orders whose price no tick size refuses, is at
\* most what its ticks have reported.
ShortByVolumeAtMost ==
    lost = 0 => \A s \in Symbols : ~books[s].stale =>
        SharesOf(venue, s) - SharesIn(books[s].book, QuotedOf(venue, s)) \in 0..volume[s]
=============================================================================

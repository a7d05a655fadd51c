--------------------------- MODULE OrderBookSpec ---------------------------
(***************************************************************************)
(* One OrderBook driven by every public member that changes its per-order  *)
(* half, in any order and with any argument, each member atomic under m_.  *)
(* The aggregated ladders share nothing with that half; OrderBookManager   *)
(* drives them.                                                            *)
(***************************************************************************)
EXTENDS OrderBook

CONSTANTS MaxSynthetic,   \* bound: orders added without an id, per scope
          MaxListed,      \* bound: orders resting at once
          SnapshotLists   \* per-order snapshots; nobody checks their sizes

ASSUME SnapshotAssumption == SnapshotLists \subseteq Seq(Orders)

VARIABLE book

BookInit == book = EmptyBook

LiveKeys == DOMAIN book.byId

\* applyAdd / applyAddGetKey with a scope; id 0 or idMissing gets a synthetic id.
ApplyAdd(id, scope, missing, side, price, size) ==
    /\ book' = AddScoped(book, id, scope, missing, side, price, size, 0)
    /\ book'.synth[scope] <= MaxSynthetic + 1
    /\ Cardinality(DOMAIN book'.byId) <= MaxListed

ApplyUpdate(k, newPrice, newSize) == book' = Update(book, k, newPrice, newSize)

ApplyDelete(k) == book' = Delete(book, k)

ApplyPriority(k, prio) == book' = Priority(book, k, prio)

ApplyTrade(price, qty, aggr) == book' = Trade(book, price, qty, aggr)

ApplySnapshotPerOrder(orders) == book' = SnapshotPerOrder(book, orders)

\* idMissing makes the id irrelevant, so one id is enough with it.
BookNext ==
    \/ \E id \in Ids, scope \in Scopes, s \in Sides, p \in Prices, z \in Sizes :
          ApplyAdd(id, scope, id = 0, s, p, z)
    \/ \E k \in LiveKeys, np \in Prices \cup {None}, nz \in Sizes \cup {0, None} :
          ApplyUpdate(k, np, nz)
    \/ \E k \in LiveKeys : ApplyDelete(k)
    \/ \E k \in LiveKeys, prio \in Priorities : ApplyPriority(k, prio)
    \/ \E p \in Prices, n \in Quantities, aggr \in {"buy", "sell", "unknown"} :
          ApplyTrade(p, n, aggr)
    \/ \E os \in SnapshotLists : ApplySnapshotPerOrder(os)

BookSpec == BookInit /\ [][BookNext]_book

-----------------------------------------------------------------------------
(* Properties                                                              *)

OrdersAt(s, p) == book.lad[s][p].orders

\* Type correctness of the book.
BookTypeOK ==
    /\ \A s \in Sides : /\ DOMAIN book.lad[s] \subseteq Prices
                        /\ \A p \in DOMAIN book.lad[s] :
                              /\ OrdersAt(s, p) \in Seq({o \in Orders : o.side = s /\ o.price = p})
                              /\ book.lad[s][p].total \in Nat
    /\ LiveKeys \subseteq Keys
    /\ \A k \in LiveKeys : book.byId[k] \in [side : Sides, price : Prices]
    /\ \A sc \in Scopes : book.synth[sc] \in Nat \ {0}

\* checkInvariants(), strengthened to a bijection: every level's running total
\* is the sum of its orders, no level is empty, and the index and the lists
\* name exactly the same orders, each once, at the same place.
LadderAndIndexAgree ==
    /\ \A s \in Sides : \A p \in DOMAIN book.lad[s] :
          LET os == OrdersAt(s, p)
          IN  /\ os # <<>>
              /\ book.lad[s][p].total = SizeSum(os)
              /\ \A i \in DOMAIN os :
                    /\ os[i].key \in LiveKeys
                    /\ book.byId[os[i].key] = [side |-> s, price |-> p]
                    /\ \A j \in DOMAIN os : os[j].key = os[i].key => i = j
    /\ \A k \in LiveKeys :
          LET loc == book.byId[k]
          IN  /\ loc.price \in DOMAIN book.lad[loc.side]
              /\ \E i \in DOMAIN OrdersAt(loc.side, loc.price) :
                    OrdersAt(loc.side, loc.price)[i].key = k

\* An order that arrives without an id never replaces another one: its
\* synthetic id is fresh even after trades, deletes and snapshots, because
\* nextSyntheticId never goes back.
SyntheticIsFresh ==
    [][ \A sc \in Scopes :
          book'.synth[sc] # book.synth[sc] =>
              /\ LiveKeys \subseteq DOMAIN book'.byId
              /\ Cardinality(DOMAIN book'.byId) = Cardinality(LiveKeys) + 1
              /\ \A k \in LiveKeys : Resting(book', k) = Resting(book, k) ]_book

\* The queues a book stands for: of each order its key and its size.
Entries(os) == [i \in DOMAIN os |-> [key |-> os[i].key, size |-> os[i].size]]

Queues(b) == [l \in Sides \X Prices |-> Entries(LevelAt(b, l[1], l[2]).orders)]

\* The keys an order can get here: its id's, a synthetic one, or a snapshot's.
GivenKeys ==
    {k \in [id : Ids \cup 1 .. MaxSynthetic, scope : Scopes, syn : BOOLEAN] :
        IF k.syn THEN k.id \in 1 .. MaxSynthetic ELSE k.id \in Ids \ {0}}
    \cup UNION {{os[i].key : i \in DOMAIN os} : os \in SnapshotLists}

\* The ladders, the index and the totals implement queues in time priority.
Abstract == INSTANCE AbstractBook WITH
    OrderKeys  <- GivenKeys,
    Levels     <- Sides \X Prices,
    OrderSizes <- Sizes,
    TradeSizes <- Quantities,
    Lists      <- SnapshotLists,
    queue      <- Queues(book)

ImplementsQueues == Abstract!Spec

=============================================================================

--------------------------- MODULE ItchFeedProofs ---------------------------
(***************************************************************************)
(* Proofs about WsFeedClient, for any limit on the reconnect delay and any *)
(* number of faults, and about ItchFeed, for any symbols, orders, prices   *)
(* and sizes.                                                              *)
(*                                                                         *)
(* OneChain is not inductive as it stands: that no operation is pending    *)
(* when the closure of start() runs needs that closure to be posted once,  *)
(* ahead of any other (PostedOnce).  Cardinality(pending) <= 1 is carried  *)
(* as "any two pending operations are the same" (AtMostOne).               *)
(*                                                                         *)
(* TrackingExact is not either: an order that names no symbol is tracked   *)
(* only if its locate is known, so the adapter's directory must be the     *)
(* venue's (Mirrored), and a reduction to nothing is told from a partial   *)
(* one on both sides by the same comparison only over whole shares         *)
(* (VenueShapes).                                                          *)
(*                                                                         *)
(* Nor is BookWithinTracking.  A resting order is told by the reference    *)
(* number it was tracked under, so no reference may serve twice            *)
(* (Tracking); a book without holes or double entries is BookOK, which     *)
(* OrderBookProofs shows every member to keep.  The books are seen as sets *)
(* of resting orders (Held), on which each event is a set operation.  What *)
(* a stale symbol's book holds is left open, and a refused order is in the *)
(* table only (Standing, RefusedTracks); each event is shown to carry the  *)
(* book of its symbol along with the table (Carries), each router to move  *)
(* both together (Heard) while the other symbols' stay (SameOf).           *)
(*                                                                         *)
(* That a book is complete until its symbol trades is the case 0 of        *)
(* ShortByVolumeAtMost, and TrackInv carries the general case: the shares  *)
(* tracked for a symbol at prices that are not refused and that its book   *)
(* is short of (Lack, the sum over these orders of Owed) are at most the   *)
(* volume its ticks reported (Backed).  A trade takes at most its quantity *)
(* from the book (TradeTakes), and no other event makes the book short of  *)
(* more.                                                                   *)
(***************************************************************************)
EXTENDS ItchFeed, OrderBookProofs

-----------------------------------------------------------------------------
(* The client                                                              *)

\* What the proof needs of the types.
Shapes ==
    /\ ingress \in {"new", "started", "stopping", "stopped"}
    /\ timer \in {"idle", "armed", "due", "aborted"}
    /\ stream \in Streams
    /\ pending \subseteq Operations

AtMostOne == \A a, b \in pending : a = b

\* start() is called once: its closure is the first to be posted.
PostedOnce ==
    /\ posted \in Seq({"resolve", "stop"})
    /\ ingress = "new" => posted = <<>> /\ pending = {}
    /\ \A k \in DOMAIN posted : posted[k] = "resolve" => k = 1

StartFirst == posted # <<>> /\ Head(posted) = "resolve" => pending = {}

WaitHasTimer == "wait" \in pending <=> timer # "idle"

ReadHasStream == "read" \in pending => stream \in {"open", "lost", "closing", "shut"}

Inv == Shapes /\ AtMostOne /\ PostedOnce /\ StartFirst /\ WaitHasTimer /\ ReadHasStream

\* Once the first closure has run, start()'s is no longer posted.
LEMMA RestOfPosted ==
    ASSUME PostedOnce, posted # <<>>, posted' = Tail(posted), UNCHANGED ingress
    PROVE  /\ ingress # "new" /\ PostedOnce'
           /\ posted' # <<>> => Head(posted') # "resolve"
<1>1. /\ posted \in Seq({"resolve", "stop"}) /\ DOMAIN posted = 1 .. Len(posted)
      /\ posted' \in Seq({"resolve", "stop"}) /\ ingress # "new"
  BY DEF PostedOnce
<1>2. \A k \in DOMAIN posted' : posted'[k] # "resolve"
  <2> SUFFICES ASSUME NEW k \in DOMAIN posted' PROVE posted'[k] # "resolve"  OBVIOUS
  <2>1. k + 1 \in DOMAIN posted /\ posted'[k] = posted[k + 1] /\ k + 1 # 1  BY <1>1
  <2> QED  BY <2>1 DEF PostedOnce
<1> QED  BY <1>1, <1>2 DEF PostedOnce

\* Nothing is posted or pending in a client that was only constructed.
LEMMA InitInv == Init => Inv
BY DEF Init, Inv, Shapes, Streams, AtMostOne, PostedOnce, StartFirst, WaitHasTimer, ReadHasStream

\* start(), and the two halves of stop(), on the main thread.
LEMMA MainInv == ASSUME Inv, Main PROVE Inv'
<1> USE DEF Inv, Shapes, Streams, AtMostOne, StartFirst, WaitHasTimer, ReadHasStream
<1>1. CASE Start
  <2>1. posted = <<>> /\ pending' = {} /\ ingress' = "started"
    BY <1>1 DEF Start, PostedOnce
  <2>2. /\ posted' \in Seq({"resolve", "stop"}) /\ Len(posted') = 1
        /\ DOMAIN posted' = 1 .. 1
    BY <1>1, <2>1 DEF Start
  <2> QED  BY <1>1, <2>1, <2>2 DEF Start, PostedOnce
<1>2. CASE StopFlag
  BY <1>2 DEF StopFlag, PostedOnce
<1>3. CASE StopPost
  <2>1. /\ posted \in Seq({"resolve", "stop"}) /\ posted' \in Seq({"resolve", "stop"})
        /\ DOMAIN posted' = 1 .. Len(posted) + 1 /\ posted'[Len(posted) + 1] = "stop"
        /\ DOMAIN posted = 1 .. Len(posted) /\ Len(posted) \in Nat
        /\ \A k \in DOMAIN posted : posted'[k] = posted[k]
    BY <1>3 DEF StopPost, PostedOnce
  <2>2. \A k \in DOMAIN posted' : posted'[k] = "resolve" => k = 1
    BY <2>1 DEF PostedOnce
  <2>3. posted' # <<>> /\ Head(posted') = "resolve" => pending' = {}
    <3>1. posted' # <<>> => Head(posted') = posted'[1]  BY <2>1
    <3>2. posted'[1] = "resolve" => posted # <<>> /\ Head(posted) = "resolve"  BY <2>1
    <3> QED  BY <1>3, <3>1, <3>2 DEF StopPost
  <2> QED  BY <1>3, <2>1, <2>2, <2>3 DEF StopPost, PostedOnce
<1> QED  BY <1>1, <1>2, <1>3 DEF Main

\* The closures of start() and stop(), the latter's close(), and the timer's callback.
LEMMA ClosureInv ==
    ASSUME Inv, RunStart \/ RunStop \/ CloseReturns \/ OnReconnectTimer PROVE Inv'
<1> USE DEF Inv, Shapes, Streams, AtMostOne, StartFirst, WaitHasTimer, ReadHasStream
<1>1. CASE RunStart
  <2>1. pending = {} /\ pending' \subseteq {"resolve"}
    BY <1>1 DEF RunStart, DoResolve, Continue
  <2>2. (Shapes /\ AtMostOne /\ WaitHasTimer /\ ReadHasStream)'
    BY <1>1, <2>1 DEF RunStart, DoResolve, Operations
  <2>3. (PostedOnce /\ StartFirst)'
    BY <1>1, RestOfPosted DEF RunStart
  <2> QED  BY <2>2, <2>3
<1>2. CASE RunStop
  <2>1. (Shapes /\ AtMostOne /\ WaitHasTimer /\ ReadHasStream)'
    BY <1>2 DEF RunStop, CloseIfOpen
  <2>2. (PostedOnce /\ StartFirst)'
    BY <1>2, RestOfPosted DEF RunStop
  <2> QED  BY <2>1, <2>2
<1>3. CASE OnReconnectTimer
  <2>1. pending' \subseteq {"resolve"}
    BY <1>3 DEF OnReconnectTimer, DoResolve, Continue
  <2>2. (Shapes /\ AtMostOne /\ WaitHasTimer /\ ReadHasStream)'
    BY <1>3, <2>1 DEF OnReconnectTimer, DoResolve, Operations
  <2>3. (PostedOnce /\ StartFirst)'
    BY <1>3 DEF OnReconnectTimer, PostedOnce
  <2> QED  BY <2>2, <2>3
<1>4. CASE CloseReturns
  BY <1>4 DEF CloseReturns, PostedOnce
<1> QED  BY <1>1, <1>2, <1>3, <1>4

\* A handler of a connection operation leaves the timer and the posted
\* closures alone, and starts the operation that follows or none.
LEMMA HandlerInv ==
    ASSUME Inv, NEW op \in pending, op # "wait",
           NEW next \in Operations \ {"wait"},
           pending' \in {{}, {next}},
           next = "read" => stream' \in {"open", "lost", "closing", "shut"},
           stream' \in Streams,
           UNCHANGED <<ingress, posted, timer>>
    PROVE  Inv'
BY DEF Inv, Shapes, AtMostOne, PostedOnce, StartFirst, WaitHasTimer, ReadHasStream

\* One step of the connection chain removes the operation it completes.
LEMMA AdvanceOne ==
    ASSUME Inv, NEW op \in Operations, NEW next \in Operations, Advance(op, next)
    PROVE  op \in pending /\ pending' \in {{}, {next}} /\ UNCHANGED <<ingress, posted, timer>>
BY DEF Inv, AtMostOne, Advance, Fail, Continue

\* The connection chain: resolve, connect, the two handshakes, subscribe, read.
LEMMA ChainInv ==
    ASSUME Inv, \/ OnResolve \/ OnTcpConnect \/ OnSslHandshake \/ OnWsHandshake
                \/ OnSubscribeWrite \/ OnReadMessage
    PROVE  Inv'
<1> USE DEF Operations
<1>0. stream \in Streams  BY DEF Inv, Shapes
<1>1. CASE OnResolve
  <2>1. Advance("resolve", "connect") /\ stream' \in Streams
    BY <1>0, <1>1 DEF OnResolve, Streams
  <2> QED  BY <2>1, AdvanceOne, HandlerInv
<1>2. CASE OnTcpConnect
  <2>1. PICK next \in {"ssl", "handshake"} : Advance("connect", next)
    BY <1>2 DEF OnTcpConnect
  <2>2. UNCHANGED stream  BY <1>2 DEF OnTcpConnect
  <2> QED  BY <1>0, <2>1, <2>2, AdvanceOne, HandlerInv
<1>3. CASE OnSslHandshake
  <2>1. Advance("ssl", "handshake") /\ UNCHANGED stream  BY <1>3 DEF OnSslHandshake
  <2> QED  BY <1>0, <2>1, AdvanceOne, HandlerInv
<1>4. CASE OnWsHandshake
  <2>1. /\ "handshake" \in pending /\ pending' \in {{}, {"write"}}
        /\ UNCHANGED <<ingress, posted, timer>> /\ stream' \in Streams
    BY <1>0, <1>4 DEF OnWsHandshake, Fail, Continue, Inv, AtMostOne, Streams
  <2> QED  BY <2>1, HandlerInv
<1>5. CASE OnSubscribeWrite
  <2>1. /\ "write" \in pending
        /\ pending' \in {{}, {"read"}} /\ (pending' # {} => stream = "open")
        /\ UNCHANGED <<ingress, posted, timer, stream>>
    BY <1>5 DEF OnSubscribeWrite, DoRead, Fail, Continue, Inv, AtMostOne
  <2> QED  BY <1>0, <2>1 DEF Inv, Shapes, AtMostOne, PostedOnce, StartFirst, WaitHasTimer, ReadHasStream
<1>6. CASE OnReadMessage
  <2>1. /\ "read" \in pending /\ pending' \in {{}, {"read"}}
        /\ UNCHANGED <<ingress, posted, timer, stream>> /\ stream = "open"
    BY <1>6 DEF OnReadMessage, DoRead, Continue, Inv, AtMostOne
  <2> QED  BY <1>0, <2>1, HandlerInv
<1> QED  BY <1>1, <1>2, <1>3, <1>4, <1>5, <1>6

\* A failed read ends its operation before the reconnect timer is armed.
LEMMA ReadErrorInv == ASSUME Inv, OnReadError PROVE Inv'
<1>1. "read" \in pending /\ UNCHANGED <<ingress, posted, stream>>
  BY DEF OnReadError
<1>2. \/ pending' = {} /\ UNCHANGED timer
      \/ pending' = {"wait"} /\ timer' = "armed"
  BY DEF OnReadError, Fail, ScheduleReconnect, Continue, Inv, AtMostOne
<1> QED  BY <1>1, <1>2 DEF Inv, Shapes, Operations, AtMostOne, PostedOnce, StartFirst, WaitHasTimer, ReadHasStream

\* The environment does not touch pending; it breaks an open stream only.
LEMMA EnvironmentInv == ASSUME Inv, Environment PROVE Inv'
BY DEF Environment, TimerExpires, PeerDown, PeerCloses, PeerUp, Break, Inv, Shapes,
       Streams, AtMostOne, PostedOnce, StartFirst, WaitHasTimer, ReadHasStream

\* Every step of the client, its main thread and its environment.
LEMMA NextInv == Inv /\ [Next]_vars => Inv'
<1> SUFFICES ASSUME Inv, [Next]_vars PROVE Inv'  OBVIOUS
<1>1. CASE Next
  BY <1>1, MainInv, ClosureInv, ChainInv, ReadErrorInv, EnvironmentInv DEF Next, Strand
<1>2. CASE UNCHANGED vars
  BY <1>2 DEF vars, Inv, Shapes, AtMostOne, PostedOnce, StartFirst, WaitHasTimer, ReadHasStream
<1> QED  BY <1>1, <1>2

\* A set in which any two members are equal has at most one.
LEMMA SmallSet == ASSUME NEW S, \A a, b \in S : a = b PROVE Cardinality(S) <= 1
<1>1. CASE S = {}  BY <1>1, FS_EmptySet
<1>2. CASE S # {}
  <2>1. PICK a \in S : S = {a}  BY <1>2
  <2> QED  BY <2>1, FS_Singleton
<1> QED  BY <1>1, <1>2

\* At most one asynchronous operation is outstanding, whatever the order in
\* which start(), stop(), the timer and the network act: never a read beside a
\* reconnect, and nothing before the closure of start() has run.
THEOREM ChainTheorem == Spec => []OneChain
<1>1. Inv => OneChain
  BY SmallSet DEF Inv, AtMostOne, StartFirst, WaitHasTimer, ReadHasStream, OneChain
<1> QED  BY <1>1, InitInv, NextInv, PTL DEF Spec

-----------------------------------------------------------------------------
(* The adapter and the venue                                               *)

\* The client's chain is as orderly with the adapter's messages in it.
THEOREM FeedChainTheorem == FeedSpec => []OneChain
<1>1. FeedInit => Inv  BY InitInv DEF FeedInit
<1>2. Inv /\ [FeedNext]_allVars => Inv'
  <2> SUFFICES ASSUME Inv, [FeedNext]_allVars PROVE Inv'  OBVIOUS
  <2>1. ASSUME NEW r, NEW learnt, Hear(r, learnt) PROVE OnReadMessage \/ UNCHANGED vars
    BY <2>1 DEF Hear
  <2>2. ASSUME VenueStep PROVE OnReadMessage \/ UNCHANGED vars
    BY <2>1, <2>2 DEF VenueStep, VenueDirectory, VenueAdd, VenueExecute, VenueCancel,
       VenueDelete, VenueReplace, VenueTrade
  <2>3. [Next]_vars
    BY <2>2 DEF FeedNext, ClientStep, Reset, Next, Strand, allVars
  <2> QED  BY <2>3, NextInv
<1>3. Inv => OneChain
  BY SmallSet DEF Inv, AtMostOne, StartFirst, WaitHasTimer, ReadHasStream, OneChain
<1> QED  BY <1>1, <1>2, <1>3, PTL DEF FeedSpec

\* An order with shares left.
Live == [sym : Symbols, side : Sides, price : VenuePrices, size : Nat \ {0}]

VenueShapes == venue \in [DOMAIN venue -> Live] /\ lost \in Nat

Mirrored == lost = 0 => orders = venue /\ known = announced

FeedInv == VenueShapes /\ Mirrored

\* A function with one entry added or replaced.
LEMMA WithType ==
    ASSUME NEW S, NEW f, f \in [DOMAIN f -> S], NEW k, NEW x \in S
    PROVE  With(f, k, x) \in [DOMAIN With(f, k, x) -> S]
BY DEF With

\* A function with one entry removed.
LEMMA WithoutType ==
    ASSUME NEW S, NEW f, f \in [DOMAIN f -> S], NEW k
    PROVE  Without(f, k) \in [DOMAIN Without(f, k) -> S]
BY DEF Without, Restrict

\* A message that is heard is applied, one that is not counts as lost.
LEMMA HearCases ==
    ASSUME lost \in Nat, NEW r, NEW learnt, Hear(r, learnt)
    PROVE  /\ lost' \in Nat
           /\ lost' = 0 => lost = 0 /\ orders' = r.orders /\ known' = known \cup learnt
BY DEF Hear, adapterVars

\* n shares less leave a live order or none.
LEMMA LessType ==
    ASSUME VenueShapes, NEW ref \in DOMAIN venue, NEW n \in Nat \ {0},
           n <= venue[ref].size, Less(ref, n)
    PROVE  venue' \in [DOMAIN venue' -> Live]
<1>1. CASE n = venue[ref].size
  BY <1>1, WithoutType DEF Less, VenueShapes
<1>2. CASE n # venue[ref].size
  <2>1. venue' = [venue EXCEPT ![ref].size = @ - n]  BY <1>2 DEF Less
  <2>2. venue[ref] \in Live /\ venue[ref].size - n \in Nat \ {0}
    BY <1>2 DEF VenueShapes, Live
  <2>3. [venue[ref] EXCEPT !.size = @ - n] \in Live  BY <2>2 DEF Live
  <2> QED  BY <2>1, <2>3 DEF VenueShapes
<1> QED  BY <1>1, <1>2

\* The adapter reduces its order as the venue does.
LEMMA LessMirrored ==
    ASSUME VenueShapes, NEW ref \in DOMAIN venue, NEW n \in Nat \ {0},
           n <= venue[ref].size, Less(ref, n), orders = venue
    PROVE  Reduce(orders, ref, n).orders = venue'
<1>1. venue[ref].size \in Nat  BY DEF VenueShapes, Live
<1>2. CASE n = venue[ref].size  BY <1>1, <1>2 DEF Less, Reduce
<1>3. CASE n # venue[ref].size
  <2>1. ~(n >= orders[ref].size)  BY <1>1, <1>3
  <2> QED  BY <1>3, <2>1 DEF Less, Reduce
<1> QED  BY <1>2, <1>3

\* One message of the venue, heard or lost.
LEMMA VenueInv == ASSUME FeedInv, VenueStep PROVE FeedInv'
<1>0. /\ lost \in Nat /\ venue \in [DOMAIN venue -> Live] /\ VenueShapes
      /\ VenueOrder \subseteq Live /\ Quantity \subseteq Nat \ {0}
      /\ Sizes \subseteq Nat \ {0}
  BY FeedAssumption, BookAssumption DEF FeedInv, VenueShapes, VenueOrder, Live, Quantity
<1>1. ASSUME NEW r, NEW learnt, Hear(r, learnt),
             venue' \in [DOMAIN venue' -> Live],
             lost = 0 => r.orders = venue' /\ known \cup learnt = announced'
      PROVE  FeedInv'
  <2>1. lost' \in Nat /\ (lost' = 0 => lost = 0 /\ orders' = r.orders /\ known' = known \cup learnt)
    BY <1>0, <1>1, HearCases
  <2> QED  BY <1>1, <2>1 DEF FeedInv, VenueShapes, Mirrored
<1>2. ASSUME NEW s \in Symbols, VenueDirectory(s) PROVE FeedInv'
  <2>1. Hear(RouteStockDirectory(orders, s), {s}) /\ venue' = venue /\ announced' = announced \cup {s}
    BY <1>2 DEF VenueDirectory
  <2>2. RouteStockDirectory(orders, s).orders = orders  BY DEF RouteStockDirectory
  <2> QED  BY <1>0, <1>1, <2>1, <2>2 DEF FeedInv, Mirrored
<1>3. ASSUME NEW ref \in fresh, NEW o \in VenueOrder, NEW named \in BOOLEAN,
             VenueAdd(ref, o, named)
      PROVE  FeedInv'
  <2>1. /\ Hear(RouteAddOrder(orders, known, ref, o, named), {})
        /\ venue' = With(venue, ref, o) /\ announced' = announced /\ o.sym \in announced
    BY <1>3 DEF VenueAdd
  <2>2. venue' \in [DOMAIN venue' -> Live]  BY <1>0, <2>1, WithType
  <2>3. ASSUME lost = 0
        PROVE  RouteAddOrder(orders, known, ref, o, named).orders = venue'
    <3>1. orders = venue /\ known = announced  BY <2>3 DEF FeedInv, Mirrored
    <3>2. Resolves(known, o.sym, named)  BY <2>1, <3>1 DEF Resolves
    <3> QED  BY <2>1, <3>1, <3>2 DEF RouteAddOrder
  <2>4. lost = 0 => known \cup {} = announced'  BY <2>1 DEF FeedInv, Mirrored
  <2> QED  BY <1>1, <2>1, <2>2, <2>3, <2>4
<1>4. ASSUME NEW ref \in DOMAIN venue, NEW n \in Quantity, VenueExecute(ref, n)
      PROVE  FeedInv'
  <2>1. /\ Hear(RouteOrderExecuted(orders, ref, n), {})
        /\ Less(ref, n) /\ announced' = announced /\ n <= venue[ref].size
    BY <1>4 DEF VenueExecute
  <2>2. venue' \in [DOMAIN venue' -> Live]  BY <1>0, <2>1, LessType
  <2>3. ASSUME lost = 0 PROVE RouteOrderExecuted(orders, ref, n).orders = venue'
    <3>1. orders = venue  BY <2>3 DEF FeedInv, Mirrored
    <3>2. Reduce(orders, ref, n).orders = venue'  BY <1>0, <2>1, <3>1, LessMirrored
    <3>3. RouteOrderExecuted(orders, ref, n).orders = Reduce(orders, ref, n).orders
      BY <3>1 DEF RouteOrderExecuted, Reduce
    <3> QED  BY <3>2, <3>3
  <2>4. lost = 0 => known \cup {} = announced'  BY <2>1 DEF FeedInv, Mirrored
  <2> QED  BY <1>1, <2>1, <2>2, <2>3, <2>4
<1>5. ASSUME NEW ref \in DOMAIN venue, NEW n \in Quantity, VenueCancel(ref, n)
      PROVE  FeedInv'
  <2>1. /\ Hear(RouteOrderCancel(orders, ref, n), {})
        /\ Less(ref, n) /\ announced' = announced /\ n <= venue[ref].size
    BY <1>5 DEF VenueCancel
  <2>2. venue' \in [DOMAIN venue' -> Live]  BY <1>0, <2>1, LessType
  <2>3. ASSUME lost = 0 PROVE RouteOrderCancel(orders, ref, n).orders = venue'
    <3>1. orders = venue  BY <2>3 DEF FeedInv, Mirrored
    <3>2. Reduce(orders, ref, n).orders = venue'  BY <1>0, <2>1, <3>1, LessMirrored
    <3> QED  BY <3>1, <3>2 DEF RouteOrderCancel
  <2>4. lost = 0 => known \cup {} = announced'  BY <2>1 DEF FeedInv, Mirrored
  <2> QED  BY <1>1, <2>1, <2>2, <2>3, <2>4
<1>6. ASSUME NEW ref \in DOMAIN venue, VenueDelete(ref) PROVE FeedInv'
  <2>1. /\ Hear(RouteOrderDelete(orders, ref), {})
        /\ venue' = Without(venue, ref) /\ announced' = announced
    BY <1>6 DEF VenueDelete
  <2>2. venue' \in [DOMAIN venue' -> Live]  BY <1>0, <2>1, WithoutType
  <2>3. lost = 0 => RouteOrderDelete(orders, ref).orders = venue'
    BY <2>1 DEF FeedInv, Mirrored, RouteOrderDelete
  <2>4. lost = 0 => known \cup {} = announced'  BY <2>1 DEF FeedInv, Mirrored
  <2> QED  BY <1>1, <2>1, <2>2, <2>3, <2>4
<1>7. ASSUME NEW orig \in DOMAIN venue, NEW ref \in fresh, NEW p \in VenuePrices, NEW z \in Sizes,
             VenueReplace(orig, ref, p, z)
      PROVE  FeedInv'
  <2> DEFINE new == [venue[orig] EXCEPT !.price = p, !.size = z]
  <2>1. /\ Hear(RouteOrderReplace(orders, orig, ref, p, z), {})
        /\ venue' = With(Without(venue, orig), ref, new) /\ announced' = announced
    BY <1>7 DEF VenueReplace
  <2>2. new \in Live  BY <1>0 DEF Live
  <2>3. venue' \in [DOMAIN venue' -> Live]
    <3>1. Without(venue, orig) \in [DOMAIN Without(venue, orig) -> Live]  BY <1>0, WithoutType
    <3> QED  BY <2>1, <2>2, <3>1, WithType
  <2>4. lost = 0 => RouteOrderReplace(orders, orig, ref, p, z).orders = venue'
    BY <2>1 DEF FeedInv, Mirrored, RouteOrderReplace
  <2>5. lost = 0 => known \cup {} = announced'  BY <2>1 DEF FeedInv, Mirrored
  <2> QED  BY <1>1, <2>1, <2>3, <2>4, <2>5
<1>8. ASSUME NEW t \in VenueOrder, NEW aggr, NEW named \in BOOLEAN, VenueTrade(t, aggr, named)
      PROVE  FeedInv'
  <2>1. /\ Hear(RouteTrade(orders, known, t, aggr, named), {})
        /\ venue' = venue /\ announced' = announced
    BY <1>8 DEF VenueTrade
  <2>2. RouteTrade(orders, known, t, aggr, named).orders = orders  BY DEF RouteTrade, Ignored
  <2>3. lost = 0 => known \cup {} = announced'  BY <2>1 DEF FeedInv, Mirrored
  <2> QED  BY <1>0, <1>1, <2>1, <2>2, <2>3 DEF FeedInv, Mirrored
<1> QED  BY <1>2, <1>3, <1>4, <1>5, <1>6, <1>7, <1>8 DEF VenueStep

\* ItchAdapter's orders_ equals the venue's list of live orders as long as every
\* message was heard, over any sequence of additions, executions, cancels,
\* deletions, replacements and trades, reconnections included.
THEOREM TrackingTheorem == FeedSpec => []TrackingExact
<1>1. FeedInit => FeedInv
  <2> SUFFICES ASSUME FeedInit PROVE FeedInv  OBVIOUS
  <2>1. /\ venue = <<>> /\ announced = {} /\ lost = 0 /\ orders = <<>> /\ known = {}
    BY DEF FeedInit
  <2>2. <<>> \in [DOMAIN <<>> -> Live]  OBVIOUS
  <2> QED  BY <2>1, <2>2 DEF FeedInv, VenueShapes, Mirrored
<1>2. FeedInv /\ [FeedNext]_allVars => FeedInv'
  <2> SUFFICES ASSUME FeedInv, [FeedNext]_allVars PROVE FeedInv'  OBVIOUS
  <2>1. CASE VenueStep  BY <2>1, VenueInv
  <2>2. CASE UNCHANGED feedVars
    BY <2>2 DEF feedVars, venueVars, adapterVars, FeedInv, VenueShapes, Mirrored
  <2>3. ASSUME NEW s \in Symbols, Reset(s) PROVE FeedInv'
    BY <2>3 DEF Reset, venueVars, FeedInv, VenueShapes, Mirrored
  <2> QED  BY <2>1, <2>2, <2>3 DEF FeedNext, ClientStep, allVars
<1>3. FeedInv => TrackingExact  BY DEF FeedInv, Mirrored, TrackingExact
<1> QED  BY <1>1, <1>2, <1>3, PTL DEF FeedSpec

-----------------------------------------------------------------------------
(* What a book holds, as a set                                             *)

\* The orders that rest in a book.
Held(b) == {o \in Orders : o \in Range(ListAt(b, o.side, o.price))}

\* A list without the order with key k.
LEMMA GoneRange ==
    ASSUME NEW b, BookOK(b), NEW k, NEW s \in Sides, NEW p \in Prices
    PROVE  Range(GoneAt(b, k, s, p)) = {o \in Range(ListAt(b, s, p)) : o.key # k}
<1> DEFINE os == ListAt(b, s, p)
           S == OrdersOf(s, p)
           lvl == LevelAt(b, s, p)
           i == Pos(os, k)
           z == Drop(os, k)
<1>1. /\ LevelOK(s, p, lvl) /\ os = lvl.orders
      /\ KeysOf(os) = KeysAt(b, s, p) /\ os \in Seq(S) /\ OneEach(os)
  BY ListOK DEF BookOK, ListAt
<1>2. CASE k \notin KeysAt(b, s, p)
  <2>1. GoneAt(b, k, s, p) = os  BY <1>2 DEF GoneAt
  <2>2. \A o \in Range(os) : o.key \in KeysOf(os)  BY DEF Range, KeysOf
  <2> QED  BY <1>1, <1>2, <2>1, <2>2
<1>3. CASE k \in KeysAt(b, s, p)
  <2>1. GoneAt(b, k, s, p) = z  BY <1>3 DEF GoneAt
  <2>2. Erased(S, os, k, i, z)
    <3> HIDE DEF lvl, S, i, z
    <3> QED  BY <1>1, <1>3, DropOK DEF S, i, z
  <2> HIDE DEF os, S, lvl
  <2>3. /\ i \in 1 .. Len(os) /\ os[i].key = k /\ z \in Seq(S)
        /\ KeysOf(z) = KeysOf(os) \ {k}
    BY <2>2 DEF Erased
  <2>4. Range(z) \subseteq Range(os)
    <3>1. z = RemoveAt(os, i)  BY DEF Drop
    <3> HIDE DEF z, i
    <3>2. /\ DOMAIN z = 1 .. Len(os) - 1
          /\ \A j \in 1 .. Len(os) - 1 : z[j] = IF j < i THEN os[j] ELSE os[j + 1]
      <4>1. os \in Seq(S) /\ i \in 1 .. Len(os)  BY <1>1, <2>3
      <4> HIDE DEF os, S
      <4>2. /\ DOMAIN RemoveAt(os, i) = 1 .. Len(os) - 1
            /\ \A j \in 1 .. Len(os) - 1 :
                  RemoveAt(os, i)[j] = IF j < i THEN os[j] ELSE os[j + 1]
        BY <4>1, RemoveAtFacts
      <4> QED  BY <3>1, <4>2, Zenon
    <3>3. Len(os) \in Nat /\ DOMAIN os = 1 .. Len(os)  BY <1>1
    <3>4. ASSUME NEW j \in DOMAIN z PROVE z[j] \in Range(os)
      <4>1. j \in 1 .. Len(os) /\ j + 1 \in 1 .. Len(os)  BY <3>2, <3>3
      <4> QED  BY <3>2, <3>3, <4>1 DEF Range
    <3> QED  BY <3>4 DEF Range
  <2> HIDE DEF z, i
  <2>5. \A o \in Range(z) : o.key \in KeysOf(z)  BY DEF Range, KeysOf
  <2>6. ASSUME NEW o \in Range(os), o.key # k PROVE o \in Range(z)
    <3>1. o.key \in KeysOf(z)  BY <2>3, <2>6 DEF Range, KeysOf
    <3>2. PICK j \in DOMAIN z : z[j].key = o.key  BY <3>1 DEF KeysOf
    <3>3. z[j] \in Range(z) /\ z[j] \in Range(os)  BY <2>4 DEF Range
    <3>4. z[j] = o  BY <1>1, <3>2, <3>3 DEF Range, OneEach
    <3> QED  BY <3>3, <3>4
  <2>7. Range(z) = {o \in Range(os) : o.key # k}  BY <2>3, <2>4, <2>5, <2>6
  <2> QED  BY <2>1, <2>7 DEF os
<1> QED  BY <1>2, <1>3

\* deleteImpl takes out the order with its key.
LEMMA DeleteHeld ==
    ASSUME NEW b, BookOK(b), NEW k
    PROVE  Held(Delete(b, k)) = {o \in Held(b) : o.key # k}
<1>1. ASSUME NEW o \in Orders
      PROVE  Range(ListAt(Delete(b, k), o.side, o.price))
                = {x \in Range(ListAt(b, o.side, o.price)) : x.key # k}
  <2>1. o.side \in Sides /\ o.price \in Prices  BY DEF Orders
  <2> QED  BY <2>1, DeleteList, GoneRange
<1> QED  BY <1>1 DEF Held

\* addImpl puts the order in the place of any with its key.
LEMMA AddHeld ==
    ASSUME NEW b, BookOK(b), NEW o \in Orders
    PROVE  Held(Add(b, o)) = {x \in Held(b) : x.key # o.key} \cup {o}
<1>1. o.side \in Sides /\ o.price \in Prices  BY DEF Orders
<1>2. ASSUME NEW x \in Orders
      PROVE  x \in Range(ListAt(Add(b, o), x.side, x.price))
                <=> (x \in Range(ListAt(b, x.side, x.price)) /\ x.key # o.key) \/ x = o
  <2> DEFINE z == GoneAt(b, o.key, x.side, x.price)
             S == OrdersOf(x.side, x.price)
  <2>1. x.side \in Sides /\ x.price \in Prices  BY DEF Orders
  <2>2. z \in Seq(S)  BY <2>1, GoneOK DEF BookOK
  <2>3. Range(z) = {y \in Range(ListAt(b, x.side, x.price)) : y.key # o.key}  BY <2>1, GoneRange
  <2>4. ListAt(Add(b, o), x.side, x.price)
           = IF x.side = o.side /\ x.price = o.price THEN Append(z, o) ELSE z
    BY <2>1, AddList DEF JoinedAt
  <2> HIDE DEF z
  <2>5. x.side = o.side /\ x.price = o.price => Range(Append(z, o)) = Range(z) \cup {o}
    <3> SUFFICES ASSUME x.side = o.side /\ x.price = o.price
                 PROVE  Range(Append(z, o)) = Range(z) \cup {o}
      OBVIOUS
    <3>1. o \in S  BY DEF OrdersOf
    <3> HIDE DEF S
    <3>2. /\ DOMAIN z = 1 .. Len(z) /\ DOMAIN Append(z, o) = 1 .. Len(z) + 1 /\ Len(z) \in Nat
          /\ \A j \in 1 .. Len(z) : Append(z, o)[j] = z[j]
          /\ Append(z, o)[Len(z) + 1] = o
      BY <2>2, <3>1
    <3> QED  BY <3>2 DEF Range
  <2> QED  BY <2>3, <2>4, <2>5
<1> QED  BY <1>2 DEF Held


\* An indexed order rests in the book, and every order in the book is indexed.
LEMMA HeldIndexed ==
    ASSUME NEW b, BookOK(b)
    PROVE  /\ \A k \in DOMAIN b.byId : Resting(b, k) \in Held(b) /\ Resting(b, k).key = k
           /\ \A o \in Held(b) : o.key \in DOMAIN b.byId /\ Resting(b, o.key) = o
<1>1. ASSUME NEW k \in DOMAIN b.byId
      PROVE  /\ Resting(b, k) \in Held(b) /\ Resting(b, k).key = k
             /\ Resting(b, k).side = b.byId[k].side /\ Resting(b, k).price = b.byId[k].price
  <2> DEFINE s == b.byId[k].side
             p == b.byId[k].price
             os == b.lad[s][p].orders
             S == OrdersOf(s, p)
             i == Pos(os, k)
  <2>1. Rests(b, k, s, p)  BY RestingOK
  <2>2. /\ s \in Sides /\ p \in Prices /\ p \in DOMAIN b.lad[s] /\ k \in KeysOf(os)
        /\ Resting(b, k) = os[i] /\ os \in Seq(S)
    BY <2>1 DEF Rests, LevelOK
  <2>3. ListAt(b, s, p) = os  BY <2>2 DEF ListAt, LevelAt
  <2> HIDE DEF os, s, p
  <2>4. i \in DOMAIN os /\ os[i].key = k
    <3>1. \E j \in DOMAIN os : os[j].key = k  BY <2>2 DEF KeysOf
    <3> QED  BY <3>1 DEF Pos
  <2> HIDE DEF i
  <2>5. os[i] \in S
    <3> HIDE DEF S
    <3> QED  BY <2>2, <2>4
  <2>6. os[i] \in Orders /\ os[i].side = s /\ os[i].price = p  BY <2>5 DEF OrdersOf
  <2>7. os[i] \in Range(os)  BY <2>4 DEF Range
  <2>8. os[i] \in Held(b)  BY <2>3, <2>6, <2>7 DEF Held
  <2> QED  BY <2>2, <2>4, <2>6, <2>8 DEF s, p
<1>2. ASSUME NEW o \in Held(b) PROVE o.key \in DOMAIN b.byId /\ Resting(b, o.key) = o
  <2> DEFINE s == o.side
             p == o.price
             os == ListAt(b, s, p)
             k == o.key
             x == Resting(b, k)
  <2>1. o \in Orders /\ s \in Sides /\ p \in Prices /\ o \in Range(os)  BY DEF Held, Orders
  <2>2. KeysOf(os) = KeysAt(b, s, p) /\ OneEach(os)  BY <2>1, ListOK DEF BookOK
  <2>3. k \in KeysOf(os)  BY <2>1 DEF Range, KeysOf
  <2>4. k \in DOMAIN b.byId /\ b.byId[k] = Loc(s, p)
    <3> HIDE DEF k, s, p
    <3> QED  BY <2>1, <2>2, <2>3 DEF BookOK, Indexed
  <2>5. x \in Held(b) /\ x.key = k /\ x.side = s /\ x.price = p
    <3>1. b.byId[k].side = s /\ b.byId[k].price = p  BY <2>4 DEF Loc
    <3> HIDE DEF k, s, p, x
    <3> QED  BY <1>1, <2>4, <3>1 DEF x
  <2>6. x \in Range(os)  BY <2>5 DEF Held
  <2>7. x = o  BY <2>1, <2>2, <2>5, <2>6 DEF Range, OneEach
  <2> QED  BY <2>4, <2>7
<1> QED  BY <1>1, <1>2

\* No order rests in an empty book.
LEMMA EmptyHeld == Held(EmptyBook) = {}
<1> SUFFICES ASSUME NEW o \in Orders, o \in Range(ListAt(EmptyBook, o.side, o.price)) PROVE FALSE
  BY DEF Held
<1>1. o.side \in Sides  BY DEF Orders
<1>2. DOMAIN EmptyBook.lad[o.side] = {}  BY <1>1 DEF EmptyBook
<1>3. ListAt(EmptyBook, o.side, o.price) = <<>>  BY <1>2 DEF ListAt, LevelAt, NewLevel
<1> QED  BY <1>3 DEF Range

\* updateImpl with a new size and no new price resizes the order, if it rests at all.
LEMMA ResizeHeld ==
    ASSUME NEW b, BookOK(b), NEW k, NEW z \in Nat \ {0}
    PROVE  Held(Update(b, k, None, z))
              = {o \in Held(b) : o.key # k}
                \cup {[o EXCEPT !.size = z] : o \in {x \in Held(b) : x.key = k}}
<1> DEFINE c == Update(b, k, None, z)
<1>1. CASE k \notin DOMAIN b.byId
  <2>1. c = b  BY <1>1 DEF Update, Located
  <2>2. \A o \in Held(b) : o.key # k  BY <1>1, HeldIndexed
  <2> QED  BY <2>1, <2>2
<1>2. CASE k \in DOMAIN b.byId
  <2> DEFINE r == Resting(b, k)
             tgt == Updated(r, None, z)
  <2>1. r \in Held(b) /\ r.key = k /\ \A o \in Held(b) : o.key = k => o = r
    BY <1>2, HeldIndexed
  <2>2. /\ r \in Orders /\ r.key = k /\ tgt \in Orders /\ tgt.key = k /\ tgt.side = r.side
        /\ tgt.price = r.price /\ tgt.size = z /\ ResizedAt(b, c, tgt)
    <3>1. z # None /\ z \in Nat \cup {None} /\ None \in Prices \cup {None}  BY AdapterAssumption
    <3>2. Target(None, r.price) = r.price /\ Target(z, r.size) = z  BY <3>1 DEF Target
    <3> HIDE DEF r, tgt, c
    <3>3. /\ r \in Orders /\ r.key = k /\ tgt \in Orders /\ tgt.key = k /\ tgt.side = r.side
          /\ tgt.size = Target(z, r.size) /\ tgt.price = Target(None, r.price)
          /\ \/ tgt.size = 0 /\ c = Delete(b, k)
             \/ tgt.size # 0 /\ tgt.price = r.price /\ ResizedAt(b, c, tgt)
             \/ tgt.size # 0 /\ tgt.price # r.price /\ JoinedAt(b, c, tgt)
      BY <1>2, <3>1, UpdateList DEF r, tgt, c
    <3> QED  BY <3>2, <3>3
  <2>3. tgt = [r EXCEPT !.size = z]
    <3>1. tgt \in Orders /\ [r EXCEPT !.size = z] \in Orders
      <4> HIDE DEF r, tgt
      <4> QED  BY <2>2 DEF Orders
    <3>2. tgt.prio = r.prio  BY <2>2 DEF Updated, Orders
    <3> HIDE DEF r, tgt
    <3> QED  BY <2>2, <3>1, <3>2 DEF Orders
  <2> HIDE DEF r, tgt, c
  <2>4. ASSUME NEW x \in Orders
        PROVE  x \in Held(c) <=> (x \in Held(b) /\ x.key # k) \/ x = tgt
    <3> DEFINE os == ListAt(b, x.side, x.price)
               i == Pos(os, k)
               S == OrdersOf(x.side, x.price)
    <3>1. x.side \in Sides /\ x.price \in Prices  BY DEF Orders
    <3>2. os \in Seq(S) /\ OneEach(os)  BY <3>1, ListOK DEF BookOK
    <3>3. CASE x.side = tgt.side /\ x.price = tgt.price
      <4>1. r \in Range(os)  BY <2>1, <2>2, <3>3 DEF Held
      <4>2. ListAt(c, x.side, x.price) = [os EXCEPT ![i] = tgt]  BY <2>2, <3>1, <3>3 DEF ResizedAt
      <4>3. i \in DOMAIN os /\ os[i].key = k
        <5>1. \E j \in DOMAIN os : os[j].key = k  BY <2>1, <4>1 DEF Range
        <5> HIDE DEF os
        <5> QED  BY <5>1 DEF Pos
      <4> HIDE DEF i, os
      <4>4. \A y : y \in Range([os EXCEPT ![i] = tgt]) <=> (y \in Range(os) /\ y.key # k) \/ y = tgt
        BY <2>2, <3>2, <4>3 DEF Range, OneEach
      <4> QED  BY <4>2, <4>4 DEF Held, os
    <3>4. CASE ~(x.side = tgt.side /\ x.price = tgt.price)
      <4>1. ListAt(c, x.side, x.price) = os  BY <2>2, <3>1, <3>4 DEF ResizedAt
      <4>2. x # tgt /\ (x \in Held(b) => x.key # k)  BY <2>1, <2>2, <3>4
      <4> QED  BY <4>1, <4>2 DEF Held
    <3> QED  BY <3>3, <3>4
  <2>5. Held(c) \subseteq Orders /\ Held(b) \subseteq Orders  BY DEF Held
  <2>6. Held(c) = {o \in Held(b) : o.key # k} \cup {tgt}  BY <2>2, <2>4, <2>5
  <2>7. {x \in Held(b) : x.key = k} = {r}  BY <2>1
  <2> QED  BY <2>3, <2>6, <2>7 DEF c
<1> QED  BY <1>1, <1>2

\* x is what is left of an order y.
PartOf(x, y) == x.key = y.key /\ x.side = y.side /\ x.price = y.price /\ x.size <= y.size

\* The orders at the other places, as a set.
LEMMA UnspentRange ==
    ASSUME NEW S, NEW os \in Seq(S), OneEach(os), NEW spent \in SUBSET DOMAIN os
    PROVE  Range(Unspent(os, spent)) = {os[i] : i \in DOMAIN os \ spent}
<1> DEFINE z == Unspent(os, spent)
           R == Range(os)
<1>1. os \in Seq(R)
  <2>1. Len(os) \in Nat /\ DOMAIN os = 1 .. Len(os) /\ os = [i \in 1 .. Len(os) |-> os[i]]  OBVIOUS
  <2>2. \A i \in 1 .. Len(os) : os[i] \in R  BY <2>1 DEF Range
  <2> QED  BY <2>1, <2>2
<1> HIDE DEF R, z
<1>2. z \in Seq(R) /\ KeysOf(z) = KeysOf(os) \ {os[i].key : i \in spent}  BY <1>1, UnspentOK DEF z
<1>3. ASSUME NEW x \in Range(z) PROVE \E i \in DOMAIN os \ spent : x = os[i]
  <2>1. x \in R /\ x.key \in KeysOf(z)  BY <1>2 DEF Range, KeysOf
  <2>2. PICK i \in DOMAIN os : x = os[i]  BY <2>1 DEF R, Range
  <2>3. i \notin spent  BY <1>2, <2>1, <2>2
  <2> QED  BY <2>2, <2>3
<1>4. ASSUME NEW i \in DOMAIN os \ spent PROVE os[i] \in Range(z)
  <2>1. os[i].key \in KeysOf(os) /\ \A l \in spent : os[l].key # os[i].key
    BY DEF KeysOf, OneEach
  <2>2. PICK l \in DOMAIN z : z[l].key = os[i].key  BY <1>2, <2>1 DEF KeysOf
  <2>3. z[l] \in Range(z)  BY DEF Range
  <2>4. PICK m \in DOMAIN os \ spent : z[l] = os[m]  BY <1>3, <2>3
  <2>5. m = i  BY <2>2, <2>4 DEF OneEach
  <2> QED  BY <2>3, <2>4, <2>5
<1> QED  BY <1>3, <1>4 DEF z

\* consumeAtLevel, on the set of resting orders.
LEMMA ConsumeHeld ==
    ASSUME NEW b, BookOK(b), NEW s \in Sides, NEW p \in Prices, p \in DOMAIN b.lad[s], NEW qty \in Nat,
           NEW os, os = ListAt(b, s, p)
    PROVE  Held(Consume(b, s, p, qty))
              = {x \in Held(b) : ~(x.side = s /\ x.price = p)}
                \cup {Fill(os, qty)[i] : i \in DOMAIN os \ Spent(os, qty)}
<1> DEFINE c == Consume(b, s, p, qty)
           S == OrdersOf(s, p)
           cut == Fill(os, qty)
           spent == Spent(os, qty)
<1>1. os \in Seq(S) /\ OneEach(os)  BY ListOK DEF BookOK
<1>2. /\ cut \in Seq(S) /\ DOMAIN cut = DOMAIN os
      /\ \A i \in DOMAIN os : cut[i].key = os[i].key
  <2>1. os \in Seq(OrdersOf(s, p))  BY <1>1
  <2> QED  BY ONLY <2>1, qty \in Nat, FillOK
<1>3. OneEach(cut)  BY <1>1, <1>2 DEF OneEach
<1>4. spent \in SUBSET DOMAIN cut  BY <1>2 DEF Spent
<1>5. \A t \in Sides, q \in Prices :
        ListAt(c, t, q) = IF t = s /\ q = p THEN Unspent(cut, spent) ELSE ListAt(b, t, q)
  BY ConsumeList
<1>6. \A i \in DOMAIN os : cut[i] \in Orders /\ cut[i].side = s /\ cut[i].price = p
  <2> SUFFICES ASSUME NEW i \in DOMAIN os PROVE cut[i] \in S  BY DEF OrdersOf
  <2> HIDE DEF S, cut
  <2> QED  BY <1>2
<1> HIDE DEF c, cut, spent, S
<1>7. Range(Unspent(cut, spent)) = {cut[i] : i \in DOMAIN os \ spent}  BY <1>2, <1>3, <1>4, UnspentRange
<1>8. ASSUME NEW x \in Orders
      PROVE  x \in Held(c) <=> \/ x \in Held(b) /\ ~(x.side = s /\ x.price = p)
                               \/ x \in {cut[i] : i \in DOMAIN os \ spent}
  <2>1. x.side \in Sides /\ x.price \in Prices  BY DEF Orders
  <2>2. CASE x.side = s /\ x.price = p
    <3>1. ListAt(c, x.side, x.price) = Unspent(cut, spent)  BY <1>5, <2>1, <2>2
    <3> QED  BY <1>7, <2>2, <3>1 DEF Held
  <2>3. CASE ~(x.side = s /\ x.price = p)
    <3>1. ListAt(c, x.side, x.price) = ListAt(b, x.side, x.price)  BY <1>5, <2>1, <2>3
    <3>2. x \notin {cut[i] : i \in DOMAIN os \ spent}  BY <1>6, <2>3
    <3> QED  BY <2>3, <3>1, <3>2 DEF Held
  <2> QED  BY <2>2, <2>3
<1>9. Held(c) \subseteq Orders /\ Held(b) \subseteq Orders  BY DEF Held
<1>10. {cut[i] : i \in DOMAIN os \ spent} \subseteq Orders  BY <1>6
<1>11. Held(c) = {x \in Held(b) : ~(x.side = s /\ x.price = p)} \cup {cut[i] : i \in DOMAIN os \ spent}
  BY <1>8, <1>9, <1>10
<1> QED  BY <1>11 DEF c, cut, spent

\* What a trade takes from each order of a level, of which there is not more than its quantity.
LEMMA FillTakes ==
    ASSUME NEW s, NEW p, NEW os \in Seq(OrdersOf(s, p)), NEW qty \in Nat,
           NEW g, g = [i \in 1 .. Len(os) |-> os[i].size - Fill(os, qty)[i].size]
    PROVE  /\ \A i \in 1 .. Len(os) : g[i] \in Nat /\ Fill(os, qty)[i].size \in Nat
           /\ SumFunctionOnSet(g, 1 .. Len(os)) <= qty
<1> DEFINE n == Len(os)
           S == OrdersOf(s, p)
           Sum(R) == SumFunctionOnSet(g, R)
<1>1. Sized(os)  BY LevelSized
<1>2. n \in Nat /\ DOMAIN os = 1 .. n /\ \A i \in 1 .. n : os[i].size \in Nat  BY <1>1 DEF Sized
<1>3. PICK f : SumsOf(f, os)  BY <1>1, SumsExist
<1>4. f \in [0 .. n -> Int] /\ f[0] = 0 /\ \A i \in 1 .. n : f[i] = f[i - 1] + os[i].size
  BY <1>3 DEF SumsOf
<1>5. ASSUME NEW i \in 0 .. n PROVE f[i] \in Nat
  <2>1. 0 \in 0 .. n /\ 0 <= i  BY <1>2
  <2>2. f[0] <= f[i] /\ f[i] \in Int  BY <1>1, <1>3, <2>1, SumsGrow
  <2> QED  BY <1>4, <2>2
<1>6. ASSUME NEW i \in 1 .. n
      PROVE  Fill(os, qty)[i].size = Minus(os[i].size, Minus(qty, f[i - 1]))
  <2>1. i - 1 \in 0 .. n /\ i \in DOMAIN os  BY <1>2
  <2>2. SizeSum(SubSeq(os, 1, i - 1)) = f[i - 1]
    <3>1. os \in Seq(S)  OBVIOUS
    <3> HIDE DEF S
    <3> QED  BY <1>3, <2>1, <3>1, SumPrefix
  <2> DEFINE y == Minus(qty, f[i - 1])
             o == os[i]
  <2>3. Fill(os, qty)[i] = [o EXCEPT !.size = Minus(o.size, y)]  BY <2>1, <2>2 DEF Fill
  <2>4. o \in Orders
    <3>1. o \in S
      <4>1. os \in Seq(S)  OBVIOUS
      <4> HIDE DEF S
      <4> QED  BY <1>2, <2>1, <4>1
    <3> QED  BY <3>1 DEF OrdersOf
  <2> HIDE DEF y, o
  <2>5. Fill(os, qty)[i].size = Minus(o.size, y)  BY <2>3, <2>4 DEF Orders
  <2> QED  BY <2>5 DEF y, o
<1>7. ASSUME NEW i \in 1 .. n
      PROVE  /\ g[i] = os[i].size - Minus(os[i].size, Minus(qty, f[i - 1])) /\ g[i] \in Nat
             /\ Fill(os, qty)[i].size \in Nat
  <2>1. g[i] = os[i].size - Fill(os, qty)[i].size  OBVIOUS
  <2>2. f[i - 1] \in Nat /\ os[i].size \in Nat
    <3>1. i - 1 \in 0 .. n  BY <1>2
    <3> QED  BY <1>2, <1>5, <3>1
  <2> QED  BY <1>6, <2>1, <2>2 DEF Minus
<1> DEFINE P == {k \in 0 .. n : Sum(1 .. k) = f[k] - Minus(f[k], qty)}
<1> HIDE DEF n
<1>8. 0 \in P
  <2>1. 1 .. 0 = {} /\ IsFiniteSet({})  BY FS_EmptySet
  <2>2. Sum(1 .. 0) = 0  BY <2>1, SumFirst
  <2>3. f[0] - Minus(f[0], qty) = 0  BY <1>4 DEF Minus
  <2> QED  BY <1>2, <2>2, <2>3
<1>9. ASSUME NEW k \in 0 .. n - 1, k \in P PROVE k + 1 \in P
  <2>1. k + 1 \in 1 .. n /\ k + 1 \in 0 .. n /\ k \in 0 .. n /\ (k + 1) - 1 = k  BY <1>2
  <2>2. (1 .. k + 1) \ {k + 1} = 1 .. k /\ k + 1 \in 1 .. k + 1  BY <2>1
  <2>3. Sum(1 .. k + 1) = g[k + 1] + Sum(1 .. k)
    <3>1. IsFiniteSet(1 .. k + 1)  BY <2>1, FS_Interval
    <3>2. \A i \in 1 .. k + 1 : g[i] \in Nat
      <4>1. \A i \in 1 .. k + 1 : i \in 1 .. n  BY <1>2, <2>1
      <4> QED  BY <1>7, <4>1
    <3>3. Takes(g, 1 .. k + 1)  BY <3>1, <3>2, SumTakes
    <3> QED  BY <2>2, <3>3 DEF Takes
  <2>4. g[k + 1] = os[k + 1].size - Minus(os[k + 1].size, Minus(qty, f[k]))  BY <1>7, <2>1
  <2>5. f[k + 1] = f[k] + os[k + 1].size /\ f[k] \in Nat /\ os[k + 1].size \in Nat  BY <1>2, <1>4, <1>5, <2>1
  <2>6. Sum(1 .. k) = f[k] - Minus(f[k], qty)  BY <1>9
  <2> HIDE DEF Sum
  <2>7. Sum(1 .. k + 1) = f[k + 1] - Minus(f[k + 1], qty)  BY <2>3, <2>4, <2>5, <2>6 DEF Minus
  <2> QED  BY <2>1, <2>7
<1>10. 0 .. n \subseteq P
  <2> HIDE DEF P
  <2> QED  BY <1>2, <1>8, <1>9, UpTo
<1>11. n \in P /\ f[n] \in Nat  BY <1>2, <1>5, <1>10
<1>12. Sum(1 .. n) <= qty
  <2> HIDE DEF Sum
  <2> QED  BY <1>11 DEF Minus
<1> QED  BY <1>7, <1>12 DEF n

\* A trade leaves parts of orders that rested before.
LEMMA TradeHeld ==
    ASSUME NEW b, BookOK(b), NEW p \in Prices, NEW qty \in Nat, NEW aggr
    PROVE  \A x \in Held(Trade(b, p, qty, aggr)) : \E y \in Held(b) : PartOf(x, y)
<1> DEFINE s == Passive(b, p, aggr)
           c == Trade(b, p, qty, aggr)
<1>0. \A x \in Held(b) : PartOf(x, x)
  <2> TAKE x \in Held(b)
  <2>1. x.size \in Nat  BY DEF Held, Orders
  <2> QED  BY <2>1 DEF PartOf
<1>1. CASE c = b  BY <1>0, <1>1
<1>2. CASE c # b
  <2>1. s \in Sides /\ c = Consume(b, s, p, qty)
    <3>1. s \in Sides \cup {None}  BY DEF Passive, Sides
    <3> QED  BY <1>2, <3>1 DEF Trade
  <2> HIDE DEF s, c
  <2>2. p \in DOMAIN b.lad[s]  BY <1>2, <2>1 DEF Consume
  <2> DEFINE os == ListAt(b, s, p)
             cut == Fill(os, qty)
             g == [i \in 1 .. Len(os) |-> os[i].size - cut[i].size]
  <2>3. Held(c) = {x \in Held(b) : ~(x.side = s /\ x.price = p)}
                  \cup {cut[i] : i \in DOMAIN os \ Spent(os, qty)}
    BY <2>1, <2>2, ConsumeHeld
  <2>4. os \in Seq(OrdersOf(s, p))  BY <2>1, ListOK DEF BookOK
  <2>5. /\ DOMAIN os = 1 .. Len(os) /\ Len(os) \in Nat /\ \A i \in 1 .. Len(os) : os[i].size \in Nat
    BY <2>4, LevelSized DEF Sized
  <2>6. \A i \in 1 .. Len(os) : g[i] \in Nat /\ cut[i].size \in Nat
    <3> HIDE DEF os
    <3> QED  BY <2>4, FillTakes
  <2>7. ASSUME NEW i \in DOMAIN os PROVE os[i] \in Held(b) /\ PartOf(cut[i], os[i])
    <3> DEFINE S == OrdersOf(s, p)
    <3>1. cut \in Seq(S) /\ DOMAIN cut = DOMAIN os /\ cut[i].key = os[i].key
      <4>1. os \in Seq(OrdersOf(s, p))  BY <2>4
      <4> HIDE DEF os
      <4> QED  BY <4>1, FillOK
    <3>2. os[i] \in S /\ cut[i] \in S
      <4>1. os \in Seq(S)  BY <2>4
      <4> HIDE DEF S, os, cut
      <4> QED  BY <3>1, <4>1
    <3>3. /\ os[i] \in Orders /\ os[i].side = s /\ os[i].price = p
          /\ cut[i].side = s /\ cut[i].price = p
      BY <3>2 DEF OrdersOf
    <3>4. g[i] = os[i].size - cut[i].size  BY <2>5
    <3>5. cut[i].size <= os[i].size
      <4> HIDE DEF os, cut, g
      <4> QED  BY <2>5, <2>6, <3>4
    <3>6. os[i] \in Range(os)  BY DEF Range
    <3> QED  BY <3>1, <3>3, <3>5, <3>6 DEF Held, PartOf
  <2> HIDE DEF os, cut
  <2>8. \A x \in Held(c) : x \in Held(b) \/ \E i \in DOMAIN os : x = cut[i]  BY <2>3
  <2> QED  BY <1>0, <2>7, <2>8 DEF c
<1> QED  BY <1>1, <1>2

-----------------------------------------------------------------------------
(* Books over a table of orders                                            *)

\* Order x of a book is what is left of order o, tracked under ref.
Stands(x, ref, o) ==
    /\ x.key = BookKey(ref) /\ x.side = o.side /\ x.size <= o.size
    /\ \E t \in TickSizes : x.price = ToTicks(t, o.price)

\* Every order of the book of symbol s is tracked in f.
Within(b, f, s) == \A x \in Held(b) : \E r \in DOMAIN f : f[r].sym = s /\ Stands(x, r, f[r])

\* Two tables with the same orders of s.
SameOf(f, g, s) ==
    /\ \A r \in DOMAIN f : f[r].sym = s => r \in DOMAIN g /\ g[r] = f[r]
    /\ \A r \in DOMAIN g : g[r].sym = s => r \in DOMAIN f /\ g[r] = f[r]

\* The key of an order tells its reference.
LEMMA KeyTells ==
    /\ \A r, q : BookKey(r) = BookKey(q) => r = q
    /\ \A r \in Nat : BookKey(r) \in Keys /\ BookKey(r).id = r
<1>1. \A r : BookKey(r).id = r  BY DEF BookKey, Key
<1>2. \A r \in Nat : BookKey(r) \in Keys  BY AdapterAssumption DEF BookKey, Key, Keys
<1> QED  BY <1>1, <1>2

\* The shares that rest under key k.
Left(b, k) == IF k \in DOMAIN b.byId THEN Resting(b, k).size ELSE 0

\* Left, read off the set of resting orders.
LEMMA LeftIs ==
    ASSUME NEW b, BookOK(b)
    PROVE  /\ \A x \in Held(b) : Left(b, x.key) = x.size
           /\ \A k : (\A x \in Held(b) : x.key # k) => Left(b, k) = 0
           /\ \A k : Left(b, k) \in Nat
<1>1. /\ \A k \in DOMAIN b.byId : Resting(b, k) \in Held(b) /\ Resting(b, k).key = k
      /\ \A o \in Held(b) : o.key \in DOMAIN b.byId /\ Resting(b, o.key) = o
  BY HeldIndexed
<1>2. \A x \in Held(b) : x.size \in Nat  BY DEF Held, Orders
<1> QED  BY <1>1, <1>2 DEF Left

\* What consumeAtLevel leaves under each key.
LEMMA ConsumeLeft ==
    ASSUME NEW b, BookOK(b), NEW s \in Sides, NEW p \in Prices, p \in DOMAIN b.lad[s], NEW qty \in Nat,
           NEW os, os = ListAt(b, s, p), NEW c, c = Consume(b, s, p, qty), NEW k
    PROVE  /\ \A i \in DOMAIN os :
                 os[i].key = k => Left(b, k) = os[i].size /\ Left(c, k) = Fill(os, qty)[i].size
           /\ k \notin KeysOf(os) => Left(c, k) = Left(b, k)
<1> DEFINE cut == Fill(os, qty)
           spent == Spent(os, qty)
           new == {cut[i] : i \in DOMAIN os \ spent}
<1>1. os \in Seq(OrdersOf(s, p)) /\ OneEach(os)  BY ListOK DEF BookOK
<1>2. /\ cut \in Seq(OrdersOf(s, p)) /\ DOMAIN cut = DOMAIN os
      /\ \A i \in DOMAIN os : cut[i].key = os[i].key
  BY <1>1, FillOK
<1>3. Held(c) = {x \in Held(b) : ~(x.side = s /\ x.price = p)} \cup new  BY ConsumeHeld
<1>4. BookOK(c)  BY ConsumeOK
<1>5. \A i \in DOMAIN os : os[i] \in Held(b) /\ os[i].side = s /\ os[i].price = p
  <2> SUFFICES ASSUME NEW i \in DOMAIN os
               PROVE  os[i] \in Held(b) /\ os[i].side = s /\ os[i].price = p
    OBVIOUS
  <2>1. os[i] \in OrdersOf(s, p)
    <3> DEFINE S == OrdersOf(s, p)
    <3>1. os \in Seq(S)  BY <1>1
    <3> HIDE DEF S
    <3>2. os[i] \in S  BY <3>1
    <3> QED  BY <3>2 DEF S
  <2>2. os[i] \in Range(os)  BY DEF Range
  <2> QED  BY <2>1, <2>2 DEF OrdersOf, Held
<1>6. \A i \in spent : i \in DOMAIN os /\ cut[i].size = 0  BY DEF Spent
<1>7. \A x, y \in Held(b) : x.key = y.key => x = y  BY HeldIndexed
<1> HIDE DEF cut, spent
<1>8. ASSUME NEW i \in DOMAIN os, os[i].key = k PROVE Left(b, k) = os[i].size /\ Left(c, k) = cut[i].size
  <2>1. Left(b, k) = os[i].size  BY <1>5, <1>8, LeftIs
  <2>2. CASE i \notin spent
    <3>1. cut[i] \in Held(c) /\ cut[i].key = k  BY <1>2, <1>3, <1>8, <2>2
    <3> QED  BY <1>4, <2>1, <3>1, LeftIs
  <2>3. CASE i \in spent
    <3>1. ASSUME NEW x \in Held(c), x.key = k PROVE FALSE
      <4>1. CASE x \in Held(b) /\ ~(x.side = s /\ x.price = p)
        <5>1. x = os[i]  BY <1>5, <1>7, <1>8, <3>1, <4>1
        <5> QED  BY <1>5, <4>1, <5>1
      <4>2. CASE x \in new
        <5>1. PICK l \in DOMAIN os \ spent : x = cut[l]  BY <4>2
        <5>2. os[l].key = os[i].key  BY <1>2, <1>8, <3>1, <5>1
        <5>3. l = i  BY <1>1, <5>2 DEF OneEach
        <5> QED  BY <2>3, <5>1, <5>3
      <4> HIDE DEF new
      <4> QED  BY <1>3, <4>1, <4>2
    <3>2. Left(c, k) = 0  BY <1>4, <3>1, LeftIs
    <3> QED  BY <1>6, <2>1, <2>3, <3>2
  <2> QED  BY <2>2, <2>3
<1>9. ASSUME k \notin KeysOf(os) PROVE Left(c, k) = Left(b, k)
  <2>1. \A x \in new : x.key # k  BY <1>2, <1>9 DEF KeysOf
  <2>2. ASSUME NEW x \in Held(b), x.key = k PROVE x \in Held(c)
    <3>1. ~(x.side = s /\ x.price = p)
      <4>1. ASSUME x.side = s, x.price = p PROVE x.key \in KeysOf(os)
        <5>1. x \in Range(os)  BY <4>1 DEF Held
        <5> QED  BY <5>1 DEF Range, KeysOf
      <4> QED  BY <1>9, <2>2, <4>1
    <3> QED  BY <1>3, <3>1
  <2>3. \A x \in Held(c) : x.key = k => x \in Held(b)  BY <1>3, <2>1
  <2>4. CASE \E x \in Held(b) : x.key = k
    <3>1. PICK x \in Held(b) : x.key = k  BY <2>4
    <3>2. Left(b, k) = x.size /\ x \in Held(c)  BY <2>2, <3>1, LeftIs
    <3> QED  BY <1>4, <3>1, <3>2, LeftIs
  <2>5. CASE \A x \in Held(b) : x.key # k
    <3>1. \A x \in Held(c) : x.key # k  BY <2>3, <2>5
    <3>2. Left(b, k) = 0  BY <2>5, LeftIs
    <3>3. Left(c, k) = 0  BY <1>4, <3>1, LeftIs
    <3> QED  BY <3>2, <3>3
  <2> QED  BY <2>4, <2>5
<1> QED  BY <1>8, <1>9 DEF cut

\* A trade takes no more than its quantity, whatever orders one looks at.
LEMMA TradeTakes ==
    ASSUME NEW b, BookOK(b), NEW p \in Prices, NEW qty \in Nat, NEW aggr, NEW c, c = Trade(b, p, qty, aggr),
           NEW T, IsFiniteSet(T), NEW d, d = [r \in T |-> Left(b, BookKey(r)) - Left(c, BookKey(r))]
    PROVE  /\ \A r \in T : d[r] \in Nat
           /\ SumFunctionOnSet(d, T) \in Nat /\ SumFunctionOnSet(d, T) <= qty
<1> DEFINE s == Passive(b, p, aggr)
<1>1. \A k : Left(b, k) \in Nat  BY LeftIs
<1>2. CASE c = b
  <2>1. \A r \in T : d[r] = 0  BY <1>1, <1>2
  <2> DEFINE E == {}
             g == [x \in E |-> 0]
             Sum == SumFunctionOnSet(d, T)
  <2>2. IsFiniteSet(E)  BY FS_EmptySet
  <2>3. SumFunctionOnSet(g, E) = 0  BY <2>2, SumFirst
  <2>4. Covers(g, d, T, g, E)  BY <2>1 DEF Covers
  <2> HIDE DEF E, g
  <2>5. \A x \in E : g[x] \in Nat  BY DEF E
  <2>6. \A r \in T : d[r] \in Nat  BY <2>1
  <2>7. Sum <= SumFunctionOnSet(g, E)  BY <2>2, <2>4, <2>5, <2>6, SumCovered
  <2>8. Sum \in Nat  BY <2>6, SumNatural
  <2> HIDE DEF Sum
  <2>9. Sum <= qty  BY <2>3, <2>7, <2>8
  <2> QED  BY <2>6, <2>8, <2>9 DEF Sum
<1>3. CASE c # b
  <2>1. s \in Sides /\ c = Consume(b, s, p, qty)
    <3>1. s \in Sides \cup {None}  BY DEF Passive, Sides
    <3> QED  BY <1>3, <3>1 DEF Trade
  <2> HIDE DEF s
  <2>2. p \in DOMAIN b.lad[s]  BY <1>3, <2>1 DEF Consume
  <2> DEFINE os == ListAt(b, s, p)
             n == Len(os)
             cut == Fill(os, qty)
             g == [i \in 1 .. n |-> os[i].size - cut[i].size]
             j == [r \in T |-> Pos(os, BookKey(r))]
             Sum == SumFunctionOnSet(d, T)
  <2>3. os \in Seq(OrdersOf(s, p)) /\ OneEach(os)  BY <2>1, ListOK DEF BookOK
  <2>4. DOMAIN os = 1 .. n /\ n \in Nat  BY <2>3, LevelSized DEF Sized
  <2>5. ASSUME NEW k
        PROVE  /\ \A i \in DOMAIN os : os[i].key = k => Left(b, k) = os[i].size /\ Left(c, k) = cut[i].size
               /\ k \notin KeysOf(os) => Left(c, k) = Left(b, k)
    <3> HIDE DEF os, cut
    <3> QED  BY <2>1, <2>2, ConsumeLeft DEF os, cut
  <2>6. (\A i \in 1 .. n : g[i] \in Nat) /\ SumFunctionOnSet(g, 1 .. n) <= qty
    <3> HIDE DEF os
    <3> QED  BY <2>3, FillTakes
  <2>7. \A i \in 1 .. n : g[i] = os[i].size - cut[i].size  OBVIOUS
  <2> HIDE DEF os, cut, g, n
  <2>8. ASSUME NEW r \in T
        PROVE  \/ d[r] = 0
               \/ j[r] \in 1 .. n /\ os[j[r]].key = BookKey(r) /\ d[r] = g[j[r]]
    <3> DEFINE k == BookKey(r)
    <3>1. d[r] = Left(b, k) - Left(c, k)  OBVIOUS
    <3> HIDE DEF k
    <3>2. CASE k \notin KeysOf(os)  BY <1>1, <2>5, <3>1, <3>2
    <3>3. CASE k \in KeysOf(os)
      <4> DEFINE i == Pos(os, k)
      <4>1. i \in DOMAIN os /\ os[i].key = k
        <5>1. \E l \in DOMAIN os : os[l].key = k  BY <3>3 DEF KeysOf
        <5> QED  BY <5>1 DEF Pos
      <4>2. j[r] = i  BY DEF k
      <4> HIDE DEF i, j
      <4>3. d[r] = g[i]  BY <2>4, <2>5, <2>7, <3>1, <4>1
      <4> QED  BY <2>4, <4>1, <4>2, <4>3 DEF k
    <3> QED  BY <3>2, <3>3
  <2> HIDE DEF j
  <2>9. \A r \in T : d[r] \in Nat  BY <2>6, <2>8
  <2>10. Covers(j, d, T, g, 1 .. n)
    <3>1. \A r \in T : d[r] # 0 => j[r] \in 1 .. n /\ d[r] <= g[j[r]]  BY <2>6, <2>8
    <3>2. \A r, q \in T : d[r] # 0 /\ d[q] # 0 /\ j[r] = j[q] => r = q
      <4>1. \A r, q : BookKey(r) = BookKey(q) => r = q  BY KeyTells
      <4> QED  BY <2>8, <4>1
    <3> QED  BY <3>1, <3>2 DEF Covers
  <2>11. IsFiniteSet(1 .. n)  BY <2>4, FS_Interval
  <2>12. Sum <= SumFunctionOnSet(g, 1 .. n)  BY <2>6, <2>9, <2>10, <2>11, SumCovered
  <2>13. Sum \in Nat /\ SumFunctionOnSet(g, 1 .. n) \in Nat  BY <2>6, <2>9, <2>11, SumNatural
  <2> DEFINE G == SumFunctionOnSet(g, 1 .. n)
  <2> HIDE DEF Sum, G
  <2>14. Sum <= G /\ G <= qty /\ Sum \in Nat /\ G \in Nat  BY <2>6, <2>12, <2>13 DEF G
  <2>15. Sum <= qty  BY <2>14
  <2> QED  BY <2>9, <2>14, <2>15 DEF Sum
<1> QED  BY <1>2, <1>3

\* Two books that hold the same under a key.
LEMMA SameLeft ==
    ASSUME NEW b, BookOK(b), NEW c, BookOK(c), NEW k,
           \A x : x.key = k => (x \in Held(b) <=> x \in Held(c))
    PROVE  Left(c, k) = Left(b, k)
<1>1. CASE \E x \in Held(b) : x.key = k
  <2>1. PICK x \in Held(b) : x.key = k  BY <1>1
  <2>2. x \in Held(c)  BY <2>1
  <2>3. Left(b, k) = x.size  BY <2>1, LeftIs
  <2>4. Left(c, k) = x.size  BY <2>1, <2>2, LeftIs
  <2> QED  BY <2>3, <2>4
<1>2. CASE \A x \in Held(b) : x.key # k
  <2>1. \A x \in Held(c) : x.key # k  BY <1>2
  <2>2. Left(b, k) = 0  BY <1>2, LeftIs
  <2>3. Left(c, k) = 0  BY <2>1, LeftIs
  <2> QED  BY <2>2, <2>3
<1> QED  BY <1>1, <1>2

\* A table of live orders.
Table(f) == f \in [DOMAIN f -> Live] /\ IsFiniteSet(DOMAIN f)

\* The shares of each tracked order that are not in the book, and all those of a
\* symbol's orders that no tick size refuses.
Owed(b, f) == [r \in DOMAIN f |-> f[r].size - Left(b, BookKey(r))]

Lack(b, f, s) == SumFunctionOnSet(Owed(b, f), QuotedOf(f, s))

\* An order that joins the table ...
LEMMA TableWith == ASSUME NEW f, Table(f), NEW r, NEW o \in Live PROVE Table(With(f, r, o))
<1>1. DOMAIN With(f, r, o) = DOMAIN f \cup {r}  BY DEF With
<1>2. IsFiniteSet(DOMAIN f \cup {r})  BY FS_AddElement DEF Table
<1> QED  BY <1>1, <1>2, WithType DEF Table

\* ... and one that leaves it.
LEMMA TableWithout == ASSUME NEW f, Table(f), NEW r PROVE Table(Without(f, r))
<1>1. DOMAIN Without(f, r) = DOMAIN f \ {r}  BY DEF Without, Restrict
<1>2. IsFiniteSet(DOMAIN f \ {r})  BY FS_Subset DEF Table
<1> QED  BY <1>1, <1>2, WithoutType DEF Table

\* No order of a book within the table has more shares than are tracked.
LEMMA LackNat ==
    ASSUME NEW b, BookOK(b), NEW f, Table(f), NEW s, Within(b, f, s)
    PROVE  /\ IsFiniteSet(QuotedOf(f, s)) /\ Lack(b, f, s) \in Nat
           /\ \A r \in QuotedOf(f, s) : Owed(b, f)[r] \in Nat
<1>1. IsFiniteSet(QuotedOf(f, s))  BY FS_Subset DEF Table, QuotedOf
<1>2. ASSUME NEW r \in QuotedOf(f, s) PROVE Owed(b, f)[r] \in Nat
  <2>1. r \in DOMAIN f /\ f[r].size \in Nat  BY DEF QuotedOf, Table, Live
  <2>2. Owed(b, f)[r] = f[r].size - Left(b, BookKey(r))  BY <2>1 DEF Owed
  <2>3. CASE \E x \in Held(b) : x.key = BookKey(r)
    <3>1. PICK x \in Held(b) : x.key = BookKey(r)  BY <2>3
    <3>2. PICK q \in DOMAIN f : Stands(x, q, f[q])  BY DEF Within
    <3>3. x.size <= f[r].size  BY <3>1, <3>2, KeyTells DEF Stands
    <3>4. Left(b, BookKey(r)) = x.size /\ x.size \in Nat  BY <3>1, LeftIs DEF Held, Orders
    <3> QED  BY <2>1, <2>2, <3>3, <3>4
  <2>4. CASE \A x \in Held(b) : x.key # BookKey(r)
    <3>1. Left(b, BookKey(r)) = 0  BY <2>4, LeftIs
    <3> QED  BY <2>1, <2>2, <3>1
  <2> QED  BY <2>3, <2>4
<1> QED  BY <1>1, <1>2, SumNatural DEF Lack

\* Nothing is owed that was not owed before.
LEMMA LackLess ==
    ASSUME NEW s, NEW b, BookOK(b), NEW f, Table(f), Within(b, f, s),
           NEW c, BookOK(c), NEW g, Table(g), Within(c, g, s),
           \A r \in QuotedOf(g, s) : \/ Owed(c, g)[r] = 0
                                     \/ r \in QuotedOf(f, s) /\ Owed(c, g)[r] <= Owed(b, f)[r]
    PROVE  Lack(c, g, s) <= Lack(b, f, s)
<1> DEFINE K == QuotedOf(g, s)
           R == QuotedOf(f, s)
           d == Owed(c, g)
           e == Owed(b, f)
           j == [r \in K |-> r]
<1>1. IsFiniteSet(K) /\ \A r \in K : d[r] \in Nat  BY LackNat
<1>2. IsFiniteSet(R) /\ \A r \in R : e[r] \in Nat  BY LackNat
<1>3. \A r \in K : d[r] = 0 \/ (r \in R /\ d[r] <= e[r])  OBVIOUS
<1> HIDE DEF K, R, d, e
<1>4. Covers(j, d, K, e, R)  BY <1>3 DEF Covers
<1> HIDE DEF j
<1>5. SumFunctionOnSet(d, K) <= SumFunctionOnSet(e, R)  BY <1>1, <1>2, <1>4, SumCovered
<1> QED  BY <1>5 DEF Lack, K, R, d, e

\* An order that leaves the table leaves the book.
LEMMA DeleteTracks ==
    ASSUME NEW b, BookOK(b), NEW s, NEW f, Table(f), Within(b, f, s), NEW r,
           NEW c, c = Delete(b, BookKey(r)), NEW g, g = Without(f, r)
    PROVE  BookOK(c) /\ Within(c, g, s) /\ Lack(c, g, s) <= Lack(b, f, s)
<1>1. BookOK(c)  BY DeleteOK
<1>2. Held(c) = {x \in Held(b) : x.key # BookKey(r)}  BY DeleteHeld
<1>3. DOMAIN g = DOMAIN f \ {r} /\ \A q \in DOMAIN g : g[q] = f[q]  BY DEF Without, Restrict
<1> HIDE DEF Held
<1>4. Within(c, g, s)
  <2> SUFFICES ASSUME NEW x \in Held(c) PROVE \E q \in DOMAIN g : g[q].sym = s /\ Stands(x, q, g[q])
    BY DEF Within
  <2>1. x \in Held(b) /\ x.key # BookKey(r)  BY <1>2
  <2>2. PICK q \in DOMAIN f : f[q].sym = s /\ Stands(x, q, f[q])  BY <2>1 DEF Within
  <2>3. q # r  BY <2>1, <2>2 DEF Stands
  <2> QED  BY <1>3, <2>2, <2>3
<1>5. ASSUME NEW q \in QuotedOf(g, s) PROVE q \in QuotedOf(f, s) /\ Owed(c, g)[q] = Owed(b, f)[q]
  <2>1. q \in DOMAIN g /\ q \in DOMAIN f /\ q # r /\ g[q] = f[q] /\ g[q].sym = s  BY <1>3 DEF QuotedOf
  <2>2. \A x : x.key = BookKey(q) => (x \in Held(b) <=> x \in Held(c))  BY <1>2, <2>1, KeyTells
  <2>3. Left(c, BookKey(q)) = Left(b, BookKey(q))  BY <1>1, <2>2, SameLeft
  <2> QED  BY <2>1, <2>3 DEF QuotedOf, Owed
<1>6. Table(g)  BY TableWithout
<1>7. Lack(c, g, s) <= Lack(b, f, s)
  <2>1. \A q \in QuotedOf(f, s) : Owed(b, f)[q] \in Nat  BY LackNat
  <2> QED  BY <1>1, <1>4, <1>5, <1>6, <2>1, LackLess
<1> QED  BY <1>1, <1>4, <1>7

\* A new order enters the table and the book.
LEMMA AddTracks ==
    ASSUME NEW b, BookOK(b), NEW s, NEW f, Table(f), Within(b, f, s), NEW r \in Nat, r \notin DOMAIN f,
           NEW o \in Live, o.sym = s, NEW t \in TickSizes, NEW p \in Prices, p = ToTicks(t, o.price),
           NEW c, c = Add(b, Order(BookKey(r), o.side, p, o.size, 0)), NEW g, g = With(f, r, o)
    PROVE  BookOK(c) /\ Within(c, g, s) /\ Lack(c, g, s) <= Lack(b, f, s)
<1> DEFINE y == Order(BookKey(r), o.side, p, o.size, 0)
<1>1. /\ y \in Orders /\ y.key = BookKey(r) /\ y.side = o.side /\ y.price = ToTicks(t, o.price)
      /\ y.size = o.size /\ y.size \in Nat
  <2>1. o.side \in Sides /\ o.size \in Nat  BY DEF Live
  <2>2. BookKey(r) \in Keys  BY KeyTells
  <2> QED  BY <2>1, <2>2 DEF Order, Orders
<1> HIDE DEF y
<1>2. c = Add(b, y)  BY DEF y
<1>3. BookOK(c)  BY <1>1, <1>2, AddOK
<1>4. Held(c) = {x \in Held(b) : x.key # BookKey(r)} \cup {y}  BY <1>1, <1>2, AddHeld
<1>5. DOMAIN g = DOMAIN f \cup {r} /\ g[r] = o /\ \A q \in DOMAIN f : g[q] = f[q]  BY DEF With
<1>6. Within(c, g, s)
  <2> SUFFICES ASSUME NEW x \in Held(c) PROVE \E q \in DOMAIN g : g[q].sym = s /\ Stands(x, q, g[q])
    BY DEF Within
  <2>1. CASE x = y
    <3>1. Stands(x, r, o)  BY <1>1, <2>1 DEF Stands
    <3> QED  BY <1>5, <3>1
  <2>2. CASE x # y
    <3>1. x \in Held(b)  BY <1>4, <2>2
    <3>2. PICK q \in DOMAIN f : f[q].sym = s /\ Stands(x, q, f[q])  BY <3>1 DEF Within
    <3> QED  BY <1>5, <3>2
  <2> QED  BY <2>1, <2>2
<1>7. Table(g)  BY TableWith
<1>8. ASSUME NEW q \in QuotedOf(g, s)
      PROVE  Owed(c, g)[q] = 0 \/ (q \in QuotedOf(f, s) /\ Owed(c, g)[q] = Owed(b, f)[q])
  <2>1. CASE q = r
    <3>1. Left(c, BookKey(r)) = o.size  BY <1>1, <1>3, <1>4, LeftIs
    <3>2. Owed(c, g)[q] = o.size - o.size  BY <1>5, <2>1, <3>1 DEF Owed
    <3>3. o.size \in Nat  BY DEF Live
    <3>4. o.size - o.size = 0  BY <3>3
    <3> QED  BY <3>2, <3>4
  <2>2. CASE q # r
    <3>1. q \in DOMAIN g /\ q \in DOMAIN f /\ g[q] = f[q] /\ f[q].sym = s  BY <1>5, <2>2 DEF QuotedOf
    <3>2. \A x : x.key = BookKey(q) => (x \in Held(b) <=> x \in Held(c))
      <4>1. BookKey(q) # BookKey(r)  BY <2>2, KeyTells
      <4> QED  BY <1>1, <1>4, <4>1
    <3>3. Left(c, BookKey(q)) = Left(b, BookKey(q))  BY <1>3, <3>2, SameLeft
    <3> QED  BY <3>1, <3>3 DEF QuotedOf, Owed
  <2> QED  BY <2>1, <2>2
<1>9. Lack(c, g, s) <= Lack(b, f, s)
  <2>1. \A q \in QuotedOf(f, s) : Owed(b, f)[q] \in Nat  BY LackNat
  <2> QED  BY <1>3, <1>6, <1>7, <1>8, <2>1, LackLess
<1> QED  BY <1>3, <1>6, <1>9

\* An order with a price that may be refused enters the table only.
LEMMA RefusedTracks ==
    ASSUME NEW b, BookOK(b), NEW s, NEW f, Table(f), Within(b, f, s), NEW r, r \notin DOMAIN f,
           NEW o \in Live, ~Quoted(o.price), NEW g, g = With(f, r, o)
    PROVE  Within(b, g, s) /\ Lack(b, g, s) <= Lack(b, f, s)
<1>1. DOMAIN g = DOMAIN f \cup {r} /\ g[r] = o /\ \A q \in DOMAIN f : g[q] = f[q]  BY DEF With
<1>2. Within(b, g, s)  BY <1>1 DEF Within
<1>3. Table(g)  BY TableWith
<1>4. ASSUME NEW q \in QuotedOf(g, s)
      PROVE  q \in QuotedOf(f, s) /\ Owed(b, g)[q] = Owed(b, f)[q]
  <2>1. q \in DOMAIN f /\ q \in DOMAIN g /\ g[q] = f[q] /\ f[q].sym = s /\ Quoted(f[q].price)
    BY <1>1 DEF QuotedOf
  <2> QED  BY <2>1 DEF QuotedOf, Owed
<1>5. Lack(b, g, s) <= Lack(b, f, s)
  <2>1. \A q \in QuotedOf(f, s) : Owed(b, f)[q] \in Nat  BY LackNat
  <2> QED  BY <1>2, <1>3, <1>4, <2>1, LackLess
<1> QED  BY <1>2, <1>5

\* An order that is reduced has the new size in the table and, if it rests, in the book.
LEMMA ResizeTracks ==
    ASSUME NEW b, BookOK(b), NEW s, NEW f, Table(f), Within(b, f, s),
           NEW r \in DOMAIN f, f[r].sym = s, NEW z \in Nat \ {0}, z <= f[r].size,
           NEW c, c = Update(b, BookKey(r), None, z),
           NEW g, g = [f EXCEPT ![r] = [f[r] EXCEPT !.size = z]]
    PROVE  BookOK(c) /\ Within(c, g, s) /\ Lack(c, g, s) <= Lack(b, f, s)
<1> DEFINE o == [f[r] EXCEPT !.size = z]
<1>1. BookOK(c)  BY UpdateOK
<1>2. Held(c) = {x \in Held(b) : x.key # BookKey(r)}
                \cup {[x EXCEPT !.size = z] : x \in {y \in Held(b) : y.key = BookKey(r)}}
  BY ResizeHeld
<1>3. f[r] \in Live  BY DEF Table
<1>4. o.sym = s /\ o.side = f[r].side /\ o.price = f[r].price /\ o.size = z  BY <1>3 DEF Live
<1> HIDE DEF o
<1>5. DOMAIN g = DOMAIN f /\ g[r] = o /\ \A q \in DOMAIN f : q # r => g[q] = f[q]  BY DEF o
<1>6. ASSUME NEW x \in Held(b), x.key = BookKey(r)
      PROVE  /\ [x EXCEPT !.size = z] \in Held(c) /\ Stands([x EXCEPT !.size = z], r, o)
             /\ [x EXCEPT !.size = z].key = BookKey(r) /\ [x EXCEPT !.size = z].size = z
  <2>1. [x EXCEPT !.size = z] \in Held(c)  BY <1>2, <1>6
  <2>2. PICK q \in DOMAIN f : f[q].sym = s /\ Stands(x, q, f[q])  BY <1>6 DEF Within
  <2>3. q = r  BY <1>6, <2>2, KeyTells DEF Stands
  <2>4. x \in Orders /\ x.side = f[r].side /\ \E t \in TickSizes : x.price = ToTicks(t, f[r].price)
    BY <2>2, <2>3 DEF Stands, Held
  <2> DEFINE y == [x EXCEPT !.size = z]
  <2>5. y.key = x.key /\ y.side = x.side /\ y.price = x.price /\ y.size = z  BY <2>4 DEF Orders
  <2> HIDE DEF y
  <2>6. Stands(y, r, o)  BY <1>4, <1>6, <2>4, <2>5 DEF Stands
  <2> QED  BY <1>6, <2>1, <2>5, <2>6 DEF y
<1>7. Within(c, g, s)
  <2> SUFFICES ASSUME NEW x \in Held(c) PROVE \E q \in DOMAIN g : g[q].sym = s /\ Stands(x, q, g[q])
    BY DEF Within
  <2>1. CASE x \in Held(b) /\ x.key # BookKey(r)
    <3>1. PICK q \in DOMAIN f : f[q].sym = s /\ Stands(x, q, f[q])  BY <2>1 DEF Within
    <3>2. q # r  BY <2>1, <3>1 DEF Stands
    <3> QED  BY <1>5, <3>1, <3>2
  <2>2. CASE ~(x \in Held(b) /\ x.key # BookKey(r))
    <3>1. PICK y \in Held(b) : y.key = BookKey(r) /\ x = [y EXCEPT !.size = z]  BY <1>2, <2>2
    <3>2. Stands(x, r, o)  BY <1>6, <3>1
    <3> QED  BY <1>4, <1>5, <3>2
  <2> QED  BY <2>1, <2>2
<1>8. Table(g)
  <2>1. o \in Live  BY <1>3 DEF o, Live
  <2>2. g = [f EXCEPT ![r] = o]  BY DEF o
  <2> QED  BY <1>5, <2>1, <2>2 DEF Table
<1>9. ASSUME NEW q \in QuotedOf(g, s)
      PROVE  Owed(c, g)[q] = 0 \/ (q \in QuotedOf(f, s) /\ Owed(c, g)[q] <= Owed(b, f)[q])
  <2>0. /\ \A k : Left(b, k) \in Nat /\ Left(c, k) \in Nat
        /\ q \in DOMAIN f /\ Owed(c, g)[q] = g[q].size - Left(c, BookKey(q))
        /\ Owed(b, f)[q] = f[q].size - Left(b, BookKey(q))
    BY <1>1, <1>5, LeftIs DEF QuotedOf, Owed
  <2>1. CASE q = r /\ \E x \in Held(b) : x.key = BookKey(r)
    <3>1. PICK x \in Held(b) : x.key = BookKey(r)  BY <2>1
    <3> DEFINE y == [x EXCEPT !.size = z]
    <3>2. y \in Held(c) /\ y.key = BookKey(r) /\ y.size = z  BY <1>6, <3>1
    <3> HIDE DEF y
    <3>3. Left(c, BookKey(r)) = z  BY <1>1, <3>2, LeftIs
    <3>4. g[r].size = z  BY <1>4, <1>5
    <3>5. Owed(c, g)[q] = z - z  BY <2>0, <2>1, <3>3, <3>4
    <3>6. z - z = 0  OBVIOUS
    <3> QED  BY <3>5, <3>6
  <2>2. CASE q = r /\ \A x \in Held(b) : x.key # BookKey(r)
    <3>1. \A x \in Held(c) : x.key # BookKey(r)  BY <1>2, <2>2
    <3>2. Left(b, BookKey(r)) = 0  BY <2>2, LeftIs
    <3>3. Left(c, BookKey(r)) = 0  BY <1>1, <3>1, LeftIs
    <3>4. f[r].size \in Nat  BY <1>3 DEF Live
    <3> QED  BY <1>4, <1>5, <2>0, <2>2, <3>2, <3>3, <3>4 DEF QuotedOf
  <2>3. CASE q # r
    <3>1. q \in QuotedOf(f, s) /\ g[q] = f[q]  BY <1>5, <2>0, <2>3 DEF QuotedOf
    <3>2. \A x : x.key = BookKey(q) => (x \in Held(b) <=> x \in Held(c))
      <4>1. BookKey(q) # BookKey(r)  BY <2>3, KeyTells
      <4>2. \A y \in Held(b) : y.key = BookKey(r) => [y EXCEPT !.size = z].key = BookKey(r)  BY <1>6
      <4> QED  BY <1>2, <4>1, <4>2
    <3>3. Left(c, BookKey(q)) = Left(b, BookKey(q))  BY <1>1, <3>2, SameLeft
    <3>4. f[q].size \in Nat  BY <2>0 DEF Table, Live
    <3> QED  BY <2>0, <3>1, <3>3, <3>4
  <2> QED  BY <2>1, <2>2, <2>3
<1>10. Lack(c, g, s) <= Lack(b, f, s)  BY <1>1, <1>7, <1>8, <1>9, LackLess
<1> QED  BY <1>1, <1>7, <1>10

\* A trade takes shares from the book only.
LEMMA TradeTracks ==
    ASSUME NEW b, BookOK(b), NEW s, NEW f, Table(f), Within(b, f, s),
           NEW p \in Prices, NEW n \in Nat, NEW aggr, NEW c, c = Trade(b, p, n, aggr)
    PROVE  BookOK(c) /\ Within(c, f, s) /\ Lack(c, f, s) <= Lack(b, f, s) + n
<1>1. BookOK(c)  BY TradeOK
<1>2. Within(c, f, s)
  <2> SUFFICES ASSUME NEW x \in Held(c) PROVE \E q \in DOMAIN f : f[q].sym = s /\ Stands(x, q, f[q])
    BY DEF Within
  <2>1. PICK y \in Held(b) : PartOf(x, y)  BY TradeHeld
  <2>2. PICK q \in DOMAIN f : f[q].sym = s /\ Stands(y, q, f[q])  BY DEF Within
  <2>3. x.size \in Nat /\ y.size \in Nat /\ f[q].size \in Nat  BY DEF Held, Orders, Table, Live
  <2>4. Stands(x, q, f[q])  BY <2>1, <2>2, <2>3 DEF Stands, PartOf
  <2> QED  BY <2>2, <2>4
<1> DEFINE T == QuotedOf(f, s)
           d == [r \in T |-> Left(b, BookKey(r)) - Left(c, BookKey(r))]
           B == SumFunctionOnSet(Owed(b, f), T)
           C == SumFunctionOnSet(Owed(c, f), T)
           D == SumFunctionOnSet(d, T)
<1>3. IsFiniteSet(T) /\ B \in Nat /\ \A r \in T : Owed(b, f)[r] \in Nat  BY LackNat DEF Lack
<1>4. (\A r \in T : d[r] \in Nat) /\ SumFunctionOnSet(d, T) \in Nat /\ SumFunctionOnSet(d, T) <= n
  <2>1. PICK e : e = d  OBVIOUS
  <2>2. e = [r \in T |-> Left(b, BookKey(r)) - Left(c, BookKey(r))]  BY <2>1
  <2> HIDE DEF T, d
  <2>3. (\A r \in T : e[r] \in Nat) /\ SumFunctionOnSet(e, T) \in Nat /\ SumFunctionOnSet(e, T) <= n
    BY <1>3, <2>2, TradeTakes
  <2> QED  BY <2>1, <2>3
<1>5. D \in Nat /\ D <= n  BY <1>4
<1>6. \A r \in T : Owed(c, f)[r] = Owed(b, f)[r] + d[r]
  <2> TAKE r \in T
  <2> DEFINE l == Left(b, BookKey(r))
             m == Left(c, BookKey(r))
             z == f[r].size
  <2>1. /\ Owed(c, f)[r] = z - m /\ Owed(b, f)[r] = z - l /\ d[r] = l - m
        /\ l \in Nat /\ m \in Nat /\ z \in Nat
    BY <1>1, LeftIs DEF QuotedOf, Owed, Table, Live
  <2> HIDE DEF l, m, z, d
  <2> QED  BY <2>1
<1> HIDE DEF T, d
<1>7. C = B + D  BY <1>3, <1>4, <1>6, SumPlus
<1>8. Lack(c, f, s) = C /\ Lack(b, f, s) = B  BY DEF Lack, T
<1> HIDE DEF B, C, D
<1>9. Lack(c, f, s) <= Lack(b, f, s) + n  BY <1>3, <1>5, <1>7, <1>8
<1> QED  BY <1>1, <1>2, <1>9

\* A book does not depend on the orders of other symbols.
LEMMA OtherTracks ==
    ASSUME NEW b, BookOK(b), NEW s, NEW f, Table(f), NEW g, Table(g), SameOf(f, g, s), Within(b, f, s)
    PROVE  Within(b, g, s) /\ Lack(b, g, s) = Lack(b, f, s)
<1>1. Within(b, g, s)  BY DEF SameOf, Within
<1>2. QuotedOf(f, s) = QuotedOf(g, s) /\ \A r \in QuotedOf(f, s) : Owed(b, g)[r] = Owed(b, f)[r]  BY DEF SameOf, QuotedOf, Owed
<1>3. IsFiniteSet(QuotedOf(f, s))  BY LackNat
<1> QED  BY <1>1, <1>2, <1>3, SumAgree DEF Lack

-----------------------------------------------------------------------------
(* A message's events                                                      *)

\* f holds what has become of the books on the way through the events.
EventsRun(f, bs, es) ==
    /\ f[0] = [books |-> bs, ticks |-> <<>>]
    /\ \A n \in 1 .. Len(es) : f[n] = DispatchEvent(f[n - 1], es[n])

\* handleMessage goes through the events one by one.
LEMMA EventsInOrder ==
    ASSUME NEW bs, NEW es, Len(es) \in Nat
    PROVE  \E f : EventsRun(f, bs, es) /\ HandleMessage(bs, es) = f[Len(es)]
<1> DEFINE L == Len(es)
           start == [books |-> bs, ticks |-> <<>>]
           Def(h, m) == [n \in 0 .. m |-> IF n = 0 THEN start ELSE DispatchEvent(h[n - 1], es[n])]
           P == {m \in 0 .. L : \E h : h = Def(h, m)}
           c == CHOOSE h : h = Def(h, L)
<1>0. L \in Nat  OBVIOUS
<1>h. HandleMessage(bs, es) = c[L]  BY DEF HandleMessage
<1> HIDE DEF start, L
<1>1. 0 \in P
  <2> DEFINE f == [n \in 0 .. 0 |-> start]
  <2>1. f = Def(f, 0)
    <3>1. \A n \in 0 .. 0 : n = 0  OBVIOUS
    <3> QED  BY <3>1, Zenon
  <2> HIDE DEF Def, f
  <2> QED  BY <1>0, <2>1
<1>2. ASSUME NEW k \in 0 .. L - 1, k \in P PROVE k + 1 \in P
  <2>1. PICK f : f = Def(f, k)  BY <1>2
  <2>2. \A n \in 0 .. k : f[n] = IF n = 0 THEN start ELSE DispatchEvent(f[n - 1], es[n])  BY <2>1, Zenon
  <2> DEFINE v == DispatchEvent(f[k], es[k + 1])
             g == [n \in 0 .. k + 1 |-> IF n = k + 1 THEN v ELSE f[n]]
  <2> HIDE DEF v
  <2>3. ASSUME NEW n \in 0 .. k + 1
        PROVE  (IF n = k + 1 THEN v ELSE f[n]) = IF n = 0 THEN start ELSE DispatchEvent(g[n - 1], es[n])
    <3>1. CASE n = k + 1
      <4>1. n # 0 /\ n - 1 \in 0 .. k + 1 /\ n - 1 # k + 1 /\ n - 1 = k  BY <3>1
      <4>2. g[n - 1] = f[k]  BY <4>1
      <4> HIDE DEF g
      <4> QED  BY <3>1, <4>1, <4>2 DEF v
    <3>2. CASE n # k + 1 /\ n = 0
      <4>1. n \in 0 .. k  BY <3>2
      <4> QED  BY <2>2, <3>2, <4>1
    <3>3. CASE n # k + 1 /\ n # 0
      <4>1. n \in 0 .. k /\ n - 1 \in 0 .. k + 1 /\ n - 1 # k + 1  BY <3>3
      <4>2. g[n - 1] = f[n - 1]  BY <4>1
      <4>3. f[n] = DispatchEvent(f[n - 1], es[n])  BY <2>2, <3>3, <4>1, Zenon
      <4> HIDE DEF g
      <4> QED  BY <3>3, <4>2, <4>3
    <3> QED  BY <3>1, <3>2, <3>3
  <2>4. g = Def(g, k + 1)
    <3> DEFINE h == g
    <3>1. h = [n \in 0 .. k + 1 |-> IF n = k + 1 THEN v ELSE f[n]]  OBVIOUS
    <3>2. \A n \in 0 .. k + 1 : (IF n = k + 1 THEN v ELSE f[n])
                                   = IF n = 0 THEN start ELSE DispatchEvent(h[n - 1], es[n])
      BY <2>3
    <3> HIDE DEF h
    <3>3. h = [n \in 0 .. k + 1 |-> IF n = 0 THEN start ELSE DispatchEvent(h[n - 1], es[n])]
      BY <3>1, <3>2, Zenon
    <3> QED  BY <3>3 DEF h
  <2>5. k + 1 \in 0 .. L  BY <1>0
  <2> HIDE DEF Def, g
  <2> QED  BY <2>4, <2>5
<1>3. 0 .. L \subseteq P
  <2> HIDE DEF P
  <2> QED  BY <1>0, <1>1, <1>2, UpTo
<1>4. \E h : h = Def(h, L)
  <2>1. L \in P
    <3> HIDE DEF P
    <3> QED  BY <1>0, <1>3
  <2> HIDE DEF Def
  <2> QED  BY <2>1
<1>5. c = Def(c, L)
  <2> HIDE DEF Def
  <2> QED  BY <1>4
<1> HIDE DEF c
<1>6. \A n \in 0 .. L : c[n] = IF n = 0 THEN start ELSE DispatchEvent(c[n - 1], es[n])  BY <1>5, Zenon
<1>7. c[0] = start  BY <1>0, <1>6
<1>8. ASSUME NEW n \in 1 .. L PROVE c[n] = DispatchEvent(c[n - 1], es[n])
  <2>1. n \in 0 .. L /\ n # 0  BY <1>0
  <2> QED  BY <1>6, <2>1, Zenon
<1>9. EventsRun(c, bs, es)  BY <1>7, <1>8 DEF EventsRun, start, L
<1> QED  BY <1>h, <1>9 DEF L

\* The books and ticks on the way.
At(bs, ts) == [books |-> bs, ticks |-> ts]

\* An event for a book.
ForBook(e) == e.op \in {"add", "update", "delete", "trade"}

\* It changes the book of its symbol and nothing else.
LEMMA BookEvent ==
    ASSUME NEW bs, NEW ts, NEW e, ForBook(e)
    PROVE  DispatchEvent(At(bs, ts), e)
              = At([bs EXCEPT ![e.o.sym] = BookAfter(bs[e.o.sym], e)], ts)
<1> DEFINE s == e.o.sym
           B(x) == BookAfter(x, e)
           cs == [bs EXCEPT ![s] = B(bs[s])]
<1>1. DispatchEvent(At(bs, ts), e) = [At(bs, ts) EXCEPT !.books[s] = B(bs[s])]
  <2>1. e.op # "tick" /\ e.op # "ticksize"  BY DEF ForBook
  <2> QED  BY <2>1 DEF DispatchEvent, At
<1>2. [At(bs, ts) EXCEPT !.books[s] = B(bs[s])] = [At(bs, ts) EXCEPT !.books = cs]
  BY DEF At
<1> HIDE DEF cs
<1>3. [At(bs, ts) EXCEPT !.books = cs] = At(cs, ts)  BY DEF At
<1> QED  BY <1>1, <1>2, <1>3 DEF cs

\* A tick goes to the Dispatcher.
LEMMA TickOnly ==
    ASSUME NEW bs, NEW o
    PROVE  DispatchEvent(At(bs, <<>>), TickEvent(o)) = At(bs, <<o>>)
<1>1. TickEvent(o).op = "tick" /\ TickEvent(o).o = o  BY DEF TickEvent
<1>2. DispatchEvent(At(bs, <<>>), TickEvent(o)) = [At(bs, <<>>) EXCEPT !.ticks = Append(<<>>, o)]
  BY <1>1 DEF DispatchEvent, At
<1>3. Append(<<>>, o) = <<o>>  OBVIOUS
<1> QED  BY <1>2, <1>3 DEF At

\* The directory's event sets the tick size of its symbol.
LEMMA TickSizeOnly ==
    ASSUME NEW bs, NEW s
    PROVE  DispatchEvent(At(bs, <<>>), ObTickSize(s))
              = At([bs EXCEPT ![s] = [bs[s] EXCEPT !.tick = DirectoryTick]], <<>>)
<1> DEFINE c == [bs[s] EXCEPT !.tick = DirectoryTick]
           cs == [bs EXCEPT ![s] = c]
<1>1. ObTickSize(s).op = "ticksize" /\ ObTickSize(s).sym = s  BY DEF ObTickSize
<1>2. DispatchEvent(At(bs, <<>>), ObTickSize(s)) = [At(bs, <<>>) EXCEPT !.books[s].tick = DirectoryTick]
  BY <1>1 DEF DispatchEvent
<1>3. [At(bs, <<>>) EXCEPT !.books[s].tick = DirectoryTick] = [At(bs, <<>>) EXCEPT !.books = cs]
  BY DEF At
<1> HIDE DEF cs
<1>4. [At(bs, <<>>) EXCEPT !.books = cs] = At(cs, <<>>)  BY DEF At
<1> QED  BY <1>2, <1>3, <1>4 DEF cs

\* A message with no event.
LEMMA NoEvents == ASSUME NEW bs PROVE HandleMessage(bs, <<>>) = At(bs, <<>>)
<1>1. Len(<<>>) = 0 /\ Len(<<>>) \in Nat  OBVIOUS
<1>2. PICK f : EventsRun(f, bs, <<>>) /\ HandleMessage(bs, <<>>) = f[Len(<<>>)]  BY <1>1, EventsInOrder
<1> QED  BY <1>1, <1>2 DEF EventsRun, At

\* A message with one event.
LEMMA OneEvent ==
    ASSUME NEW bs, NEW e PROVE HandleMessage(bs, <<e>>) = DispatchEvent(At(bs, <<>>), e)
<1> DEFINE es == <<e>>
<1>1. Len(es) = 1 /\ Len(es) \in Nat /\ es[1] = e  OBVIOUS
<1> HIDE DEF es
<1>2. PICK f : EventsRun(f, bs, es) /\ HandleMessage(bs, es) = f[Len(es)]  BY <1>1, EventsInOrder
<1>3. f[0] = At(bs, <<>>) /\ f[1] = DispatchEvent(f[1 - 1], es[1])  BY <1>1, <1>2 DEF EventsRun, At
<1>4. 1 - 1 = 0  OBVIOUS
<1> QED  BY <1>1, <1>2, <1>3, <1>4 DEF es

\* A message with two events, applied in their order.
LEMMA TwoEvents ==
    ASSUME NEW bs, NEW e, NEW d
    PROVE  HandleMessage(bs, <<e, d>>) = DispatchEvent(DispatchEvent(At(bs, <<>>), e), d)
<1> DEFINE es == <<e, d>>
<1>1. Len(es) = 2 /\ Len(es) \in Nat /\ es[1] = e /\ es[2] = d  OBVIOUS
<1> HIDE DEF es
<1>2. PICK f : EventsRun(f, bs, es) /\ HandleMessage(bs, es) = f[Len(es)]  BY <1>1, EventsInOrder
<1>3. /\ f[0] = At(bs, <<>>) /\ f[1] = DispatchEvent(f[1 - 1], es[1])
      /\ f[2] = DispatchEvent(f[2 - 1], es[2])
  BY <1>1, <1>2 DEF EventsRun, At
<1>4. 1 - 1 = 0 /\ 2 - 1 = 1  OBVIOUS
<1> QED  BY <1>1, <1>2, <1>3, <1>4 DEF es

\* A message with three events, applied in their order.
LEMMA ThreeEvents ==
    ASSUME NEW bs, NEW e, NEW d, NEW k
    PROVE  HandleMessage(bs, <<e, d, k>>)
              = DispatchEvent(DispatchEvent(DispatchEvent(At(bs, <<>>), e), d), k)
<1> DEFINE es == <<e, d, k>>
<1>1. Len(es) = 3 /\ Len(es) \in Nat /\ es[1] = e /\ es[2] = d /\ es[3] = k  OBVIOUS
<1> HIDE DEF es
<1>2. PICK f : EventsRun(f, bs, es) /\ HandleMessage(bs, es) = f[Len(es)]  BY <1>1, EventsInOrder
<1>3. /\ f[0] = At(bs, <<>>) /\ f[1] = DispatchEvent(f[1 - 1], es[1])
      /\ f[2] = DispatchEvent(f[2 - 1], es[2]) /\ f[3] = DispatchEvent(f[3 - 1], es[3])
  BY <1>1, <1>2 DEF EventsRun, At
<1>4. 1 - 1 = 0 /\ 2 - 1 = 1 /\ 3 - 1 = 2  OBVIOUS
<1> QED  BY <1>1, <1>2, <1>3, <1>4 DEF es

\* What OrderBookManager keeps of a symbol.
DeskOK(m) ==
    /\ m = [book |-> m.book, tick |-> m.tick, stale |-> m.stale]
    /\ BookOK(m.book) /\ m.tick \in TickSizes

\* What a symbol's book becomes; its tick size and flag stay.
LEMMA BookAfterIs ==
    ASSUME NEW m, DeskOK(m), NEW e, NEW c, c = BookAfter(m, e)
    PROVE  /\ c = [book |-> c.book, tick |-> c.tick, stale |-> c.stale]
           /\ c.tick = m.tick /\ c.stale = m.stale
           /\ m.stale => c.book = m.book
           /\ ~m.stale => c.book = Applied(m, e)
<1> DEFINE x == IF m.stale THEN m.book ELSE Applied(m, e)
<1>1. c = [m EXCEPT !.book = x]  BY DEF BookAfter
<1>2. m = [book |-> m.book, tick |-> m.tick, stale |-> m.stale]  BY DEF DeskOK
<1>3. (m.stale => x = m.book) /\ (~m.stale => x = Applied(m, e))  OBVIOUS
<1> HIDE DEF x
<1>4. c = [book |-> x, tick |-> m.tick, stale |-> m.stale]  BY <1>1, <1>2
<1>5. c.book = x /\ c.tick = m.tick /\ c.stale = m.stale  BY <1>4
<1> QED  BY <1>3, <1>4, <1>5

\* What the events of an order do to a book whose symbol is not stale ...
LEMMA AppliedIs ==
    ASSUME NEW m, NEW ref, NEW o, o.size \in Nat \ {0}
    PROVE  /\ ValidPrice(m.tick, o.price) =>
                 Applied(m, ObAdd(ref, o))
                    = Add(m.book, Order(BookKey(ref), o.side, ToTicks(m.tick, o.price), o.size, 0))
           /\ ~ValidPrice(m.tick, o.price) => Applied(m, ObAdd(ref, o)) = m.book
           /\ Applied(m, ObUpdate(ref, o)) = Update(m.book, BookKey(ref), None, o.size)
           /\ Applied(m, ObDelete(ref, o)) = Delete(m.book, BookKey(ref))
           /\ ForBook(ObAdd(ref, o)) /\ ObAdd(ref, o).o = o
           /\ ForBook(ObUpdate(ref, o)) /\ ObUpdate(ref, o).o = o
           /\ ForBook(ObDelete(ref, o)) /\ ObDelete(ref, o).o = o
<1>0. o.size > 0  OBVIOUS
<1>1. /\ ObAdd(ref, o).op = "add" /\ ObAdd(ref, o).o = o /\ ObAdd(ref, o).ref = ref
      /\ ObUpdate(ref, o).op = "update" /\ ObUpdate(ref, o).o = o /\ ObUpdate(ref, o).ref = ref
      /\ ObDelete(ref, o).op = "delete" /\ ObDelete(ref, o).o = o /\ ObDelete(ref, o).ref = ref
  BY DEF ObAdd, ObUpdate, ObDelete
<1>2. ValidPrice(m.tick, o.price) =>
         Applied(m, ObAdd(ref, o))
            = Add(m.book, Order(BookKey(ref), o.side, ToTicks(m.tick, o.price), o.size, 0))
  BY <1>0, <1>1 DEF Applied
<1>3. ~ValidPrice(m.tick, o.price) => Applied(m, ObAdd(ref, o)) = m.book
  BY <1>0, <1>1 DEF Applied
<1>4. Applied(m, ObUpdate(ref, o)) = Update(m.book, BookKey(ref), None, o.size)
  BY <1>0, <1>1 DEF Applied
<1>5. Applied(m, ObDelete(ref, o)) = Delete(m.book, BookKey(ref))  BY <1>1 DEF Applied
<1> QED  BY <1>1, <1>2, <1>3, <1>4, <1>5 DEF ForBook

\* ... and a trade.
LEMMA AppliedTrade ==
    ASSUME NEW m, NEW o, o.size \in Nat \ {0}, NEW aggr
    PROVE  /\ ValidPrice(m.tick, o.price) =>
                 Applied(m, ObTrade(o, aggr)) = Trade(m.book, ToTicks(m.tick, o.price), o.size, aggr)
           /\ ~ValidPrice(m.tick, o.price) => Applied(m, ObTrade(o, aggr)) = m.book
           /\ ForBook(ObTrade(o, aggr)) /\ ObTrade(o, aggr).o = o
<1>0. o.size > 0  OBVIOUS
<1>1. ObTrade(o, aggr).op = "trade" /\ ObTrade(o, aggr).o = o /\ ObTrade(o, aggr).aggr = aggr
  BY DEF ObTrade
<1>2. ValidPrice(m.tick, o.price) =>
         Applied(m, ObTrade(o, aggr)) = Trade(m.book, ToTicks(m.tick, o.price), o.size, aggr)
  BY <1>0, <1>1 DEF Applied
<1>3. ~ValidPrice(m.tick, o.price) => Applied(m, ObTrade(o, aggr)) = m.book  BY <1>0, <1>1 DEF Applied
<1> QED  BY <1>1, <1>2, <1>3 DEF ForBook

\* Unless symbol s is stale, its book rests on table f ...
Standing(m, f, s) == DeskOK(m) /\ (~m.stale => Within(m.book, f, s))

\* ... and is short of at most n shares.
Backed(m, f, s, n) == Standing(m, f, s) /\ (~m.stale => Lack(m.book, f, s) <= n)

\* From m over f to c over g the book of s becomes short of at most n shares more.
Carries(m, c, f, g, s, n) ==
    /\ Standing(c, g, s) /\ c.stale = m.stale
    /\ ~c.stale => Lack(c.book, g, s) <= Lack(m.book, f, s) + n

\* An event carries a symbol's book along with the table: by what it does to a
\* book whose symbol is not stale.
LEMMA EventCarries ==
    ASSUME NEW m, NEW f, NEW g, NEW s, Standing(m, f, s), NEW e, NEW c, c = BookAfter(m, e),
           NEW n \in Nat,
           ~m.stale => /\ BookOK(Applied(m, e)) /\ Within(Applied(m, e), g, s)
                       /\ Lack(Applied(m, e), g, s) <= Lack(m.book, f, s) + n
    PROVE  Carries(m, c, f, g, s, n)
<1>0. DeskOK(m)  BY DEF Standing
<1>1. /\ c = [book |-> c.book, tick |-> c.tick, stale |-> c.stale]
      /\ c.tick = m.tick /\ c.stale = m.stale
      /\ m.stale => c.book = m.book
      /\ ~m.stale => c.book = Applied(m, e)
  BY <1>0, BookAfterIs
<1>2. BookOK(c.book) /\ c.tick \in TickSizes  BY <1>0, <1>1 DEF DeskOK
<1> QED  BY <1>1, <1>2 DEF Carries, Standing, DeskOK

\* What a symbol's book is short of after one event.
LEMMA CarriedBacked ==
    ASSUME NEW m, NEW f, Table(f), NEW s, NEW v \in Nat, Backed(m, f, s, v),
           NEW c, NEW g, Table(g), NEW n \in Nat, Carries(m, c, f, g, s, n)
    PROVE  Backed(c, g, s, v + n)
<1>1. ASSUME ~c.stale PROVE Lack(c.book, g, s) <= v + n
  <2> DEFINE l == Lack(m.book, f, s)
             k == Lack(c.book, g, s)
  <2>1. /\ ~m.stale /\ BookOK(m.book) /\ Within(m.book, f, s) /\ l <= v
        /\ BookOK(c.book) /\ Within(c.book, g, s) /\ k <= l + n
    BY <1>1 DEF Carries, Backed, Standing, DeskOK
  <2>2. l \in Nat /\ k \in Nat  BY <2>1, LackNat
  <2> HIDE DEF l, k
  <2>3. k <= v + n  BY <2>1, <2>2
  <2> QED  BY <2>3 DEF k
<1> QED  BY <1>1 DEF Carries, Backed

\* Events of a deletion, ...
LEMMA DeleteCarries ==
    ASSUME NEW m, NEW f, Table(f), NEW s, Standing(m, f, s), NEW r, NEW o, o.size \in Nat \ {0},
           NEW c, c = BookAfter(m, ObDelete(r, o)), NEW g, g = Without(f, r)
    PROVE  Carries(m, c, f, g, s, 0)
<1> DEFINE b == Applied(m, ObDelete(r, o))
<1>1. ASSUME ~m.stale
      PROVE  BookOK(b) /\ Within(b, g, s) /\ Lack(b, g, s) <= Lack(m.book, f, s) + 0
  <2>1. BookOK(m.book) /\ Within(m.book, f, s)  BY <1>1 DEF Standing, DeskOK
  <2>2. b = Delete(m.book, BookKey(r))  BY AppliedIs
  <2> HIDE DEF b
  <2>3. BookOK(b) /\ Within(b, g, s) /\ Lack(b, g, s) <= Lack(m.book, f, s)
    BY <2>1, <2>2, DeleteTracks
  <2>4. Lack(m.book, f, s) \in Nat  BY <2>1, LackNat
  <2> QED  BY <2>3, <2>4
<1> HIDE DEF b
<1> QED  BY <1>1, EventCarries DEF b

\* ... an addition, which is refused if the price is between two ticks, ...
LEMMA AddCarries ==
    ASSUME NEW m, NEW f, Table(f), NEW s, Standing(m, f, s), NEW r \in Nat, r \notin DOMAIN f,
           NEW o \in Live, o.sym = s,
           NEW c, c = BookAfter(m, ObAdd(r, o)), NEW g, g = With(f, r, o)
    PROVE  Carries(m, c, f, g, s, 0)
<1> DEFINE b == Applied(m, ObAdd(r, o))
<1>0. o.size \in Nat \ {0} /\ o.price \in VenuePrices  BY DEF Live
<1>1. ASSUME ~m.stale
      PROVE  BookOK(b) /\ Within(b, g, s) /\ Lack(b, g, s) <= Lack(m.book, f, s) + 0
  <2>1. BookOK(m.book) /\ Within(m.book, f, s) /\ m.tick \in TickSizes
    BY <1>1 DEF Standing, DeskOK
  <2>2. Lack(m.book, f, s) \in Nat  BY <2>1, LackNat
  <2>3. CASE ValidPrice(m.tick, o.price)
    <3> DEFINE t == m.tick
               p == ToTicks(t, o.price)
    <3>1. b = Add(m.book, Order(BookKey(r), o.side, p, o.size, 0))  BY <1>0, <2>3, AppliedIs
    <3>2. p \in Prices /\ t \in TickSizes  BY <1>0, <2>1, <2>3, AdapterAssumption
    <3> HIDE DEF b, t
    <3>3. PICK q \in Prices : q = ToTicks(t, o.price)  BY <3>2
    <3>4. b = Add(m.book, Order(BookKey(r), o.side, q, o.size, 0))  BY <3>1, <3>3
    <3> HIDE DEF p
    <3>5. BookOK(b) /\ Within(b, g, s) /\ Lack(b, g, s) <= Lack(m.book, f, s)
      BY <2>1, <3>2, <3>3, <3>4, AddTracks
    <3> QED  BY <2>2, <3>5
  <2>4. CASE ~ValidPrice(m.tick, o.price)
    <3>1. b = m.book  BY <1>0, <2>4, AppliedIs
    <3>2. ~Quoted(o.price)  BY <2>1, <2>4 DEF Quoted
    <3> HIDE DEF b
    <3>3. Within(m.book, g, s) /\ Lack(m.book, g, s) <= Lack(m.book, f, s)
      BY <2>1, <3>2, RefusedTracks
    <3> QED  BY <2>1, <2>2, <3>1, <3>3
  <2> QED  BY <2>3, <2>4
<1> HIDE DEF b
<1> QED  BY <1>1, EventCarries DEF b

\* ... a reduction, ...
LEMMA ResizeCarries ==
    ASSUME NEW m, NEW f, Table(f), NEW s, Standing(m, f, s),
           NEW r \in DOMAIN f, f[r].sym = s, NEW z \in Nat \ {0}, z <= f[r].size,
           NEW c, c = BookAfter(m, ObUpdate(r, [f[r] EXCEPT !.size = z])),
           NEW g, g = [f EXCEPT ![r] = [f[r] EXCEPT !.size = z]]
    PROVE  Carries(m, c, f, g, s, 0)
<1> DEFINE o == [f[r] EXCEPT !.size = z]
           b == Applied(m, ObUpdate(r, o))
<1>0. o.size = z
  <2>1. f[r] \in Live  BY DEF Table
  <2> QED  BY <2>1 DEF Live
<1>1. ASSUME ~m.stale
      PROVE  BookOK(b) /\ Within(b, g, s) /\ Lack(b, g, s) <= Lack(m.book, f, s) + 0
  <2>1. BookOK(m.book) /\ Within(m.book, f, s)  BY <1>1 DEF Standing, DeskOK
  <2>2. b = Update(m.book, BookKey(r), None, z)
    <3> HIDE DEF o
    <3> QED  BY <1>0, AppliedIs
  <2> HIDE DEF b
  <2>3. BookOK(b) /\ Within(b, g, s) /\ Lack(b, g, s) <= Lack(m.book, f, s)
    BY <2>1, <2>2, ResizeTracks
  <2>4. Lack(m.book, f, s) \in Nat  BY <2>1, LackNat
  <2> QED  BY <2>3, <2>4
<1> HIDE DEF b
<1> QED  BY <1>1, EventCarries DEF b

\* ... and a trade, which is refused as an addition is.
LEMMA TradeCarries ==
    ASSUME NEW m, NEW f, Table(f), NEW s, Standing(m, f, s), NEW o \in Live, NEW aggr,
           NEW c, c = BookAfter(m, ObTrade(o, aggr))
    PROVE  Carries(m, c, f, f, s, o.size)
<1> DEFINE b == Applied(m, ObTrade(o, aggr))
<1>0. o.size \in Nat \ {0} /\ o.size \in Nat /\ o.price \in VenuePrices  BY DEF Live
<1>1. ASSUME ~m.stale
      PROVE  BookOK(b) /\ Within(b, f, s) /\ Lack(b, f, s) <= Lack(m.book, f, s) + o.size
  <2>1. BookOK(m.book) /\ Within(m.book, f, s) /\ m.tick \in TickSizes
    BY <1>1 DEF Standing, DeskOK
  <2>2. Lack(m.book, f, s) \in Nat  BY <2>1, LackNat
  <2>3. CASE ValidPrice(m.tick, o.price)
    <3> DEFINE p == ToTicks(m.tick, o.price)
    <3>1. b = Trade(m.book, p, o.size, aggr)  BY <1>0, <2>3, AppliedTrade
    <3>2. p \in Prices  BY <1>0, <2>1, <2>3, AdapterAssumption
    <3> HIDE DEF b, p
    <3> QED  BY <1>0, <2>1, <3>1, <3>2, TradeTracks
  <2>4. CASE ~ValidPrice(m.tick, o.price)
    <3>1. b = m.book  BY <1>0, <2>4, AppliedTrade
    <3> HIDE DEF b
    <3> QED  BY <1>0, <2>1, <2>2, <3>1
  <2> QED  BY <2>3, <2>4
<1> HIDE DEF b
<1> QED  BY <1>0, <1>1, EventCarries DEF b

\* No tick reports no volume ...
LEMMA VolumeNone == ASSUME NEW s PROVE VolumeOf(<<>>, s) = 0
<1> DEFINE os == [i \in DOMAIN <<>> |-> IF <<>>[i].sym = s THEN <<>>[i] ELSE [<<>>[i] EXCEPT !.size = 0]]
           f == [n \in 0 .. 0 |-> 0]
<1>1. os = <<>>  OBVIOUS
<1>2. VolumeOf(<<>>, s) = SizeSum(os)  BY DEF VolumeOf
<1> HIDE DEF os
<1>3. Len(os) = 0 /\ Len(os) \in Nat  BY <1>1
<1>4. SumsOf(f, os) /\ f[0] = 0  BY <1>3 DEF SumsOf
<1> HIDE DEF f
<1>5. SizeSum(os) = f[Len(os)]  BY <1>3, <1>4, SumUnique
<1> QED  BY <1>2, <1>3, <1>4, <1>5

\* ... and a tick that of its symbol.
LEMMA VolumeOne ==
    ASSUME NEW s, NEW t \in Live
    PROVE  VolumeOf(<<t>>, s) \in Nat /\ (t.sym = s => VolumeOf(<<t>>, s) = t.size)
<1> DEFINE x == IF t.sym = s THEN t ELSE [t EXCEPT !.size = 0]
           os == <<x>>
           f == [n \in 0 .. 1 |-> IF n = 0 THEN 0 ELSE x.size]
<1>1. x.size \in Nat /\ (t.sym = s => x.size = t.size)  BY DEF Live
<1>2. VolumeOf(<<t>>, s) = SizeSum(os)
  <2> DEFINE ts == <<t>>
             zs == [i \in DOMAIN ts |-> IF ts[i].sym = s THEN ts[i] ELSE [ts[i] EXCEPT !.size = 0]]
  <2>1. VolumeOf(ts, s) = SizeSum(zs)  BY DEF VolumeOf
  <2>2. DOMAIN ts = {1} /\ ts[1] = t  OBVIOUS
  <2> HIDE DEF ts
  <2>3. DOMAIN zs = {1} /\ zs[1] = x  BY <2>2
  <2> HIDE DEF x
  <2>4. zs = [i \in {1} |-> x]  BY <2>2, <2>3
  <2>5. os = [i \in {1} |-> x]  OBVIOUS
  <2> QED  BY <2>1, <2>4, <2>5 DEF ts
<1> HIDE DEF x
<1>3. Len(os) = 1 /\ Len(os) \in Nat /\ os[1] = x  OBVIOUS
<1> HIDE DEF os
<1>4. SumsOf(f, os) /\ f[1] = x.size  BY <1>1, <1>3 DEF SumsOf
<1> HIDE DEF f
<1>5. SizeSum(os) = f[Len(os)]  BY <1>3, <1>4, SumUnique
<1> QED  BY <1>1, <1>2, <1>3, <1>4, <1>5

-----------------------------------------------------------------------------
(* The adapter's table and the books                                       *)

\* Each book, unless stale, rests on f and is short of at most what has traded.
Rested(bs, f, vol) ==
    /\ bs = [s \in Symbols |-> bs[s]]
    /\ \A s \in Symbols : Backed(bs[s], f, s, vol[s])

\* The table holds live orders that the venue has used the reference of.
Tracking(f, bs, vol, unused) ==
    /\ Table(f) /\ unused \subseteq Refs /\ DOMAIN f \subseteq Refs \ unused
    /\ vol \in [Symbols -> Nat]
    /\ Rested(bs, f, vol)

\* The volume with a message's ticks.
Reported(ticks) == [s \in Symbols |-> volume[s] + VolumeOf(ticks, s)]

\* The inductive invariant of the table and the books.
TrackInv == Tracking(orders, books, volume, fresh)

\* What a handler makes of a message, were it heard.
Heard(r, unused) ==
    LET done == HandleMessage(books, r.events)
    IN  Tracking(r.orders, done.books, Reported(done.ticks), unused)

\* A change to the orders and the book of one symbol.
LEMMA TouchOne ==
    ASSUME NEW bs, NEW f, Table(f), NEW vol, Rested(bs, f, vol), vol \in [Symbols -> Nat],
           NEW g, Table(g), NEW wol, wol \in [Symbols -> Nat], NEW s \in Symbols,
           NEW c, Backed(c, g, s, wol[s]),
           \A t \in Symbols : t # s => SameOf(f, g, t) /\ vol[t] <= wol[t]
    PROVE  Rested([bs EXCEPT ![s] = c], g, wol)
<1> DEFINE cs == [bs EXCEPT ![s] = c]
<1>1. bs = [t \in Symbols |-> bs[t]]  BY DEF Rested
<1>2. cs = [t \in Symbols |-> IF t = s THEN c ELSE bs[t]]  BY <1>1
<1> HIDE DEF cs
<1>3. cs = [t \in Symbols |-> cs[t]]  BY <1>2
<1>4. ASSUME NEW t \in Symbols PROVE Backed(cs[t], g, t, wol[t])
  <2>1. CASE t = s
    <3>1. cs[t] = c  BY <1>2, <2>1
    <3> QED  BY <2>1, <3>1
  <2>2. CASE t # s
    <3> DEFINE m == bs[t]
               v == vol[t]
               w == wol[t]
    <3>1. cs[t] = m  BY <1>2, <2>2
    <3>2. Backed(m, f, t, v)  BY DEF Rested
    <3>3. SameOf(f, g, t) /\ v <= w /\ v \in Nat /\ w \in Nat  BY <2>2
    <3> HIDE DEF m, v, w
    <3>4. ASSUME ~m.stale PROVE Within(m.book, g, t) /\ Lack(m.book, g, t) <= w
      <4>1. BookOK(m.book) /\ Within(m.book, f, t) /\ Lack(m.book, f, t) <= v
        BY <3>2, <3>4 DEF Backed, Standing, DeskOK
      <4>2. Within(m.book, g, t) /\ Lack(m.book, g, t) = Lack(m.book, f, t)
        BY <3>3, <4>1, OtherTracks
      <4>3. Lack(m.book, f, t) \in Nat  BY <4>1, LackNat
      <4> QED  BY <3>3, <4>1, <4>2, <4>3
    <3>5. Backed(m, g, t, w)  BY <3>2, <3>4 DEF Backed, Standing
    <3> QED  BY <3>1, <3>5 DEF w
  <2> QED  BY <2>1, <2>2
<1>5. Rested(cs, g, wol)  BY <1>3, <1>4 DEF Rested
<1> QED  BY <1>5 DEF cs

\* Without a tick the volumes stay.
LEMMA ReportedNone == ASSUME TrackInv PROVE Reported(<<>>) = volume
<1>1. volume \in [Symbols -> Nat]  BY DEF TrackInv, Tracking
<1>2. Reported(<<>>) = [s \in Symbols |-> volume[s] + 0]  BY VolumeNone, Zenon DEF Reported
<1> QED  BY <1>1, <1>2

\* The tick of a trade adds its shares to the volume of its symbol.
LEMMA ReportedOne ==
    ASSUME TrackInv, NEW t \in Live
    PROVE  /\ Reported(<<t>>) \in [Symbols -> Nat]
           /\ Reported(<<t>>)[t.sym] = volume[t.sym] + t.size
           /\ \A s \in Symbols : volume[s] <= Reported(<<t>>)[s]
<1>1. volume \in [Symbols -> Nat] /\ t.sym \in Symbols  BY DEF TrackInv, Tracking, Live
<1> DEFINE v(s) == VolumeOf(<<t>>, s)
<1>2. Reported(<<t>>) = [s \in Symbols |-> volume[s] + v(s)]  BY DEF Reported
<1>3. (\A s \in Symbols : volume[s] \in Nat /\ v(s) \in Nat) /\ v(t.sym) = t.size  BY <1>1, VolumeOne
<1> HIDE DEF v
<1> QED  BY <1>1, <1>2, <1>3

\* Tables that differ in the orders of one symbol only.
LEMMA OthersWithout ==
    ASSUME NEW f, NEW r \in DOMAIN f, NEW t, f[r].sym # t
    PROVE  SameOf(f, Without(f, r), t)
BY DEF SameOf, Without, Restrict

\* A new order leaves the other symbols' orders alone.
LEMMA OthersWith ==
    ASSUME NEW f, NEW r, r \notin DOMAIN f, NEW o, NEW t, o.sym # t
    PROVE  SameOf(f, With(f, r, o), t)
BY DEF SameOf, With

\* So does an order of this symbol with another size.
LEMMA OthersResized ==
    ASSUME NEW f, f \in [DOMAIN f -> Live], NEW r \in DOMAIN f, NEW z, NEW t, f[r].sym # t
    PROVE  SameOf(f, [f EXCEPT ![r] = [f[r] EXCEPT !.size = z]], t)
<1> DEFINE o == [f[r] EXCEPT !.size = z]
<1>1. o.sym = f[r].sym
  <2>1. f[r] \in Live  OBVIOUS
  <2> QED  BY <2>1 DEF Live
<1> HIDE DEF o
<1>2. SameOf(f, [f EXCEPT ![r] = o], t)  BY <1>1 DEF SameOf
<1> QED  BY <1>2 DEF o

\* The type facts of one tracked order.
LEMMA TrackedOrder ==
    ASSUME TrackInv, NEW r \in DOMAIN orders
    PROVE  /\ orders[r] \in Live /\ orders[r].size \in Nat \ {0} /\ orders[r].sym \in Symbols
           /\ r \in Refs /\ r \in Nat /\ r \notin fresh
           /\ Backed(books[orders[r].sym], orders, orders[r].sym, volume[orders[r].sym])
           /\ Standing(books[orders[r].sym], orders, orders[r].sym)
<1>1. orders[r] \in Live /\ r \in Refs /\ r \notin fresh  BY DEF TrackInv, Tracking, Table
<1>2. orders[r].size \in Nat \ {0} /\ orders[r].sym \in Symbols  BY <1>1 DEF Live
<1>3. r \in Nat  BY <1>1, FeedAssumption
<1>4. Backed(books[orders[r].sym], orders, orders[r].sym, volume[orders[r].sym])
  BY <1>2 DEF TrackInv, Tracking, Rested
<1> QED  BY <1>1, <1>2, <1>3, <1>4 DEF Backed

\* A message that is ignored.
LEMMA HeardNothing ==
    ASSUME TrackInv, NEW unused \in SUBSET fresh
    PROVE  Heard(Ignored(orders), unused)
<1>1. HandleMessage(books, <<>>) = At(books, <<>>)  BY NoEvents
<1>2. At(books, <<>>).books = books /\ At(books, <<>>).ticks = <<>>  BY DEF At
<1>3. Ignored(orders).orders = orders /\ Ignored(orders).events = <<>>  BY DEF Ignored
<1>4. Reported(<<>>) = volume  BY ReportedNone
<1> QED  BY <1>1, <1>2, <1>3, <1>4 DEF Heard, TrackInv, Tracking

\* The table and the book of one symbol move, and with them the volume.
LEMMA TrackingOne ==
    ASSUME TrackInv, NEW unused \in SUBSET fresh, NEW s \in Symbols,
           NEW g, Table(g), DOMAIN g \subseteq Refs \ unused,
           \A t \in Symbols : t # s => SameOf(orders, g, t),
           NEW wol, wol \in [Symbols -> Nat], \A t \in Symbols : volume[t] <= wol[t],
           NEW c, Backed(c, g, s, wol[s])
    PROVE  Tracking(g, [books EXCEPT ![s] = c], wol, unused)
<1>1. /\ Rested(books, orders, volume) /\ volume \in [Symbols -> Nat] /\ fresh \subseteq Refs
      /\ Table(orders)
  BY DEF TrackInv, Tracking
<1>2. Rested([books EXCEPT ![s] = c], g, wol)  BY <1>1, TouchOne
<1> QED  BY <1>1, <1>2 DEF Tracking

\* What a symbol's book is short of before a message.
LEMMA BackedNow ==
    ASSUME TrackInv, NEW s \in Symbols
    PROVE  /\ Backed(books[s], orders, s, volume[s]) /\ Standing(books[s], orders, s)
           /\ volume[s] \in Nat /\ Table(orders)
BY DEF TrackInv, Tracking, Rested, Backed

\* A message that leaves the books cs and the ticks ts.
LEMMA HeardIs ==
    ASSUME NEW r, NEW cs, NEW ts, HandleMessage(books, r.events) = At(cs, ts),
           NEW unused, Tracking(r.orders, cs, Reported(ts), unused)
    PROVE  Heard(r, unused)
<1>1. At(cs, ts).books = cs /\ At(cs, ts).ticks = ts  BY DEF At
<1> QED  BY <1>1, Zenon DEF Heard

\* One event for the book of a symbol, and what its handler did to the table.
LEMMA HeardOne ==
    ASSUME TrackInv, NEW unused \in SUBSET fresh, NEW e, ForBook(e), NEW s \in Symbols, e.o.sym = s,
           NEW g, Table(g), DOMAIN g \subseteq Refs \ unused,
           NEW c, c = BookAfter(books[s], e), Carries(books[s], c, orders, g, s, 0),
           \A t \in Symbols : t # s => SameOf(orders, g, t),
           NEW r, r.orders = g, r.events = <<e>>
    PROVE  Heard(r, unused)
<1> DEFINE cs == [books EXCEPT ![s] = c]
<1>1. HandleMessage(books, <<e>>) = At(cs, <<>>)  BY OneEvent, BookEvent
<1>2. Reported(<<>>) = volume  BY ReportedNone
<1>3. Backed(books[s], orders, s, volume[s]) /\ volume[s] \in Nat /\ Table(orders)  BY BackedNow
<1>4. Backed(c, g, s, volume[s] + 0)  BY <1>3, CarriedBacked
<1>5. volume[s] + 0 = volume[s]  BY <1>3
<1>6. volume \in [Symbols -> Nat] /\ \A t \in Symbols : volume[t] <= volume[t]
  BY DEF TrackInv, Tracking
<1>7. Backed(c, g, s, volume[s])  BY <1>4, <1>5
<1>8. Tracking(g, cs, volume, unused)  BY <1>6, <1>7, TrackingOne
<1> HIDE DEF cs
<1> QED  BY <1>1, <1>2, <1>8, HeardIs

\* An event for the book, a trade in the same symbol and its tick.
LEMMA HeardTraded ==
    ASSUME TrackInv, NEW unused \in SUBSET fresh, NEW e, ForBook(e), NEW s \in Symbols, e.o.sym = s,
           NEW g, Table(g), DOMAIN g \subseteq Refs \ unused,
           NEW b, b = BookAfter(books[s], e), Carries(books[s], b, orders, g, s, 0),
           \A t \in Symbols : t # s => SameOf(orders, g, t),
           NEW o \in Live, o.sym = s, NEW aggr,
           NEW r, r.orders = g, r.events = <<e, ObTrade(o, aggr), TickEvent(o)>>
    PROVE  Heard(r, unused)
<1> DEFINE d == ObTrade(o, aggr)
           c == BookAfter(b, d)
           bs == [books EXCEPT ![s] = b]
           cs == [books EXCEPT ![s] = c]
<1>0. o.size \in Nat \ {0} /\ o.size \in Nat  BY DEF Live
<1>1. ForBook(d) /\ d.o = o  BY <1>0, AppliedTrade
<1>2. /\ Backed(books[s], orders, s, volume[s]) /\ volume[s] \in Nat /\ Table(orders)
      /\ books = [t \in Symbols |-> books[t]]
  BY BackedNow DEF TrackInv, Tracking, Rested
<1>3. bs[s] = b /\ [bs EXCEPT ![s] = c] = cs
  <2> HIDE DEF c
  <2> QED  BY <1>2
<1>4. HandleMessage(books, <<e, d, TickEvent(o)>>) = At(cs, <<o>>)
  <2>1. DispatchEvent(At(books, <<>>), e) = At(bs, <<>>)  BY BookEvent
  <2>2. DispatchEvent(At(bs, <<>>), d) = At([bs EXCEPT ![s] = BookAfter(bs[s], d)], <<>>)
    <3> HIDE DEF bs, d
    <3> QED  BY <1>1, BookEvent
  <2>3. [bs EXCEPT ![s] = BookAfter(bs[s], d)] = cs
    <3> HIDE DEF bs, cs, d
    <3> QED  BY <1>3
  <2>4. DispatchEvent(At(bs, <<>>), d) = At(cs, <<>>)
    <3> HIDE DEF bs, cs, c, d
    <3> QED  BY <2>2, <2>3
  <2>5. DispatchEvent(At(cs, <<>>), TickEvent(o)) = At(cs, <<o>>)
    <3> HIDE DEF cs
    <3> QED  BY TickOnly
  <2> HIDE DEF bs, cs, c, d
  <2> QED  BY <2>1, <2>4, <2>5, ThreeEvents
<1> DEFINE wol == Reported(<<o>>)
<1>5. /\ wol \in [Symbols -> Nat] /\ wol[s] = volume[s] + o.size
      /\ \A t \in Symbols : volume[t] <= wol[t]
  BY ReportedOne
<1> HIDE DEF wol
<1>6. Backed(b, g, s, volume[s] + 0)  BY <1>2, CarriedBacked
<1>7. volume[s] + 0 = volume[s]  BY <1>2
<1>8. Backed(b, g, s, volume[s]) /\ Standing(b, g, s)  BY <1>6, <1>7 DEF Backed
<1>9. Carries(b, c, g, g, s, o.size)  BY <1>8, TradeCarries
<1> HIDE DEF c
<1>10. Backed(c, g, s, wol[s])
  <2>1. Backed(c, g, s, volume[s] + o.size)  BY <1>0, <1>2, <1>8, <1>9, CarriedBacked
  <2> QED  BY <1>5, <2>1
<1>11. Tracking(g, cs, wol, unused)  BY <1>5, <1>10, TrackingOne
<1> HIDE DEF cs
<1> QED  BY <1>4, <1>11, HeardIs DEF wol, d

\* A trade against an order that is not displayed, and its tick.
LEMMA HeardTradeOnly ==
    ASSUME TrackInv, NEW unused \in SUBSET fresh, NEW o \in Live, NEW aggr,
           NEW r, r.orders = orders, r.events = <<ObTrade(o, aggr), TickEvent(o)>>
    PROVE  Heard(r, unused)
<1> DEFINE s == o.sym
           d == ObTrade(o, aggr)
           c == BookAfter(books[s], d)
           cs == [books EXCEPT ![s] = c]
<1>0. o.size \in Nat \ {0} /\ o.size \in Nat /\ s \in Symbols  BY DEF Live
<1>1. ForBook(d) /\ d.o = o  BY <1>0, AppliedTrade
<1>2. /\ Backed(books[s], orders, s, volume[s]) /\ Standing(books[s], orders, s)
      /\ volume[s] \in Nat /\ Table(orders)
  <2> HIDE DEF s
  <2> QED  BY <1>0, BackedNow
<1>3. DOMAIN orders \subseteq Refs \ unused  BY DEF TrackInv, Tracking
<1>4. HandleMessage(books, <<d, TickEvent(o)>>) = At(cs, <<o>>)
  <2>1. DispatchEvent(At(books, <<>>), d) = At(cs, <<>>)
    <3> HIDE DEF d
    <3> QED  BY <1>1, BookEvent
  <2>2. DispatchEvent(At(cs, <<>>), TickEvent(o)) = At(cs, <<o>>)
    <3> HIDE DEF cs
    <3> QED  BY TickOnly
  <2> HIDE DEF cs, d
  <2> QED  BY <2>1, <2>2, TwoEvents
<1> DEFINE wol == Reported(<<o>>)
<1>5. /\ wol \in [Symbols -> Nat] /\ wol[s] = volume[s] + o.size
      /\ \A t \in Symbols : volume[t] <= wol[t]
  BY ReportedOne
<1>6. \A t \in Symbols : SameOf(orders, orders, t)  BY DEF SameOf
<1> HIDE DEF wol, s
<1>7. Carries(books[s], c, orders, orders, s, o.size)  BY <1>2, TradeCarries
<1> HIDE DEF c
<1>8. Backed(c, orders, s, wol[s])
  <2>1. Backed(c, orders, s, volume[s] + o.size)  BY <1>0, <1>2, <1>7, CarriedBacked
  <2> QED  BY <1>5, <2>1
<1>9. Tracking(orders, cs, wol, unused)  BY <1>0, <1>2, <1>3, <1>5, <1>6, <1>8, TrackingOne
<1> HIDE DEF cs
<1> QED  BY <1>4, <1>9, HeardIs DEF wol, d

\* routeStockDirectory: a tick size moves no resting order.
LEMMA HeardDirectory ==
    ASSUME TrackInv, NEW s \in Symbols
    PROVE  Heard(RouteStockDirectory(orders, s), fresh)
<1> DEFINE r == RouteStockDirectory(orders, s)
           m == books[s]
           c == [m EXCEPT !.tick = DirectoryTick]
           cs == [books EXCEPT ![s] = c]
<1>1. r.orders = orders /\ r.events = <<ObTickSize(s)>>  BY DEF RouteStockDirectory
<1>2. HandleMessage(books, <<ObTickSize(s)>>) = At(cs, <<>>)  BY OneEvent, TickSizeOnly
<1>3. Reported(<<>>) = volume  BY ReportedNone
<1>4. Backed(m, orders, s, volume[s]) /\ Table(orders)  BY BackedNow
<1> HIDE DEF m
<1>5. m = [book |-> m.book, tick |-> m.tick, stale |-> m.stale]  BY <1>4 DEF Backed, Standing, DeskOK
<1>6. c = [book |-> m.book, tick |-> DirectoryTick, stale |-> m.stale]  BY <1>5
<1> HIDE DEF c
<1>7. c.book = m.book /\ c.tick = DirectoryTick /\ c.stale = m.stale  BY <1>6
<1>8. c = [book |-> c.book, tick |-> c.tick, stale |-> c.stale] /\ c.tick \in TickSizes
  BY <1>6, <1>7 DEF TickSizes
<1>9. Backed(c, orders, s, volume[s])
  BY <1>4, <1>7, <1>8 DEF Backed, Standing, DeskOK
<1>10. /\ volume \in [Symbols -> Nat] /\ \A t \in Symbols : volume[t] <= volume[t]
       /\ DOMAIN orders \subseteq Refs \ fresh
  BY DEF TrackInv, Tracking
<1>11. \A t \in Symbols : SameOf(orders, orders, t)  BY DEF SameOf
<1>12. Tracking(orders, cs, volume, fresh)  BY <1>4, <1>9, <1>10, <1>11, TrackingOne
<1> HIDE DEF cs, r
<1> QED  BY <1>1, <1>2, <1>3, <1>12, HeardIs DEF r

\* routeAddOrder
LEMMA HeardAdd ==
    ASSUME TrackInv, NEW ref \in fresh, NEW unused, unused = fresh \ {ref}, NEW o \in Live, NEW named
    PROVE  Heard(RouteAddOrder(orders, known, ref, o, named), unused)
<1> DEFINE r == RouteAddOrder(orders, known, ref, o, named)
           s == o.sym
           e == ObAdd(ref, o)
           g == With(orders, ref, o)
           c == BookAfter(books[s], e)
<1>1. CASE ~Resolves(known, o.sym, named)
  <2>1. r = Ignored(orders)  BY <1>1 DEF RouteAddOrder
  <2> QED  BY <2>1, HeardNothing
<1>2. CASE Resolves(known, o.sym, named)
  <2>0. /\ Table(orders) /\ fresh \subseteq Refs
        /\ DOMAIN orders \subseteq Refs \ fresh /\ Rested(books, orders, volume)
    BY DEF TrackInv, Tracking
  <2>1. r.orders = g /\ r.events = <<e>>  BY <1>2 DEF RouteAddOrder
  <2>2. s \in Symbols /\ o.size \in Nat \ {0} /\ ref \in Nat /\ ref \notin DOMAIN orders
    BY <2>0, FeedAssumption DEF Live
  <2>3. ForBook(e) /\ e.o.sym = s  BY <2>2, AppliedIs
  <2>4. Table(g)  BY <2>0, TableWith
  <2>5. DOMAIN g \subseteq Refs \ unused  BY <2>0 DEF With
  <2>6. Standing(books[s], orders, s)  BY <2>2, BackedNow
  <2>7. Carries(books[s], c, orders, g, s, 0)  BY <2>0, <2>2, <2>6, AddCarries
  <2> HIDE DEF r, e, c
  <2>8. \A t \in Symbols : t # s => SameOf(orders, g, t)  BY <2>2, OthersWith
  <2> HIDE DEF g, s
  <2> QED  BY <2>1, <2>2, <2>3, <2>4, <2>5, <2>7, <2>8, HeardOne DEF c, r
<1> QED  BY <1>1, <1>2

\* routeOrderDelete
LEMMA HeardDelete ==
    ASSUME TrackInv, NEW ref
    PROVE  Heard(RouteOrderDelete(orders, ref), fresh)
<1> DEFINE r == RouteOrderDelete(orders, ref)
           o == orders[ref]
           s == o.sym
           e == ObDelete(ref, o)
           g == Without(orders, ref)
           c == BookAfter(books[s], e)
<1>1. CASE ref \notin DOMAIN orders
  <2>1. r = Ignored(orders)  BY <1>1 DEF RouteOrderDelete
  <2> QED  BY <2>1, HeardNothing
<1>2. CASE ref \in DOMAIN orders
  <2>0. Table(orders) /\ DOMAIN orders \subseteq Refs \ fresh
    BY DEF TrackInv, Tracking
  <2>1. r.orders = g /\ r.events = <<e>>  BY <1>2 DEF RouteOrderDelete
  <2>2. s \in Symbols /\ o.size \in Nat \ {0} /\ Standing(books[s], orders, s)
    BY <1>2, TrackedOrder
  <2>3. ForBook(e) /\ e.o.sym = s  BY <2>2, AppliedIs
  <2>4. Table(g)  BY <2>0, TableWithout
  <2>5. DOMAIN g \subseteq Refs \ fresh  BY <2>0 DEF Without, Restrict
  <2>7. Carries(books[s], c, orders, g, s, 0)
    <3> HIDE DEF s, o
    <3> QED  BY <2>0, <2>2, DeleteCarries
  <2> HIDE DEF r, e, c
  <2>8. \A t \in Symbols : t # s => SameOf(orders, g, t)  BY <1>2, OthersWithout
  <2> HIDE DEF g, s, o
  <2> QED  BY <2>1, <2>2, <2>3, <2>4, <2>5, <2>7, <2>8, HeardOne DEF c, r
<1> QED  BY <1>1, <1>2

\* What a reduction by n shares is: one event and the table and book after it.
Reduced(ref, n, g, e) ==
    LET s == orders[ref].sym
        c == BookAfter(books[s], e)
    IN  /\ Reduce(orders, ref, n) = [orders |-> g, events |-> <<e>>]
        /\ ForBook(e) /\ e.o.sym = s
        /\ Table(g) /\ DOMAIN g \subseteq Refs \ fresh
        /\ Carries(books[s], c, orders, g, s, 0)
        /\ \A t \in Symbols : t # s => SameOf(orders, g, t)

\* routeOrderExecuted and routeOrderCancel
LEMMA ReduceIs ==
    ASSUME TrackInv, NEW ref \in DOMAIN orders, NEW n \in Nat \ {0}
    PROVE  \E g, e : Reduced(ref, n, g, e)
<1> DEFINE o == orders[ref]
           s == o.sym
<1>0. Table(orders) /\ DOMAIN orders \subseteq Refs \ fresh
  BY DEF TrackInv, Tracking
<1>1. /\ s \in Symbols /\ o.size \in Nat \ {0} /\ Standing(books[s], orders, s)
      /\ o \in Live
  BY TrackedOrder
<1>2. CASE n >= o.size
  <2> DEFINE g == Without(orders, ref)
             e == ObDelete(ref, o)
             c == BookAfter(books[s], e)
  <2>1. Reduce(orders, ref, n) = [orders |-> g, events |-> <<e>>]  BY <1>2 DEF Reduce
  <2>2. ForBook(e) /\ e.o.sym = s  BY <1>1, AppliedIs
  <2>3. Table(g)  BY <1>0, TableWithout
  <2>4. DOMAIN g \subseteq Refs \ fresh  BY <1>0 DEF Without, Restrict
  <2>5. Carries(books[s], c, orders, g, s, 0)
    <3> HIDE DEF s, o
    <3> QED  BY <1>0, <1>1, DeleteCarries
  <2> HIDE DEF e, c
  <2>6. \A t \in Symbols : t # s => SameOf(orders, g, t)  BY OthersWithout
  <2> HIDE DEF g
  <2>7. Reduced(ref, n, g, e)  BY <2>1, <2>2, <2>3, <2>4, <2>5, <2>6, Zenon DEF Reduced, c
  <2> QED  BY <2>7
<1>3. CASE ~(n >= o.size)
  <2> DEFINE z == o.size - n
             x == [o EXCEPT !.size = z]
             g == [orders EXCEPT ![ref] = x]
             e == ObUpdate(ref, x)
             c == BookAfter(books[s], e)
  <2>0. z \in Nat \ {0} /\ z <= o.size  BY <1>1, <1>3
  <2>1. Reduce(orders, ref, n) = [orders |-> g, events |-> <<e>>]  BY <1>3 DEF Reduce
  <2> HIDE DEF z
  <2>2. x \in Live /\ x.size = z /\ x.sym = s  BY <1>1, <2>0 DEF Live
  <2>3. ForBook(e) /\ e.o.sym = s
    <3> HIDE DEF x
    <3> QED  BY <2>0, <2>2, AppliedIs
  <2>4. Table(g) /\ DOMAIN g = DOMAIN orders
    <3> HIDE DEF x
    <3> QED  BY <1>0, <2>2 DEF Table
  <2>5. Carries(books[s], c, orders, g, s, 0)  BY <1>0, <1>1, <2>0, ResizeCarries
  <2> HIDE DEF e, c
  <2>6. \A t \in Symbols : t # s => SameOf(orders, g, t)  BY <1>0, OthersResized DEF Table
  <2> HIDE DEF g
  <2>7. DOMAIN g \subseteq Refs \ fresh  BY <1>0, <2>4
  <2>8. Reduced(ref, n, g, e)  BY <2>1, <2>3, <2>4, <2>5, <2>6, <2>7, Zenon DEF Reduced, c
  <2> QED  BY <2>8
<1> QED  BY <1>2, <1>3

\* routeOrderCancel
LEMMA HeardCancel ==
    ASSUME TrackInv, NEW ref, NEW n \in Nat \ {0}
    PROVE  Heard(RouteOrderCancel(orders, ref, n), fresh)
<1> DEFINE r == RouteOrderCancel(orders, ref, n)
<1>1. CASE ref \notin DOMAIN orders
  <2>1. r = Ignored(orders)  BY <1>1 DEF RouteOrderCancel
  <2> QED  BY <2>1, HeardNothing
<1>2. CASE ref \in DOMAIN orders
  <2> DEFINE s == orders[ref].sym
  <2>1. PICK g, e : Reduced(ref, n, g, e)  BY <1>2, ReduceIs
  <2> DEFINE c == BookAfter(books[s], e)
  <2>2. r.orders = g /\ r.events = <<e>>  BY <1>2, <2>1 DEF RouteOrderCancel, Reduced
  <2>3. s \in Symbols  BY <1>2, TrackedOrder
  <2>4. /\ ForBook(e) /\ e.o.sym = s
        /\ Table(g) /\ DOMAIN g \subseteq Refs \ fresh
        /\ Carries(books[s], c, orders, g, s, 0)
        /\ \A t \in Symbols : t # s => SameOf(orders, g, t)
    BY <2>1, Zenon DEF Reduced
  <2> HIDE DEF r, s
  <2> QED  BY <2>2, <2>3, <2>4, HeardOne DEF r
<1> QED  BY <1>1, <1>2

\* The trade and its tick come after the event of the reduction.
LEMMA TradeFollows == ASSUME NEW e, NEW d, NEW k PROVE <<e>> \o <<d, k>> = <<e, d, k>>
<1> DEFINE S == {e, d, k}
           a == <<e>>
           b == <<d, k>>
           c == <<e, d, k>>
<1>1. /\ a \in Seq(S) /\ b \in Seq(S) /\ c \in Seq(S) /\ Len(a) = 1 /\ Len(b) = 2 /\ Len(c) = 3
      /\ a[1] = e /\ b[1] = d /\ b[2] = k /\ c[1] = e /\ c[2] = d /\ c[3] = k
  OBVIOUS
<1> HIDE DEF S, a, b, c
<1>2. /\ a \o b \in Seq(S) /\ Len(a \o b) = 3
      /\ \A i \in 1 .. 3 : (a \o b)[i] = IF i <= 1 THEN a[i] ELSE b[i - 1]
  <2>1. a \in Seq(S) /\ b \in Seq(S)  BY <1>1
  <2>2. a \o b \in Seq(S) /\ Len(a \o b) = Len(a) + Len(b)  BY ONLY <2>1
  <2>3. /\ \A i \in 1 .. Len(a) : (a \o b)[i] = a[i]
        /\ \A i \in Len(a) + 1 .. Len(a) + Len(b) : (a \o b)[i] = b[i - Len(a)]
    BY ONLY <2>1, ConcatEntries
  <2>4. ASSUME NEW i \in 1 .. 3 PROVE (a \o b)[i] = IF i <= 1 THEN a[i] ELSE b[i - 1]
    <3>1. CASE i <= 1
      <4>1. i \in 1 .. Len(a)  BY <1>1, <3>1
      <4> QED  BY <2>3, <3>1, <4>1
    <3>2. CASE ~(i <= 1)
      <4>1. i \in Len(a) + 1 .. Len(a) + Len(b) /\ i - Len(a) = i - 1  BY <1>1, <3>2
      <4>2. (a \o b)[i] = b[i - Len(a)]  BY <2>3, <4>1
      <4> QED  BY <3>2, <4>1, <4>2
    <3> QED  BY <3>1, <3>2
  <2>5. Len(a) + Len(b) = 3  BY <1>1
  <2> QED  BY <2>2, <2>4, <2>5
<1>3. \A i \in 1 .. 3 : i = 1 \/ i = 2 \/ i = 3  OBVIOUS
<1>4. ASSUME NEW i \in 1 .. 3 PROVE (a \o b)[i] = c[i]
  <2>1. CASE i = 1  BY <1>1, <1>2, <2>1
  <2>2. CASE i = 2  BY <1>1, <1>2, <2>2
  <2>3. CASE i = 3  BY <1>1, <1>2, <2>3
  <2> QED  BY <1>3, <2>1, <2>2, <2>3
<1>5. a \o b = c  BY <1>1, <1>2, <1>4, SameSeq
<1> QED  BY <1>5 DEF a, b, c

\* routeOrderExecuted
LEMMA HeardExecuted ==
    ASSUME TrackInv, NEW ref, NEW n \in Nat \ {0}
    PROVE  Heard(RouteOrderExecuted(orders, ref, n), fresh)
<1> DEFINE r == RouteOrderExecuted(orders, ref, n)
<1>1. CASE ref \notin DOMAIN orders
  <2>1. r = Ignored(orders)  BY <1>1 DEF RouteOrderExecuted
  <2> QED  BY <2>1, HeardNothing
<1>2. CASE ref \in DOMAIN orders
  <2> DEFINE s == orders[ref].sym
             o == [orders[ref] EXCEPT !.size = n]
             a == Aggressor(orders[ref])
  <2>1. PICK g, e : Reduced(ref, n, g, e)  BY <1>2, ReduceIs
  <2> DEFINE c == BookAfter(books[s], e)
  <2>2. r.orders = g /\ r.events = <<e, ObTrade(o, a), TickEvent(o)>>
    <3> DEFINE q == Reduce(orders, ref, n)
               d == ObTrade(o, a)
               k == TickEvent(o)
    <3>1. r = [q EXCEPT !.events = q.events \o <<d, k>>]
      BY <1>2 DEF RouteOrderExecuted, TradeAndTick
    <3>2. q = [orders |-> g, events |-> <<e>>]  BY <2>1 DEF Reduced
    <3> HIDE DEF q, d, k, r
    <3>3. q.events = <<e>>  BY <3>2
    <3>4. <<e>> \o <<d, k>> = <<e, d, k>>  BY TradeFollows
    <3> QED  BY <3>1, <3>2, <3>3, <3>4 DEF d, k
  <2>3. s \in Symbols /\ orders[ref] \in Live  BY <1>2, TrackedOrder
  <2>4. o \in Live /\ o.sym = s  BY <2>3 DEF Live
  <2>5. /\ ForBook(e) /\ e.o.sym = s
        /\ Table(g) /\ DOMAIN g \subseteq Refs \ fresh
        /\ Carries(books[s], c, orders, g, s, 0)
        /\ \A t \in Symbols : t # s => SameOf(orders, g, t)
    BY <2>1, Zenon DEF Reduced
  <2> HIDE DEF r, s, o, a
  <2> QED  BY <2>2, <2>3, <2>4, <2>5, HeardTraded DEF r
<1> QED  BY <1>1, <1>2

\* routeTrade
LEMMA HeardTrade ==
    ASSUME TrackInv, NEW t \in Live, NEW aggr, NEW named
    PROVE  Heard(RouteTrade(orders, known, t, aggr, named), fresh)
<1> DEFINE r == RouteTrade(orders, known, t, aggr, named)
<1>1. CASE ~Resolves(known, t.sym, named)
  <2>1. r = Ignored(orders)  BY <1>1 DEF RouteTrade
  <2> QED  BY <2>1, HeardNothing
<1>2. CASE Resolves(known, t.sym, named)
  <2>1. [t EXCEPT !.size = t.size] = t  BY DEF Live
  <2>2. r.orders = orders /\ r.events = <<ObTrade(t, aggr), TickEvent(t)>>
    BY <1>2, <2>1 DEF RouteTrade, TradeAndTick
  <2> HIDE DEF r
  <2> QED  BY <2>2, HeardTradeOnly DEF r
<1> QED  BY <1>1, <1>2

\* routeOrderReplace: a deletion and an addition in the same symbol.
LEMMA HeardReplace ==
    ASSUME TrackInv, NEW orig, NEW ref \in fresh, NEW unused, unused = fresh \ {ref},
           NEW p \in VenuePrices, NEW z \in Nat \ {0}
    PROVE  Heard(RouteOrderReplace(orders, orig, ref, p, z), unused)
<1> DEFINE r == RouteOrderReplace(orders, orig, ref, p, z)
<1>1. CASE orig \notin DOMAIN orders
  <2>1. r = Ignored(orders)  BY <1>1 DEF RouteOrderReplace
  <2> QED  BY <2>1, HeardNothing
<1>2. CASE orig \in DOMAIN orders
  <2> DEFINE o == orders[orig]
             s == o.sym
             new == [o EXCEPT !.price = p, !.size = z]
             f == Without(orders, orig)
             g == With(f, ref, new)
             e == ObDelete(orig, o)
             d == ObAdd(ref, new)
             b == BookAfter(books[s], e)
             c == BookAfter(b, d)
             bs == [books EXCEPT ![s] = b]
             cs == [books EXCEPT ![s] = c]
  <2>0. /\ Table(orders) /\ DOMAIN orders \subseteq Refs \ fresh /\ fresh \subseteq Refs
        /\ books = [t \in Symbols |-> books[t]] /\ volume \in [Symbols -> Nat]
    BY DEF TrackInv, Tracking, Rested
  <2>1. r.orders = g /\ r.events = <<e, d>>  BY <1>2 DEF RouteOrderReplace
  <2>2. /\ s \in Symbols /\ o.size \in Nat \ {0} /\ o \in Live
        /\ Backed(books[s], orders, s, volume[s]) /\ Standing(books[s], orders, s)
    BY <1>2, TrackedOrder
  <2>3. new \in Live /\ new.sym = s /\ new.size = z  BY <2>2 DEF Live
  <2> HIDE DEF new
  <2>4. ForBook(e) /\ e.o.sym = s  BY <2>2, AppliedIs
  <2>5. ForBook(d) /\ d.o.sym = s  BY <2>3, AppliedIs
  <2>6. /\ DOMAIN f = DOMAIN orders \ {orig} /\ DOMAIN g = DOMAIN f \cup {ref}
    BY DEF Without, Restrict, With
  <2>7. Table(f)  BY <2>0, TableWithout
  <2>8. \A t \in Symbols : t # s => SameOf(orders, f, t)  BY <1>2, OthersWithout
  <2>9. Carries(books[s], b, orders, f, s, 0)
    <3> HIDE DEF s, o
    <3> QED  BY <2>0, <2>2, DeleteCarries
  <2> HIDE DEF f
  <2>10. Table(g)  BY <2>3, <2>7, TableWith
  <2>11. ref \in Nat /\ ref \notin DOMAIN f /\ DOMAIN g \subseteq Refs \ unused
    BY <2>0, <2>6, FeedAssumption
  <2> HIDE DEF b, o
  <2>12. Backed(b, f, s, volume[s]) /\ Standing(b, f, s) /\ volume[s] \in Nat
    <3>1. volume[s] \in Nat /\ volume[s] + 0 = volume[s]  BY <2>0, <2>2
    <3>2. Backed(b, f, s, volume[s] + 0)  BY <2>0, <2>2, <2>7, <2>9, <3>1, CarriedBacked
    <3> QED  BY <3>1, <3>2 DEF Backed
  <2>13. Carries(b, c, f, g, s, 0)
    <3> HIDE DEF s
    <3> QED  BY <2>3, <2>7, <2>11, <2>12, AddCarries
  <2> HIDE DEF c
  <2>14. Backed(c, g, s, volume[s])
    <3>1. volume[s] + 0 = volume[s]  BY <2>12
    <3>2. Backed(c, g, s, volume[s] + 0)  BY <2>7, <2>10, <2>12, <2>13, CarriedBacked
    <3> QED  BY <3>1, <3>2
  <2>15. ASSUME NEW t \in Symbols, t # s PROVE SameOf(orders, g, t)
    <3>1. SameOf(orders, f, t)  BY <2>8, <2>15
    <3>2. SameOf(f, g, t)
      <4> HIDE DEF s
      <4> QED  BY <2>3, <2>11, <2>15, OthersWith
    <3> HIDE DEF g
    <3> QED  BY <3>1, <3>2 DEF SameOf
  <2> HIDE DEF e, d, g, s
  <2>16. bs[s] = b /\ [bs EXCEPT ![s] = c] = cs  BY <2>0, <2>2
  <2>17. HandleMessage(books, <<e, d>>) = At(cs, <<>>)
    <3>1. DispatchEvent(At(books, <<>>), e) = At(bs, <<>>)  BY <2>4, BookEvent DEF b
    <3> HIDE DEF bs
    <3>2. DispatchEvent(At(bs, <<>>), d) = At([bs EXCEPT ![s] = BookAfter(bs[s], d)], <<>>)
      BY <2>5, BookEvent
    <3>3. DispatchEvent(At(bs, <<>>), d) = At(cs, <<>>)
      <4> HIDE DEF cs
      <4> QED  BY <2>16, <3>2 DEF c
    <3> HIDE DEF cs
    <3> QED  BY <3>1, <3>3, TwoEvents
  <2>18. Reported(<<>>) = volume  BY ReportedNone
  <2>19. unused \subseteq fresh /\ \A t \in Symbols : volume[t] <= volume[t]  BY <2>0
  <2>20. Tracking(g, cs, volume, unused)
    BY <2>0, <2>2, <2>10, <2>11, <2>14, <2>15, <2>19, TrackingOne
  <2> HIDE DEF cs, r
  <2> QED  BY <2>1, <2>17, <2>18, <2>20, HeardIs DEF r
<1> QED  BY <1>1, <1>2

\* A message changes the table and the books as its handler says, or nothing.
LEMMA HearTracks ==
    ASSUME TrackInv, NEW r, NEW learnt, Hear(r, learnt), fresh' \subseteq fresh, Heard(r, fresh')
    PROVE  TrackInv'
<1>1. CASE Reading /\ orders' = r.orders
           /\ books' = HandleMessage(books, r.events).books
           /\ volume' = [s \in Symbols |-> volume[s] + VolumeOf(HandleMessage(books, r.events).ticks, s)]
  <2>1. Tracking(orders', books', volume', fresh')
    BY <1>1, Zenon DEF Heard, Reported
  <2> QED  BY <2>1 DEF TrackInv
<1>2. CASE UNCHANGED adapterVars
  <2>1. orders' = orders /\ books' = books /\ volume' = volume  BY <1>2 DEF adapterVars
  <2>2. Tracking(orders, books, volume, fresh')  BY DEF TrackInv, Tracking
  <2> QED  BY <2>1, <2>2 DEF TrackInv
<1> QED  BY <1>1, <1>2 DEF Hear

\* One message of the venue.
LEMMA VenueTracks == ASSUME TrackInv, VenueStep PROVE TrackInv'
<1>0. VenueOrder \subseteq Live /\ Quantity \subseteq Nat \ {0} /\ Sizes \subseteq Nat \ {0}
  BY BookAssumption DEF VenueOrder, Live, Quantity
<1>1. ASSUME NEW s \in Symbols, VenueDirectory(s) PROVE TrackInv'
  <2>1. Hear(RouteStockDirectory(orders, s), {s}) /\ fresh' = fresh  BY <1>1 DEF VenueDirectory
  <2>2. Heard(RouteStockDirectory(orders, s), fresh)  BY HeardDirectory
  <2> QED  BY <2>1, <2>2, HearTracks
<1>2. ASSUME NEW ref \in fresh, NEW o \in VenueOrder, NEW named \in BOOLEAN, VenueAdd(ref, o, named)
      PROVE  TrackInv'
  <2>1. Hear(RouteAddOrder(orders, known, ref, o, named), {}) /\ fresh' = fresh \ {ref}
    BY <1>2 DEF VenueAdd
  <2>2. Heard(RouteAddOrder(orders, known, ref, o, named), fresh')  BY <1>0, <2>1, HeardAdd
  <2> QED  BY <2>1, <2>2, HearTracks
<1>3. ASSUME NEW ref \in DOMAIN venue, NEW n \in Quantity, VenueExecute(ref, n) PROVE TrackInv'
  <2>1. Hear(RouteOrderExecuted(orders, ref, n), {}) /\ fresh' = fresh  BY <1>3 DEF VenueExecute
  <2>2. Heard(RouteOrderExecuted(orders, ref, n), fresh)  BY <1>0, HeardExecuted
  <2> QED  BY <2>1, <2>2, HearTracks
<1>4. ASSUME NEW ref \in DOMAIN venue, NEW n \in Quantity, VenueCancel(ref, n) PROVE TrackInv'
  <2>1. Hear(RouteOrderCancel(orders, ref, n), {}) /\ fresh' = fresh  BY <1>4 DEF VenueCancel
  <2>2. Heard(RouteOrderCancel(orders, ref, n), fresh)  BY <1>0, HeardCancel
  <2> QED  BY <2>1, <2>2, HearTracks
<1>5. ASSUME NEW ref \in DOMAIN venue, VenueDelete(ref) PROVE TrackInv'
  <2>1. Hear(RouteOrderDelete(orders, ref), {}) /\ fresh' = fresh  BY <1>5 DEF VenueDelete
  <2>2. Heard(RouteOrderDelete(orders, ref), fresh)  BY HeardDelete
  <2> QED  BY <2>1, <2>2, HearTracks
<1>6. ASSUME NEW orig \in DOMAIN venue, NEW ref \in fresh, NEW p \in VenuePrices, NEW z \in Sizes,
             VenueReplace(orig, ref, p, z)
      PROVE  TrackInv'
  <2>1. Hear(RouteOrderReplace(orders, orig, ref, p, z), {}) /\ fresh' = fresh \ {ref}
    BY <1>6 DEF VenueReplace
  <2>2. Heard(RouteOrderReplace(orders, orig, ref, p, z), fresh')  BY <1>0, <2>1, HeardReplace
  <2> QED  BY <2>1, <2>2, HearTracks
<1>7. ASSUME NEW t \in VenueOrder, NEW aggr, NEW named \in BOOLEAN, VenueTrade(t, aggr, named)
      PROVE  TrackInv'
  <2>1. Hear(RouteTrade(orders, known, t, aggr, named), {}) /\ fresh' = fresh  BY <1>7 DEF VenueTrade
  <2>2. Heard(RouteTrade(orders, known, t, aggr, named), fresh)  BY <1>0, HeardTrade
  <2> QED  BY <2>1, <2>2, HearTracks
<1> QED  BY <1>1, <1>2, <1>3, <1>4, <1>5, <1>6, <1>7 DEF VenueStep

\* The book of a symbol that is reset rests on nothing from then on.
LEMMA ResetTracks == ASSUME TrackInv, NEW s \in Symbols, Reset(s) PROVE TrackInv'
<1> DEFINE m == books[s]
           c == [m EXCEPT !.stale = TRUE]
           cs == [books EXCEPT ![s] = c]
<1>1. orders' = orders /\ books' = cs /\ volume' = volume /\ fresh' = fresh
  BY DEF Reset, venueVars
<1>2. Backed(m, orders, s, volume[s]) /\ Table(orders)  BY BackedNow
<1> HIDE DEF m
<1>3. m = [book |-> m.book, tick |-> m.tick, stale |-> m.stale]  BY <1>2 DEF Backed, Standing, DeskOK
<1>4. c = [book |-> m.book, tick |-> m.tick, stale |-> TRUE]
  <2>1. \A v : [m EXCEPT !.stale = v] = [book |-> m.book, tick |-> m.tick, stale |-> v]  BY <1>3
  <2> QED  BY <2>1, Zenon
<1> HIDE DEF c
<1>5. c.book = m.book /\ c.tick = m.tick /\ c.stale = TRUE  BY <1>4
<1>6. c = [book |-> c.book, tick |-> c.tick, stale |-> c.stale]  BY <1>4, <1>5
<1>7. Backed(c, orders, s, volume[s])  BY <1>2, <1>5, <1>6 DEF Backed, Standing, DeskOK
<1>8. /\ volume \in [Symbols -> Nat] /\ \A t \in Symbols : volume[t] <= volume[t]
      /\ DOMAIN orders \subseteq Refs \ fresh
  BY DEF TrackInv, Tracking
<1>9. \A t \in Symbols : SameOf(orders, orders, t)  BY DEF SameOf
<1>10. Tracking(orders, cs, volume, fresh)  BY <1>2, <1>7, <1>8, <1>9, TrackingOne
<1> HIDE DEF cs
<1> QED  BY <1>1, <1>10 DEF TrackInv

\* The client's own steps leave the table and the books alone.
LEMMA FeedTracks == (FeedInit => TrackInv) /\ (TrackInv /\ [FeedNext]_allVars => TrackInv')
<1>1. ASSUME FeedInit PROVE TrackInv
  <2>1. /\ orders = <<>> /\ fresh = Refs /\ books = [s \in Symbols |-> NewSymbol]
        /\ volume = [s \in Symbols |-> 0]
    BY <1>1 DEF FeedInit
  <2>2. DOMAIN orders = {} /\ Table(orders)
    <3>1. DOMAIN orders = {} /\ orders \in [DOMAIN orders -> Live]  BY <2>1
    <3> QED  BY <3>1, FS_EmptySet DEF Table
  <2>3. /\ NewSymbol.book = EmptyBook /\ NewSymbol.tick = DefaultTick
        /\ NewSymbol = [book |-> NewSymbol.book, tick |-> NewSymbol.tick, stale |-> NewSymbol.stale]
    BY DEF NewSymbol
  <2>4. ASSUME NEW s \in Symbols PROVE Backed(books[s], orders, s, volume[s])
    <3>1. books[s] = NewSymbol /\ volume[s] = 0  BY <2>1
    <3>2. BookOK(EmptyBook) /\ Within(EmptyBook, orders, s)  BY EmptyOK, EmptyHeld DEF Within
    <3>3. QuotedOf(orders, s) = {} /\ IsFiniteSet({})  BY <2>2, FS_EmptySet DEF QuotedOf
    <3>4. Lack(EmptyBook, orders, s) = 0  BY <3>3, SumFirst DEF Lack
    <3>5. DeskOK(NewSymbol)  BY <2>3, <3>2 DEF DeskOK, TickSizes
    <3> QED  BY <2>3, <3>1, <3>2, <3>4, <3>5 DEF Backed, Standing
  <2>5. books = [s \in Symbols |-> books[s]]  BY <2>1
  <2>6. volume \in [Symbols -> Nat]  BY <2>1
  <2> QED  BY <2>1, <2>2, <2>4, <2>5, <2>6 DEF TrackInv, Tracking, Rested
<1>2. ASSUME TrackInv, [FeedNext]_allVars PROVE TrackInv'
  <2>1. CASE VenueStep  BY <1>2, <2>1, VenueTracks
  <2>2. ASSUME NEW s \in Symbols, Reset(s) PROVE TrackInv'  BY <1>2, <2>2, ResetTracks
  <2>3. CASE UNCHANGED feedVars
    <3>1. orders' = orders /\ books' = books /\ volume' = volume /\ fresh' = fresh
      BY <2>3 DEF feedVars, venueVars, adapterVars
    <3> QED  BY <1>2, <3>1 DEF TrackInv
  <2> QED  BY <1>2, <2>1, <2>2, <2>3 DEF FeedNext, ClientStep, allVars
<1> QED  BY <1>1, <1>2

\* Whatever messages were lost, in whatever order the venue adds, executes, cancels,
\* deletes, replaces and trades and a control line resets a symbol, every order in
\* a book that is not stale is one that ItchAdapter's orders_ tracks, in its symbol
\* and side, at its price in ticks and with no more shares; and as long as its
\* symbol has not traded that book holds all that is tracked for it at prices
\* OrderBookManager refuses under neither tick size.
THEOREM BookWithinTheorem == FeedSpec => []BookWithinTracking
<1>1. TrackInv => BookWithinTracking
  <2> SUFFICES ASSUME TrackInv, NEW s \in Symbols, ~books[s].stale
               PROVE  /\ \A k \in DOMAIN books[s].book.byId :
                            /\ k.id \in DOMAIN orders
                            /\ orders[k.id].sym = s
                            /\ Resting(books[s].book, k).side = orders[k.id].side
                            /\ \E t \in TickSizes : Resting(books[s].book, k).price = ToTicks(t, orders[k.id].price)
                            /\ Resting(books[s].book, k).size <= orders[k.id].size
                      /\ volume[s] = 0 =>
                            \A r \in DOMAIN orders : orders[r].sym = s /\ Quoted(orders[r].price) =>
                                /\ BookKey(r) \in DOMAIN books[s].book.byId
                                /\ Resting(books[s].book, BookKey(r)).size = orders[r].size
    BY DEF BookWithinTracking
  <2> DEFINE b == books[s].book
  <2>1. /\ BookOK(b) /\ Within(b, orders, s) /\ Lack(b, orders, s) <= volume[s]
        /\ DOMAIN orders \subseteq Nat /\ Table(orders)
    BY FeedAssumption DEF TrackInv, Tracking, Rested, Backed, Standing, DeskOK
  <2> HIDE DEF b
  <2>2. ASSUME NEW k \in DOMAIN b.byId
        PROVE  /\ k.id \in DOMAIN orders
               /\ orders[k.id].sym = s
               /\ Resting(b, k).side = orders[k.id].side
               /\ \E t \in TickSizes : Resting(b, k).price = ToTicks(t, orders[k.id].price)
               /\ Resting(b, k).size <= orders[k.id].size
    <3> DEFINE x == Resting(b, k)
    <3>1. x \in Held(b) /\ x.key = k  BY <2>1, HeldIndexed
    <3>2. PICK r \in DOMAIN orders : orders[r].sym = s /\ Stands(x, r, orders[r])  BY <2>1, <3>1 DEF Within
    <3> HIDE DEF x
    <3>3. k.id = r  BY <2>1, <3>1, <3>2, KeyTells DEF Stands
    <3>4. /\ k.id \in DOMAIN orders /\ orders[k.id].sym = s /\ x.side = orders[k.id].side
          /\ \E t \in TickSizes : x.price = ToTicks(t, orders[k.id].price)
          /\ x.size <= orders[k.id].size
      BY <3>2, <3>3 DEF Stands
    <3> QED  BY <3>4 DEF x
  <2>3. ASSUME volume[s] = 0, NEW r \in DOMAIN orders, orders[r].sym = s, Quoted(orders[r].price)
        PROVE  BookKey(r) \in DOMAIN b.byId /\ Resting(b, BookKey(r)).size = orders[r].size
    <3> DEFINE d == Owed(b, orders)
               l == Left(b, BookKey(r))
               z == orders[r].size
    <3>1. r \in QuotedOf(orders, s)  BY <2>3 DEF QuotedOf
    <3>2. IsFiniteSet(QuotedOf(orders, s)) /\ \A q \in QuotedOf(orders, s) : d[q] \in Nat  BY <2>1, LackNat
    <3>3. SumFunctionOnSet(d, QuotedOf(orders, s)) <= 0  BY <2>1, <2>3 DEF Lack
    <3>4. d[r] = z - l  BY DEF Owed
    <3>5. l \in Nat /\ z \in Nat \ {0}  BY <2>1, LeftIs DEF Table, Live
    <3> HIDE DEF d, l, z
    <3>6. d[r] = 0  BY <3>1, <3>2, <3>3, SumZero
    <3>7. l = z /\ l # 0  BY <3>4, <3>5, <3>6
    <3> QED  BY <3>7 DEF l, z, Left
  <2> QED  BY <2>2, <2>3 DEF b
<1> QED  BY <1>1, FeedTracks, PTL DEF FeedSpec

\* The shares of the table are those in the book and those that are owed.
LEMMA SharesAre ==
    ASSUME NEW b, BookOK(b), NEW f, Table(f), NEW s, Within(b, f, s), DOMAIN f \subseteq Nat
    PROVE  SharesOf(f, s) - SharesIn(b, QuotedOf(f, s)) = Lack(b, f, s)
<1> DEFINE T == QuotedOf(f, s)
           K == {k \in DOMAIN b.byId : k.id \in T}
           size == [r \in DOMAIN f |-> f[r].size]
           left == [r \in T |-> Left(b, BookKey(r))]
           rest == [k \in DOMAIN b.byId |-> Resting(b, k).size]
           owed == Owed(b, f)
           id == [k \in K |-> k.id]
           key == [r \in T |-> BookKey(r)]
           Z == SumFunctionOnSet(size, T)
           L == SumFunctionOnSet(left, T)
           R == SumFunctionOnSet(rest, K)
           O == SumFunctionOnSet(owed, T)
<1>1. IsFiniteSet(T) /\ O \in Nat /\ \A r \in T : owed[r] \in Nat  BY LackNat DEF Lack
<1>2. \A k : Left(b, k) \in Nat  BY LeftIs
<1>3. \A r \in T : left[r] \in Nat /\ size[r] = left[r] + owed[r]
  <2> TAKE r \in T
  <2> DEFINE l == Left(b, BookKey(r))
             z == f[r].size
  <2>1. left[r] = l /\ size[r] = z /\ owed[r] = z - l  BY DEF QuotedOf, Owed
  <2>2. l \in Nat /\ z \in Nat  BY <1>2 DEF QuotedOf, Table, Live
  <2> HIDE DEF l, z, left, size, owed
  <2> QED  BY <2>1, <2>2
<1>4. Z = L + O
  <2> HIDE DEF T, size, left, owed
  <2> QED  BY <1>1, <1>3, SumPlus
<1>5. ASSUME NEW k \in K
      PROVE  /\ id[k] \in T /\ BookKey(id[k]) = k
             /\ rest[k] = Left(b, k) /\ rest[k] \in Nat /\ rest[k] = left[id[k]]
  <2> DEFINE x == Resting(b, k)
  <2>1. x \in Held(b) /\ x.key = k  BY HeldIndexed
  <2>2. PICK r \in DOMAIN f : f[r].sym = s /\ Stands(x, r, f[r])  BY <2>1 DEF Within
  <2>3. k = BookKey(r) /\ k.id = r  BY <2>1, <2>2, KeyTells DEF Stands
  <2>4. id[k] = r /\ r \in T  BY <2>3
  <2>5. rest[k] = Left(b, k)  BY DEF Left
  <2>6. left[r] = Left(b, BookKey(r))  BY <2>4
  <2> HIDE DEF T, left, id, rest, K
  <2> QED  BY <1>2, <2>3, <2>4, <2>5, <2>6
<1>6. ASSUME NEW r \in T, left[r] # 0 PROVE key[r] \in K /\ left[r] = rest[key[r]]
  <2>1. left[r] = Left(b, BookKey(r)) /\ key[r] = BookKey(r)  OBVIOUS
  <2>2. BookKey(r) \in K
    <3>1. BookKey(r) \in DOMAIN b.byId  BY <1>6, <2>1 DEF Left
    <3>2. BookKey(r).id = r  BY KeyTells DEF QuotedOf
    <3> QED  BY <3>1, <3>2
  <2> HIDE DEF left, key, rest
  <2> QED  BY <1>5, <2>1, <2>2
<1>7. IsFiniteSet(K)
  <2>1. id \in [K -> T]  BY <1>5
  <2>2. \A k, l \in K : id[k] = id[l] => k = l
    <3> SUFFICES ASSUME NEW k \in K, NEW l \in K, id[k] = id[l] PROVE k = l  OBVIOUS
    <3>1. BookKey(id[k]) = k /\ BookKey(id[l]) = l  BY <1>5
    <3> HIDE DEF id
    <3> QED  BY <3>1
  <2> HIDE DEF K, T, id
  <2>3. id \in Injection(K, T)  BY <2>1, <2>2 DEF Injection, IsInjective
  <2> QED  BY <1>1, <2>3, FS_Injection
<1>8. \A r \in T : key[r] = BookKey(r)  OBVIOUS
<1>9. SharesOf(f, s) = Z /\ SharesIn(b, T) = R /\ Lack(b, f, s) = O
  BY DEF SharesOf, SharesIn, Lack
<1> HIDE DEF T, K, size, left, rest, owed, id, key
<1>10. R <= L
  <2>1. Covers(id, rest, K, left, T)
    <3>1. \A k \in K : id[k] \in T /\ rest[k] <= left[id[k]]  BY <1>5
    <3>2. \A k, l \in K : id[k] = id[l] => k = l
      <4> SUFFICES ASSUME NEW k \in K, NEW l \in K, id[k] = id[l] PROVE k = l  OBVIOUS
      <4>1. BookKey(id[k]) = k /\ BookKey(id[l]) = l  BY <1>5
      <4> QED  BY <4>1
    <3> QED  BY <3>1, <3>2 DEF Covers
  <2> QED  BY <1>1, <1>3, <1>5, <1>7, <2>1, SumCovered
<1>11. L <= R
  <2>1. Covers(key, left, T, rest, K)
    <3>1. \A r \in T : left[r] # 0 => key[r] \in K /\ left[r] <= rest[key[r]]  BY <1>3, <1>6
    <3>2. \A r, q \in T : key[r] = key[q] => r = q  BY <1>8, KeyTells
    <3> QED  BY <3>1, <3>2 DEF Covers
  <2>2. \A k \in K : rest[k] \in Nat  BY <1>5
  <2> QED  BY <1>1, <1>3, <1>7, <2>1, <2>2, SumCovered
<1>12. L \in Nat /\ R \in Nat
  <2>1. \A k \in K : rest[k] \in Nat  BY <1>5
  <2> QED  BY <1>1, <1>3, <1>7, <2>1, SumNatural
<1> HIDE DEF Z, L, R, O
<1> QED  BY <1>1, <1>4, <1>9, <1>10, <1>11, <1>12 DEF T

\* An execution takes its shares from the book twice, once in routeOrderExecuted's
\* update and once in its trade; but as long as no message was lost a book that is
\* not stale is short of no more shares of the venue's orders than its ticks have
\* reported, and never holds more than the venue, leaving aside the orders at
\* prices OrderBookManager refuses.
THEOREM ShortByVolumeTheorem == FeedSpec => []ShortByVolumeAtMost
<1>1. TrackInv /\ TrackingExact => ShortByVolumeAtMost
  <2> SUFFICES ASSUME TrackInv, TrackingExact, lost = 0, NEW s \in Symbols, ~books[s].stale
               PROVE  SharesOf(venue, s) - SharesIn(books[s].book, QuotedOf(venue, s)) \in 0 .. volume[s]
    BY DEF ShortByVolumeAtMost
  <2> DEFINE b == books[s].book
  <2>1. venue = orders  BY DEF TrackingExact
  <2>2. /\ BookOK(b) /\ Within(b, orders, s) /\ Lack(b, orders, s) <= volume[s]
        /\ DOMAIN orders \subseteq Nat /\ Table(orders) /\ volume[s] \in Nat
    BY FeedAssumption DEF TrackInv, Tracking, Rested, Backed, Standing, DeskOK
  <2> HIDE DEF b
  <2>3. SharesOf(orders, s) - SharesIn(b, QuotedOf(orders, s)) = Lack(b, orders, s)  BY <2>2, SharesAre
  <2>4. Lack(b, orders, s) \in Nat  BY <2>2, LackNat
  <2> QED  BY <2>1, <2>2, <2>3, <2>4 DEF b
<1> QED  BY <1>1, FeedTracks, TrackingTheorem, PTL DEF FeedSpec
=============================================================================

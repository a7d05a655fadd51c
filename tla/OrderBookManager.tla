-------------------------- MODULE OrderBookManager --------------------------
(***************************************************************************)
(* gma::OrderBookManager for one symbol (src/connectors/market/src/book/   *)
(* OrderBookManager.cpp), over the book of OrderBookSpec.  All feeds run   *)
(* on the one thread of the io_context, so the only writer is the feed     *)
(* thread; a mutator changes the book and publishes its delta in two       *)
(* steps.  Readers of depth run on the pool: buildSnapshot() takes a lock  *)
(* per field it copies.                                                    *)
(***************************************************************************)
EXTENDS OrderBookSpec

CONSTANTS LevelLists,  \* the other kind of snapshot
          SummaryLevels, Totals, Counts,  \* arguments of onLevelSummary
          Epochs,      \* arguments of onReset
          MaxSeq,      \* bound: venue sequence numbers
          MaxOps,      \* bound: calls made by the feed thread
          MaxReads,    \* bound: buildSnapshot() calls
          TopN         \* buildSnapshot's levels

ASSUME ManagerBounds == {MaxSeq, MaxListed, MaxSynthetic, MaxOps, MaxReads, TopN} \subseteq Nat

VARIABLES
    feed,    \* feed_[symbol]: [lastSeq, epoch, stale]
    delta,   \* what mutateWithDelta_ is about to publish: one delta or none, a sequence
    log,     \* history: the deltas published, log[n] having seq n
    have,    \* history: the venue messages accepted since the last baseline
    reader,  \* a pool thread in buildSnapshot(): its copy so far
    silent,  \* history: since that call began, one of the two kinds whose delta leaves
             \* out levels: a snapshot, or an add whose id rests at another level
    ops, reads

managerVars == <<book, feed, delta, log, have, reader, silent, ops, reads>>

readerVars == <<reader, reads>>

NoReader == [pc |-> "done", epoch |-> 0, seq |-> 0, bids |-> <<>>, asks |-> <<>>]

ManagerInit ==
    /\ book = EmptyBook
    /\ feed = [lastSeq |-> 0, epoch |-> 0, stale |-> FALSE]
    /\ delta = <<>> /\ log = <<>> /\ have = {}
    /\ reader = NoReader /\ silent = FALSE
    /\ ops = 0 /\ reads = 0

-----------------------------------------------------------------------------
(* Deltas                                                                  *)

\* The feed thread is between two calls, and gate_() lets this one through.
Gate == ops < MaxOps /\ delta = <<>> /\ ~feed.stale

Tob(b, s) == IF Best(b, s) = None THEN None ELSE <<Best(b, s), BestSize(b, s)>>

\* The new top of one side: reported when it changed and there still is one.
NewTob(old, new, s) ==
    IF Tob(new, s) # Tob(old, s) THEN Tob(new, s) ELSE None

\* maybePublishDelta_() publishes nothing at all when all three are empty.
DeltaOf(levels, bid, ask) ==
    IF levels = {} /\ bid = None /\ ask = None THEN <<>>
    ELSE << [levels |-> levels, bid |-> bid, ask |-> ask] >>

\* The level changes found by probing the candidates before and after.
Probe(old, new, candidates) ==
    {[side |-> c[1], price |-> c[2], total |-> LevelSize(new, c[1], c[2])] :
        c \in {d \in candidates : LevelSize(new, d[1], d[2]) # LevelSize(old, d[1], d[2])}}

\* Everything a new book value implies for the histories.
Becomes(new, d, unnamed) ==
    /\ book' = new
    /\ delta' = d
    /\ ops' = ops + 1
    /\ silent' = (silent \/ unnamed)

\* mutateWithDelta_(); `changed' is what the mutator returns.
MutateWithDelta(new, changed, candidates, unnamed) ==
    /\ changed
    /\ Becomes(new, DeltaOf(Probe(book, new, candidates),
                            NewTob(book, new, "bid"), NewTob(book, new, "ask")), unnamed)
    /\ UNCHANGED <<feed, log, have, readerVars>>

\* ++pubSeq_ and the handlers, which get the deltas in order.
Publish ==
    /\ delta # <<>>
    /\ log' = log \o delta
    /\ delta' = <<>>
    /\ UNCHANGED <<book, feed, have, readerVars, silent, ops>>

-----------------------------------------------------------------------------
(* Mutators.  Invalid sides, prices and sizes are turned away before any    *)
(* effect: the arguments range over valid ones.                             *)

OnAdd(id, scope, side, price, size) ==
    LET new == AddScoped(book, id, scope, id = 0, side, price, size, 0)
        k == ScopedKey(book, id, scope, id = 0)
    IN  /\ Gate
        /\ Cardinality(DOMAIN new.byId) <= MaxListed
        /\ new.synth[scope] <= MaxSynthetic + 1
        /\ MutateWithDelta(new, TRUE, {<<side, price>>},
                           k \in LiveKeys /\ book.byId[k] # [side |-> side, price |-> price])

\* locate(): where the order rests now.
Place(k) == {<<book.byId[k].side, book.byId[k].price>>}

\* Defect: the level the order moves to is not probed.
UpdateCandidatesOld(k, newPrice) == Place(k)

UpdateCandidates(k, newPrice) ==
    Place(k) \cup (IF newPrice = None THEN {} ELSE {<<book.byId[k].side, newPrice>>})

OnUpdate(k, newPrice, newSize) ==
    /\ Gate
    /\ newPrice # None \/ newSize # None
    /\ MutateWithDelta(Update(book, k, newPrice, newSize),
                       UpdateChanges(book, k, newPrice, newSize),
                       UpdateCandidates(k, newPrice), FALSE)

OnDelete(k) == Gate /\ MutateWithDelta(Delete(book, k), TRUE, Place(k), FALSE)

OnPriority(k, prio) ==
    Gate /\ MutateWithDelta(Priority(book, k, prio), PriorityChanges(book, k, prio), {}, FALSE)

OnTrade(price, qty, aggr) ==
    Gate /\ MutateWithDelta(Trade(book, price, qty, aggr), TradeChanges(book, price, qty, aggr),
                            {l \in Sides \X {price} : LevelSize(book, l[1], l[2]) > 0}, FALSE)

OnLevelSummary(s, p, total, count) ==
    Gate /\ MutateWithDelta(LevelSummary(book, s, p, total, count),
                            LevelSummaryChanges(book, s, p, total, count), {<<s, p>>}, FALSE)

\* Both snapshots end staleness, move lastSeq only when they carry one, and
\* publish the current top of the per-order book without any level.  (The book
\* and feed_ are set under two locks; no reader of the book reads `stale'.)
OnSnapshot(new, seq) ==
    /\ ops < MaxOps /\ delta = <<>>
    /\ Becomes(new, DeltaOf({}, Tob(new, "bid"), Tob(new, "ask")), TRUE)
    /\ feed' = [feed EXCEPT !.stale = FALSE, !.lastSeq = Target(seq, @)]
    /\ have' = IF seq = None THEN have ELSE {seq}
    /\ UNCHANGED <<log, readerVars>>

-----------------------------------------------------------------------------
(* Sequencing                                                              *)

\* Defect: any later message is taken for the next one.
InOrderOrLater(seq) == feed.lastSeq = 0 \/ seq > feed.lastSeq

InOrder(seq) == feed.lastSeq = 0 \/ seq = feed.lastSeq + 1

\* A message in order is accepted; a gap makes the symbol stale.
OnSeq(seq) ==
    /\ Gate
    /\ IF InOrder(seq)
       THEN feed' = [feed EXCEPT !.lastSeq = seq] /\ have' = have \cup {seq}
       ELSE feed' = [feed EXCEPT !.stale = TRUE] /\ UNCHANGED have
    /\ ops' = ops + 1
    /\ UNCHANGED <<book, delta, log, readerVars, silent>>

\* A new epoch starts a new numbering; the book stays until a snapshot.
OnReset(epoch) ==
    /\ ops < MaxOps /\ delta = <<>>
    /\ feed' = [lastSeq |-> 0, epoch |-> epoch, stale |-> TRUE]
    /\ have' = {}
    /\ ops' = ops + 1
    /\ UNCHANGED <<book, delta, log, readerVars, silent>>

-----------------------------------------------------------------------------
(* buildSnapshot(): epoch, seq, bids, asks, each under its own lock        *)

ReadEpoch ==
    /\ reader.pc = "done" /\ reads < MaxReads
    /\ reads' = reads + 1
    /\ reader' = [NoReader EXCEPT !.pc = "seq", !.epoch = feed.epoch]
    /\ silent' = FALSE
    /\ UNCHANGED <<book, feed, delta, log, have, ops>>

ReadSeq ==
    /\ reader.pc = "seq"
    /\ reader' = [reader EXCEPT !.pc = "bids", !.seq = Len(log)]
    /\ UNCHANGED <<book, feed, delta, log, have, silent, ops, reads>>

ReadBids ==
    /\ reader.pc = "bids"
    /\ reader' = [reader EXCEPT !.pc = "asks", !.bids = Depth(book, "bid", TopN)]
    /\ UNCHANGED <<book, feed, delta, log, have, silent, ops, reads>>

ReadAsks ==
    /\ reader.pc = "asks"
    /\ reader' = [reader EXCEPT !.pc = "done", !.asks = Depth(book, "ask", TopN)]
    /\ UNCHANGED <<book, feed, delta, log, have, silent, ops, reads>>

-----------------------------------------------------------------------------

Mutate ==
    \/ \E id \in Ids, sc \in Scopes, s \in Sides, p \in Prices, z \in Sizes : OnAdd(id, sc, s, p, z)
    \/ \E k \in LiveKeys, np \in Prices \cup {None}, nz \in Sizes \cup {None} : OnUpdate(k, np, nz)
    \/ \E k \in LiveKeys : OnDelete(k)
    \/ \E k \in LiveKeys, prio \in Priorities : OnPriority(k, prio)
    \/ \E p \in Prices, n \in Quantities, aggr \in {"buy", "sell", "unknown"} : OnTrade(p, n, aggr)
    \/ \E l \in SummaryLevels, n \in Totals, c \in Counts \cup {None} :
          OnLevelSummary(l[1], l[2], n, c)
    \/ \E os \in SnapshotLists, seq \in 1 .. MaxSeq \cup {None} :
          OnSnapshot(SnapshotPerOrder(book, os), seq)
    \/ \E ls \in LevelLists, seq \in 1 .. MaxSeq \cup {None} :
          OnSnapshot(SnapshotAggregated(book, ls), seq)

ManagerNext ==
    \/ Mutate \/ Publish
    \/ \E seq \in 1 .. MaxSeq : OnSeq(seq)
    \/ \E e \in Epochs : OnReset(e)
    \/ ReadEpoch \/ ReadSeq \/ ReadBids \/ ReadAsks

ManagerSpec == ManagerInit /\ [][ManagerNext]_managerVars

-----------------------------------------------------------------------------
(* Properties                                                              *)

\* Type correctness of the manager's own state.
ManagerTypeOK ==
    /\ feed \in [lastSeq : Nat, epoch : Nat, stale : BOOLEAN]
    /\ have \subseteq 1 .. MaxSeq
    /\ Len(log) <= ops /\ ops \in 0 .. MaxOps /\ reads \in 0 .. MaxReads
    /\ reader.pc \in {"seq", "bids", "asks", "done"} /\ reader.seq \in 0 .. Len(log)
    /\ Len(reader.bids) <= TopN /\ Len(reader.asks) <= TopN
    /\ \A s \in Sides : \A p \in DOMAIN book.agg[s] : book.agg[s][p].total # 0

\* lastSeq never runs ahead of a message that is missing: what was accepted
\* since the baseline (first message, snapshot or reset) is an interval that
\* ends at lastSeq.
NoHiddenGap ==
    feed.lastSeq # 0 =>
        /\ have # {} /\ Max(have) = feed.lastSeq
        /\ have = Min(have) .. Max(have)

SizeIn(levels, p) ==
    LET at == {i \in DOMAIN levels : levels[i][1] = p}
    IN  IF at = {} THEN 0 ELSE levels[CHOOSE i \in at : TRUE][2]

\* A side's size at a price after `n' deltas on top of the reader's copy.
Replayed(s, p) ==
    LET base == SizeIn(IF s = "bid" THEN reader.bids ELSE reader.asks, p)
        hits(i) == {l \in log[i].levels : l.side = s /\ l.price = p}
        after[n \in reader.seq .. Len(log)] ==
            IF n = reader.seq THEN base
            ELSE IF hits(n) = {} THEN after[n - 1]
            ELSE (CHOOSE l \in hits(n) : TRUE).total
    IN  after[Len(log)]

\* buildSnapshot() copies seq before the ladders and deltas carry new totals, so
\* a copy taken in the middle of mutations, plus the deltas numbered after its
\* seq, gives the book: every mutator but the two named at `silent' probes all
\* the levels it changes.  The copy must go as deep as the book: a level below
\* its last one is in no delta until it changes.
SnapshotPlusDeltas ==
    reader.pc = "done" /\ delta = <<>> /\ ~silent =>
        \A s \in Sides, p \in Prices : Replayed(s, p) = LevelSize(book, s, p)

=============================================================================

---------------------------- MODULE AbstractBook ----------------------------
(***************************************************************************)
(* What an order book promises: for every side and price a queue of        *)
(* orders in time priority, and nothing else.  No running totals, no       *)
(* index, no erased levels: those are OrderBook's own means.               *)
(***************************************************************************)
EXTENDS Integers, Sequences, SequencesExt

CONSTANTS OrderKeys, Levels, OrderSizes, TradeSizes, Lists

VARIABLE queue      \* [Levels -> sequence of [key, size]]

Entry(k, z) == [key |-> k, size |-> z]

Nothing == [l \in Levels |-> <<>>]

Init == queue = Nothing

Listed(q, k) == \E i \in DOMAIN q : q[i].key = k

Place(q, k) == CHOOSE i \in DOMAIN q : q[i].key = k

\* An order is in a queue at most once.
Purged(qs, k) ==
    [l \in Levels |-> IF Listed(qs[l], k) THEN RemoveAt(qs[l], Place(qs[l], k)) ELSE qs[l]]

\* A new, replacing, re-priced or re-prioritised order goes to the back of a
\* level and is in no other place.
Joined(qs, k, l, z) == [Purged(qs, k) EXCEPT ![l] = Append(@, Entry(k, z))]

Join(k, l, z) == queue' = Joined(queue, k, l, z)

Leave(k) == queue' = Purged(queue, k)

\* What is left of an order goes to the back of the same or another level.
Move(k, from, to) ==
    /\ Listed(queue[from], k)
    /\ queue' = Joined(queue, k, to, queue[from][Place(queue[from], k)].size)

\* Changing only the size keeps the order's place.
Resize(k, l, z) ==
    /\ Listed(queue[l], k)
    /\ queue' = [queue EXCEPT ![l] =
                    [i \in DOMAIN @ |-> IF @[i].key = k THEN Entry(k, z) ELSE @[i]]]

Volume(es) ==
    LET sum[n \in 0 .. Len(es)] == IF n = 0 THEN 0 ELSE sum[n - 1] + es[n].size
    IN  sum[Len(es)]

\* A trade of n at one level fills it from the front: m whole orders, the last
\* of them while there was still something to fill, then part of the next one,
\* and never more than is there.
Execute(l, n) ==
    \E m \in 0 .. Len(queue[l]) :
        LET filled == Volume(SubSeq(queue[l], 1, m))
            rest == SubSeq(queue[l], m + 1, Len(queue[l]))
        IN  /\ filled <= n
            /\ m > 0 => Volume(SubSeq(queue[l], 1, m - 1)) < n
            /\ rest # <<>> => filled = n \/ n - filled < rest[1].size
            /\ queue' = [queue EXCEPT ![l] =
                   IF rest = <<>> THEN <<>>
                   ELSE [rest EXCEPT ![1] = Entry(@.key, @.size - (n - filled))]]

\* A snapshot replaces everything; an order listed twice is where it is listed last.
Listing(list) ==
    LET after[n \in 0 .. Len(list)] ==
            IF n = 0 THEN Nothing
            ELSE LET o == list[n]
                 IN  Joined(after[n - 1], o.key, <<o.side, o.price>>, o.size)
    IN  after[Len(list)]

Restart(list) == queue' = Listing(list)

Next ==
    \/ \E k \in OrderKeys : Leave(k)
    \/ \E k \in OrderKeys, l \in Levels, z \in OrderSizes : Resize(k, l, z)
    \/ \E k \in OrderKeys, from \in Levels, to \in Levels : Move(k, from, to)
    \/ \E l \in Levels, n \in TradeSizes : Execute(l, n)
    \/ \E list \in Lists : Restart(list)
    \/ \E k \in OrderKeys, l \in Levels, z \in OrderSizes : Join(k, l, z)

Spec == Init /\ [][Next]_queue

=============================================================================

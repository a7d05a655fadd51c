------------------------- MODULE MCOrderBookManager -------------------------
EXTENDS OrderBookManager

CONSTANTS Feed

MCSnapshots ==
    { << Order(Key(1, Feed, FALSE), "bid", 1, 1, 0),
         Order(Key(2, Feed, FALSE), "ask", 2, 2, 0) >> }

\* A level given twice, and one whose size is zero.
MCLevelLists ==
    { << [side |-> "bid", price |-> 1, total |-> 2, count |-> None],
         [side |-> "bid", price |-> 1, total |-> 1, count |-> 1],
         [side |-> "ask", price |-> 2, total |-> 0, count |-> 1] >> }

MCSummaryLevels == { <<"bid", 1>> }

=============================================================================

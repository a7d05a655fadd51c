---------------------------- MODULE MCOrderBook ----------------------------
EXTENDS ObQueries

CONSTANTS Feed

MCKey(n) == Key(n, Feed, FALSE)

\* An empty snapshot, one level of three orders, and one key listed twice in a
\* book with more bid than ask levels.
MCSnapshots ==
    { <<>>,
      << Order(MCKey(1), "bid", 1, 1, 0), Order(MCKey(2), "bid", 1, 2, 0),
         Order(MCKey(3), "bid", 1, 1, 0) >>,
      << Order(MCKey(1), "bid", 1, 2, 0), Order(MCKey(1), "ask", 2, 1, 0),
         Order(MCKey(2), "bid", 1, 1, 0), Order(MCKey(3), "bid", 2, 1, 0) >> }

=============================================================================

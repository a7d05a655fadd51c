----------------------------- MODULE FeedServer -----------------------------
(***************************************************************************)
(* The TCP feed: one chain of accepts, a set of sessions with a cap, and   *)
(* for each session a byte stream cut into lines.  Bytes are counted in    *)
(* units; a producer's stream is a fixed sequence of lines, of which a     *)
(* session has received the first `pos' units and extracted the lines up   *)
(* to `start', so that pending_ holds the units in between.  The newline   *)
(* belongs to its line, but not to the text handleLine() is given.         *)
(*                                                                         *)
(* onAccept tests accepting_, tests the cap and inserts the session in     *)
(* three steps, between which stop() may run on the thread of the signal.  *)
(***************************************************************************)
EXTENDS IoContext, Naturals, FiniteSets, Sequences

CONSTANTS
    Producers,
    Streams,            \* producer -> its lines: [len, json, type, action, ok]
    MaxFeedSessions,    \* MAX_FEED_SESSIONS
    BufSize,            \* size of buf_
    MaxLine,            \* MAX_LINE_SIZE
    MaxPending          \* MAX_PENDING

ASSUME FeedServerAssumption ==
    /\ {MaxFeedSessions, BufSize, MaxLine} \subseteq Nat \ {0}
    /\ MaxPending \in Nat /\ MaxPending >= MaxLine + BufSize
    /\ "none" \notin Producers /\ "armed" \notin Producers
    /\ \A p \in Producers :
          /\ Streams[p] \in Seq({Streams[p][k] : k \in DOMAIN Streams[p]})
          /\ \A k \in DOMAIN Streams[p] : Streams[p][k].len \in Nat \ {0}

VARIABLES
    accepting,      \* accepting_
    accept,         \* the accept operation: "none", "armed", or the producer it got
    sessions,       \* sessions_
    conn,           \* producer -> "out", "refused", "open" or "closed"
    pos, start,     \* producer -> units received, units extracted
    routed,         \* producer -> where its lines went, in order
    overflowed,     \* producers disconnected for MAX_PENDING
    queued,         \* closed sessions whose last read had completed: its handler still runs
    copy            \* stop()'s copy of sessions_: the sessions it has still to close

feedVars == <<accepting, accept, sessions, conn, pos, start, routed, overflowed, queued, copy>>
streamVars == <<pos, start, routed, queued, copy>>

\* The types of the variables.
FeedTypeOK ==
    /\ accepting \in BOOLEAN
    /\ accept \in {"none", "armed"} \cup Producers
    /\ sessions \subseteq Producers
    /\ conn \in [Producers -> {"out", "refused", "open", "closed"}]
    /\ pos \in [Producers -> Nat] /\ start \in [Producers -> Nat]
    /\ {overflowed, queued, copy} \subseteq SUBSET Producers

FeedInit ==
    /\ accepting = FALSE
    /\ accept = "none"
    /\ sessions = {}
    /\ conn = [p \in Producers |-> "out"]
    /\ pos = [p \in Producers |-> 0]
    /\ start = [p \in Producers |-> 0]
    /\ routed = [p \in Producers |-> <<>>]
    /\ overflowed = {} /\ queued = {}
    /\ copy = {}

-----------------------------------------------------------------------------
(* Accepting.                                                              *)

\* run(): the first call opens the acceptor.
RunFeed ==
    /\ accepting' = TRUE
    /\ accept' = IF accepting THEN accept ELSE "armed"
    /\ UNCHANGED <<sessions, conn, streamVars, overflowed>>

\* A producer connects: the accept operation completes and its handler is queued.
Connect(p) ==
    /\ Idle /\ accept = "armed" /\ conn[p] = "out"
    /\ accept' = p
    /\ UNCHANGED <<accepting, sessions, conn, streamVars, overflowed, ioVars>>

Forget(p) == conn' = [conn EXCEPT ![p] = "refused"]

\* onAccept returns at once when the server was stopped.
OnAccept ==
    /\ Idle /\ accept \in Producers
    /\ accept' = "none"
    /\ \/ accepting /\ Goto("feed-cap", accept) /\ UNCHANGED conn
       \/ ~accepting /\ Done /\ Forget(accept)
    /\ UNCHANGED <<accepting, sessions, streamVars, overflowed, stopped>>

\* A failed accept: onAccept starts the next one, unless the server was stopped.
OnAcceptError ==
    /\ Idle /\ accept = "armed"
    /\ accept' = "none"
    /\ IF accepting THEN Goto("feed-rearm", 0) ELSE Done
    /\ UNCHANGED <<accepting, sessions, conn, streamVars, overflowed, stopped>>

\* The cap is tested in one critical section ...
OnAcceptCap ==
    /\ io.at = "feed-cap"
    /\ \/ /\ Cardinality(sessions) >= MaxFeedSessions
          /\ Forget(io.who)
          /\ Goto("feed-rearm", 0)
       \/ /\ Cardinality(sessions) < MaxFeedSessions
          /\ Goto("feed-insert", io.who)
          /\ UNCHANGED conn
    /\ UNCHANGED <<accepting, accept, sessions, streamVars, overflowed, stopped>>

\* ... and the session inserted in another, then started.
OnAcceptInsert ==
    /\ io.at = "feed-insert"
    /\ sessions' = sessions \cup {io.who}
    /\ conn' = [conn EXCEPT ![io.who] = "open"]
    /\ Goto("feed-rearm", 0)
    /\ UNCHANGED <<accepting, accept, streamVars, overflowed, stopped>>

\* doAccept's test, and the accept it starts after it.
MayArm == accepting

DoAcceptTest ==
    /\ io.at = "feed-rearm"
    /\ IF MayArm THEN Goto("feed-arm", 0) ELSE Done
    /\ UNCHANGED <<feedVars, stopped>>

DoAcceptArm ==
    /\ io.at = "feed-arm"
    /\ accept' = "armed"
    /\ Done
    /\ UNCHANGED <<accepting, sessions, conn, streamVars, overflowed, stopped>>

-----------------------------------------------------------------------------
(* Lines.                                                                  *)

\* What a line asks of the Dispatcher or the OrderBookManager; a line with a
\* missing or malformed member is dropped.
HandleTickMessage(l) == IF l.ok THEN "onTick" ELSE "dropped"

HandleObMessage(l) ==
    IF l.ok /\ l.action \in {"ticksize", "add", "update", "delete", "trade"}
    THEN l.action ELSE "dropped"

HandleControlMessage(l) == IF l.ok /\ l.action = "reset" THEN "reset" ELSE "dropped"

\* The text of the line, without its newline.
TextLen(l) == l.len - 1

\* An unknown type takes the tick path.
HandleLine(l) ==
    IF TextLen(l) > MaxLine \/ ~l.json THEN "dropped"
    ELSE IF l.type = "ob" THEN HandleObMessage(l)
    ELSE IF l.type = "control" THEN HandleControlMessage(l)
    ELSE HandleTickMessage(l)

\* The stream position after each line.
EndOf(p) == LET end[k \in 0..Len(Streams[p])] ==
                    IF k = 0 THEN 0 ELSE end[k - 1] + Streams[p][k].len
            IN  end

\* How many lines end within the first n units.
LinesIn(p, n) == Cardinality({k \in DOMAIN Streams[p] : EndOf(p)[k] <= n})

\* Defect: what was extracted is erased only when nothing is left behind it.
EraseIfWhole(p, n) == IF EndOf(p)[LinesIn(p, n)] = n THEN n ELSE start[p]

\* The extracted lines leave pending_.
Erase(p, n) == EndOf(p)[LinesIn(p, n)]

\* The lines that end in pending_ once the first n units are in.
Extracted(p, n) ==
    LET first == LinesIn(p, start[p])
    IN  [k \in 1..(LinesIn(p, n) - first) |-> HandleLine(Streams[p][first + k])]

\* Defect: a closed session stays in the set.
CloseUnlisted(p) == conn' = [conn EXCEPT ![p] = "closed"] /\ UNCHANGED sessions

Close(p) == conn' = [conn EXCEPT ![p] = "closed"] /\ sessions' = sessions \ {p}

\* Closing cannot take back the handler of a read that has completed.
Unread(p) == pos[p] < EndOf(p)[Len(Streams[p])]

LeaveQueued(closed) == \E q \in SUBSET {p \in closed : Unread(p)} : queued' = queued \cup q

\* onRead: k units arrive.  The size of pending_ is tested before lines are
\* extracted from it.  It does not ask whether the session was closed since the
\* read completed; the next read then fails and closes once more, to no effect.
OnRead(p, k) ==
    /\ Idle /\ (conn[p] = "open" \/ p \in queued)
    /\ queued' = queued \ {p}
    /\ pos[p] + k <= EndOf(p)[Len(Streams[p])]
    /\ pos' = [pos EXCEPT ![p] = @ + k]
    /\ \/ /\ pos[p] + k - start[p] > MaxPending
          /\ Close(p)
          /\ overflowed' = overflowed \cup {p}
          /\ UNCHANGED <<start, routed>>
       \/ /\ pos[p] + k - start[p] <= MaxPending
          /\ routed' = [routed EXCEPT ![p] = @ \o Extracted(p, pos[p] + k)]
          /\ start' = [start EXCEPT ![p] = Erase(p, pos[p] + k)]
          /\ UNCHANGED <<conn, sessions, overflowed>>
    /\ UNCHANGED <<accepting, accept, copy, ioVars>>

\* The peer is gone, or the idle timer's handler runs - which it may do even if
\* data has come since the timer expired: once its handler is queued,
\* resetIdleTimer cannot take it back.
OnEnd(p) ==
    /\ Idle /\ conn[p] = "open"
    /\ Close(p)
    /\ LeaveQueued({p})
    /\ UNCHANGED <<accepting, accept, pos, start, routed, copy, overflowed, ioVars>>

FeedIo ==
    \/ OnAccept \/ OnAcceptError \/ OnAcceptCap \/ OnAcceptInsert \/ DoAcceptTest \/ DoAcceptArm
    \/ \E p \in Producers : OnEnd(p) \/ \E k \in 1..BufSize : OnRead(p, k)

FeedPoll == \E p \in Producers : Connect(p)

-----------------------------------------------------------------------------
(* stop(), in the order of its effects: each step is taken by whoever      *)
(* called it.                                                              *)

StopAccepting ==
    /\ accepting' = FALSE
    /\ UNCHANGED <<accept, sessions, conn, streamVars, overflowed>>

\* cancel() takes back an accept that has not completed; its handler then runs
\* with an error and finds the server stopped.
CancelAccept ==
    /\ accept' = IF accept = "armed" THEN "none" ELSE accept
    /\ UNCHANGED <<accepting, sessions, conn, streamVars, overflowed>>

\* The sessions are copied and the set cleared under the lock ...
ClearSessions ==
    /\ copy' = sessions
    /\ sessions' = {}
    /\ UNCHANGED <<accepting, accept, conn, pos, start, routed, queued, overflowed>>

\* ... and each session of the copy is closed, which finds itself erased.
CloseSessions ==
    /\ conn' = [p \in Producers |-> IF p \in copy THEN "closed" ELSE conn[p]]
    /\ LeaveQueued({p \in copy : conn[p] = "open"})
    /\ copy' = {}
    /\ UNCHANGED <<accepting, accept, sessions, pos, start, routed, overflowed>>

-----------------------------------------------------------------------------
(* Properties.                                                             *)

\* sessions_ is exactly the set of the open sessions that stop() is not about
\* to close, and it is within the cap, although the cap is tested in one
\* critical section and the session inserted in another (FeedServer.cpp:412-428),
\* and sessions close themselves: a closed producer never keeps a slot.
RegistryExact ==
    /\ sessions = {p \in Producers : conn[p] = "open"} \ copy
    /\ Cardinality(sessions) <= MaxFeedSessions

\* However the stream is cut into reads, every line that has arrived in full
\* was routed once and in order, pending_ is the rest, and only a producer that
\* sent a line above MAX_LINE_SIZE can be disconnected for MAX_PENDING
\* (FeedServer.cpp:72-99).
FramingExact ==
    \A p \in Producers :
        /\ p \notin overflowed =>
              /\ Len(routed[p]) = LinesIn(p, pos[p])
              /\ \A k \in DOMAIN routed[p] : routed[p][k] = HandleLine(Streams[p][k])
              /\ start[p] = EndOf(p)[Len(routed[p])]
        /\ p \in overflowed => \E k \in DOMAIN Streams[p] : TextLen(Streams[p][k]) > MaxLine
=============================================================================

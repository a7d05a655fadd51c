---------------------------- MODULE WsFeedClient ----------------------------
(***************************************************************************)
(* gma::ws::WsFeedClient: the outgoing connection to a WebSocket feed, and *)
(* the WsFeedClientIngress that starts and stops it                        *)
(* (src/connectors/market/src/ws/WsFeedClient.cpp, MarketIngress.cpp).     *)
(*                                                                         *)
(* Every handler runs on strand_, so a handler is one action.  start() and *)
(* stop() run on the main thread: they touch stopping_ there and post the  *)
(* rest to the strand.  Whether an operation succeeds is the network's     *)
(* doing: it does while the peer is up.  One thread runs the io_context    *)
(* (main.cpp), so a handler that blocks keeps every other from running.    *)
(***************************************************************************)
EXTENDS Integers, Sequences, FiniteSets, FiniteSetsExt

CONSTANTS MaxReconnectDelay,  \* MAX_RECONNECT_DELAY_SEC
          MaxFaults           \* bound: outages and closes by the peer

ASSUME ClientAssumption ==
    MaxReconnectDelay \in Nat \ {0} /\ MaxFaults \in Nat

VARIABLES
    ingress,    \* where the main thread is with start() and stop()
    tls,        \* url_.tls, fixed at construction
    stopping,   \* stopping_
    attempts,   \* reconnectAttempts_
    delay,      \* seconds reconnectTimer_ was last set to, 0 if never
    timer,      \* reconnectTimer_: idle, armed, due or aborted
    posted,     \* closures posted to the strand and not yet run
    pending,    \* asynchronous operations started and not yet completed
    stream,     \* ws_ or wss_
    up,         \* environment: the feed can be reached
    faults      \* environment: faults so far

vars == <<ingress, tls, stopping, attempts, delay, timer, posted, pending,
          stream, up, faults>>

Operations == {"resolve", "connect", "ssl", "handshake", "write", "read",
               "wait"}

\* "made": constructed but not open; "lost": the connection broke under an
\* open stream; "closing": the io thread is in stop()'s close(); "shut": closed.
Streams == {"none", "made", "open", "lost", "closing", "shut"}

Init ==
    /\ ingress = "new"
    /\ tls \in BOOLEAN
    /\ stopping = FALSE
    /\ attempts = 0
    /\ delay = 0
    /\ timer = "idle"
    /\ posted = <<>>
    /\ pending = {}
    /\ stream = "none"
    /\ up = TRUE
    /\ faults = 0

-----------------------------------------------------------------------------
(* Steps the handlers are made of                                          *)

\* The handler of done returns after it has started the operations in next.
Continue(done, next) == pending' = (pending \ done) \cup next

\* fail(): logs, and nothing else.
Fail(done) == Continue(done, {}) /\ UNCHANGED <<attempts, delay, timer>>

\* doResolve(), with resetStreams()
DoResolve(done) ==
    \/ /\ stopping
       /\ Continue(done, {})
       /\ UNCHANGED stream
    \/ /\ ~stopping
       /\ Continue(done, {"resolve"})
       /\ stream' = "none"

DoRead(done) == Continue(done, IF stopping THEN {} ELSE {"read"})

\* The delay of the n-th reconnect in a row: min(1 << min(n, 30), limit).
BackoffDelay(n) == Min({2 ^ Min({n, 30}), MaxReconnectDelay})

\* Defect: the handler of a failed read goes on to doRead().
ScheduleAndRead(done) ==
    /\ delay' = BackoffDelay(attempts)
    /\ attempts' = attempts + 1
    /\ timer' = "armed"
    /\ Continue({}, {"wait"})

ScheduleReconnect(done) ==
    /\ delay' = BackoffDelay(attempts)
    /\ attempts' = attempts + 1
    /\ timer' = "armed"
    /\ Continue(done, {"wait"})

ResetAttempts == attempts' = 0

\* Defect: stop() leaves the stream open.
LeaveOpen == UNCHANGED stream

\* The end of stop()'s closure.  Only an open stream is closed: one that is
\* still connecting is left to its handlers.  close() is synchronous and without
\* a deadline: it sends a close frame and blocks until the peer answers.
CloseIfOpen == stream' = IF stream = "open" THEN "closing" ELSE stream

\* The io thread is not blocked.
IoFree == stream # "closing"

-----------------------------------------------------------------------------
(* The main thread                                                         *)

Start ==
    /\ ingress = "new"
    /\ ingress' = "started"
    /\ stopping' = FALSE
    /\ attempts' = 0
    /\ posted' = Append(posted, "resolve")
    /\ UNCHANGED <<tls, delay, timer, pending, stream, up, faults>>

\* stop(): the flag first, the closure afterwards.
StopFlag ==
    /\ ingress = "started"
    /\ ingress' = "stopping"
    /\ stopping' = TRUE
    /\ UNCHANGED <<tls, attempts, delay, timer, posted, pending, stream, up,
                   faults>>

StopPost ==
    /\ ingress = "stopping"
    /\ ingress' = "stopped"
    /\ posted' = Append(posted, "stop")
    /\ UNCHANGED <<tls, stopping, attempts, delay, timer, pending, stream, up,
                   faults>>

-----------------------------------------------------------------------------
(* The strand                                                              *)

RunStart ==
    /\ IoFree
    /\ posted # <<>> /\ Head(posted) = "resolve"
    /\ posted' = Tail(posted)
    /\ DoResolve({})
    /\ UNCHANGED <<ingress, tls, stopping, attempts, delay, timer, up, faults>>

\* A wait that has expired can no longer be cancelled.
RunStop ==
    /\ IoFree
    /\ posted # <<>> /\ Head(posted) = "stop"
    /\ posted' = Tail(posted)
    /\ timer' = IF timer = "armed" THEN "aborted" ELSE timer
    /\ CloseIfOpen
    /\ UNCHANGED <<ingress, tls, stopping, attempts, delay, pending, up, faults>>

\* close() returns: the peer answered, or the connection broke.
CloseReturns ==
    /\ stream = "closing"
    /\ stream' = "shut"
    /\ UNCHANGED <<ingress, tls, stopping, attempts, delay, timer, posted,
                   pending, up, faults>>

\* A step of the connection chain: while the peer is up the operation
\* succeeds, and its handler goes on unless the client is stopping.
Advance(op, next) ==
    /\ IoFree /\ op \in pending
    /\ \/ ~up /\ Fail({op})
       \/ up /\ stopping /\ Fail({op})
       \/ /\ up /\ ~stopping
          /\ Continue({op}, {next})
          /\ UNCHANGED <<attempts, delay, timer>>
    /\ UNCHANGED <<ingress, tls, stopping, posted, up, faults>>

OnResolve ==
    /\ Advance("resolve", "connect")
    /\ stream' = IF "connect" \in pending' THEN "made" ELSE stream

\* Without TLS the handler calls onSslHandshake() itself.
OnTcpConnect ==
    /\ Advance("connect", IF tls THEN "ssl" ELSE "handshake")
    /\ UNCHANGED stream

OnSslHandshake == Advance("ssl", "handshake") /\ UNCHANGED stream

OnWsHandshake ==
    /\ IoFree /\ "handshake" \in pending
    /\ stream' = IF up THEN "open" ELSE stream
    /\ \/ (~up \/ stopping) /\ Fail({"handshake"})
       \/ /\ up /\ ~stopping
          /\ ResetAttempts
          /\ Continue({"handshake"}, {"write"})
          /\ UNCHANGED <<delay, timer>>
    /\ UNCHANGED <<ingress, tls, stopping, posted, up, faults>>

\* The subscribe message has been written, or could not be.
OnSubscribeWrite ==
    /\ IoFree /\ "write" \in pending
    /\ \/ /\ stream = "open" /\ DoRead({"write"})
          /\ UNCHANGED <<attempts, delay, timer>>
       \/ stream # "open" /\ Fail({"write"})
    /\ UNCHANGED <<ingress, tls, stopping, posted, stream, up, faults>>

\* onRead() with a message: handleMessage() routes it (module ItchFeed) and its
\* exceptions are caught here, so the loop goes on either way.
OnReadMessage ==
    /\ "read" \in pending
    /\ stream = "open"
    /\ DoRead({"read"})
    /\ UNCHANGED <<ingress, tls, stopping, attempts, delay, timer, posted,
                   stream, up, faults>>

OnReadError ==
    /\ "read" \in pending
    /\ stream \in {"lost", "shut"}
    /\ \/ stopping /\ Fail({"read"})
       \/ ~stopping /\ ScheduleReconnect({"read"})
    /\ UNCHANGED <<ingress, tls, stopping, posted, stream, up, faults>>

\* The callback of reconnectTimer_
OnReconnectTimer ==
    /\ IoFree /\ "wait" \in pending
    /\ timer \in {"due", "aborted"}
    /\ timer' = "idle"
    /\ \/ /\ timer = "aborted" \/ stopping
          /\ Continue({"wait"}, {})
          /\ UNCHANGED stream
       \/ timer = "due" /\ ~stopping /\ DoResolve({"wait"})
    /\ UNCHANGED <<ingress, tls, stopping, attempts, delay, posted, up, faults>>

-----------------------------------------------------------------------------
(* The environment                                                         *)

TimerExpires ==
    /\ timer = "armed"
    /\ timer' = "due"
    /\ UNCHANGED <<ingress, tls, stopping, attempts, delay, posted, pending,
                   stream, up, faults>>

Break(toUp) ==
    /\ faults < MaxFaults
    /\ faults' = faults + 1
    /\ up' = toUp
    /\ stream' = IF stream = "open" THEN "lost" ELSE stream
    /\ UNCHANGED <<ingress, tls, stopping, attempts, delay, timer, posted,
                   pending>>

PeerDown == up /\ Break(FALSE)

PeerCloses == up /\ stream = "open" /\ Break(TRUE)

PeerUp ==
    /\ ~up
    /\ up' = TRUE
    /\ UNCHANGED <<ingress, tls, stopping, attempts, delay, timer, posted,
                   pending, stream, faults>>

-----------------------------------------------------------------------------

Main == Start \/ StopFlag \/ StopPost

Strand ==
    \/ RunStart \/ RunStop \/ CloseReturns
    \/ OnResolve \/ OnTcpConnect \/ OnSslHandshake \/ OnWsHandshake
    \/ OnSubscribeWrite \/ OnReadMessage \/ OnReadError \/ OnReconnectTimer

Environment == TimerExpires \/ PeerDown \/ PeerCloses \/ PeerUp

Next == Main \/ Strand \/ Environment

Spec == Init /\ [][Next]_vars

\* The io threads run what was posted and what has completed; resolving ends,
\* and connecting and the TLS handshake have a deadline of 30 seconds.  The
\* WebSocket handshake and close() have none (expires_never): nobody owes their
\* ends, as nobody owes a message.
FairSpec ==
    /\ Spec
    /\ WF_vars(RunStart) /\ WF_vars(RunStop) /\ WF_vars(StopPost)
    /\ WF_vars(OnResolve) /\ WF_vars(OnTcpConnect) /\ WF_vars(OnSslHandshake)
    /\ WF_vars(OnSubscribeWrite) /\ WF_vars(OnReadError)
    /\ WF_vars(TimerExpires) /\ WF_vars(OnReconnectTimer)

-----------------------------------------------------------------------------
(* Properties                                                              *)

\* The types of the variables.
TypeOK ==
    /\ ingress \in {"new", "started", "stopping", "stopped"}
    /\ tls \in BOOLEAN
    /\ stopping \in BOOLEAN
    /\ attempts \in Nat
    /\ delay \in 0..MaxReconnectDelay
    /\ timer \in {"idle", "armed", "due", "aborted"}
    /\ posted \in Seq({"resolve", "stop"})
    /\ pending \subseteq Operations
    /\ stream \in Streams
    /\ up \in BOOLEAN
    /\ faults \in 0..MaxFaults

\* The client is one chain: at most one asynchronous operation is outstanding,
\* never a read beside a reconnect that would destroy its stream and buffer_
\* (resetStreams), and none before the posted start has run.
OneChain ==
    /\ Cardinality(pending) <= 1
    /\ posted # <<>> /\ Head(posted) = "resolve" => pending = {}
    /\ "wait" \in pending <=> timer # "idle"
    /\ "read" \in pending => stream \in {"open", "lost", "closing", "shut"}

\* A connection lost under the read loop is followed by a new attempt, unless
\* the client is stopped first.
LossIsRetried ==
    (stream = "lost" /\ "read" \in pending)
        ~> (stopping \/ "resolve" \in pending)

\* stop() ends the chain wherever it is (reading, waiting to reconnect, in the
\* middle of an attempt): nothing remains outstanding, but for a WebSocket
\* handshake, which has no deadline and which stop() does not abort, and unless
\* the io thread is in a close() whose answer has not come.
StopQuiets == stopping ~> [](pending \subseteq {"handshake"} \/ stream = "closing")

=============================================================================

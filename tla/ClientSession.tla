--------------------------- MODULE ClientSession ---------------------------
(***************************************************************************)
(* gma::ClientSession (src/src/server/ClientSession.cpp): one WebSocket    *)
(* client, its subscriptions and its outgoing messages.                    *)
(*                                                                         *)
(* Handlers, completions and dispatched closures run one at a time on      *)
(* strand_, which the io thread serves; a dispatch() made ON the strand    *)
(* runs inline, one made by a pool thread (Responder's send function) or   *)
(* by WebSocketServer::closeAll() joins the strand's queue.  A subscribe   *)
(* handler is cut where a pool thread can tell: once its chain is          *)
(* registered with the Dispatcher, values flow before it is installed.     *)
(* The stream under ws_ is external: reads go on while it closes, and the  *)
(* idle timeout set in run() ends each of its operations.                  *)
(***************************************************************************)
EXTENDS Integers, Sequences, FiniteSets, SequencesExt

CONSTANTS Keys,             \* request keys
          Messages,         \* what the client may send: [type, items]
          MaxOutbox,        \* MAX_OUTBOX_SIZE
          MaxSubscriptions, \* MAX_SUBSCRIPTIONS
          NoKey,            \* a message that names no request
          MaxMessages,      \* bound: messages from the client
          MaxUpdates        \* bound: values that reach a Responder

ASSUME SessionAssumption ==
    /\ NoKey \notin Keys
    /\ MaxOutbox \in Nat \ {0} /\ MaxSubscriptions \in Nat \ {0}
    /\ MaxMessages \in Nat /\ MaxUpdates \in Nat
    /\ \A m \in Messages :
          /\ m.type \in {"subscribe", "cancel", "other"}
          /\ m.type = "subscribe" =>
                m.items \in Seq([key : Keys, kind : {"invalid", "unbuildable", "plain", "timed"}])
          /\ m.type = "cancel" => m.items \in Seq(Keys)

VARIABLES
    s,        \* the session's members: see Init
    strandq,  \* closures waiting for the strand
    pc,       \* where the io thread is in a message handler
    todo,     \* requests or keys the handler has still to treat
    built,    \* the chain that is built and not yet installed, or 0
    chains,   \* history: every chain built, by number: [key, timed]
    table,    \* chains whose head Listener is registered at the Dispatcher
    timers,   \* chains with a running Interval thread
    carried,  \* chains with a value on its way through the pool to the Responder
    pending,  \* updates past the open_ test of sendText, on a pool thread
    accepted, \* history: messages pushed to outbox_
    sent,     \* history: messages whose write has completed
    messages, updates, closeAsked

vars == <<s, strandq, pc, todo, built, chains, table, timers, carried,
          pending, accepted, sent, messages, updates, closeAsked>>

poolVars == <<carried, pending, updates>>

\* Outgoing messages and strand closures.
Msg(type, key, chain) == [type |-> type, key |-> key, chain |-> chain]
Error == Msg("error", NoKey, 0)
CloseCall == Msg("close", NoKey, 0)

\* open_, outbox_, writing_, the writes in flight, active_ with chains_ (the
\* two are filled and emptied together), the stream's state, whether a read is
\* outstanding, and whether the server's sessions_ has the session.
Init ==
    /\ s = [open |-> FALSE, outbox |-> <<>>, writing |-> FALSE, writes |-> <<>>,
            active |-> <<>>, conn |-> "handshake", reading |-> FALSE, listed |-> FALSE]
    /\ strandq = <<>> /\ pc = "idle" /\ todo = <<>> /\ built = 0
    /\ chains = <<>> /\ table = {} /\ timers = {} /\ carried = {} /\ pending = {}
    /\ accepted = <<>> /\ sent = <<>>
    /\ messages = 0 /\ updates = 0 /\ closeAsked = FALSE

Installed(x) == {x.active[k] : k \in DOMAIN x.active}

-----------------------------------------------------------------------------
(* startWrite(), close() and sendText() as they run on the strand          *)

\* Another write starts only here; the buffer it uses is outbox_.front().
StartWrite(x) ==
    IF ~x.open THEN [x EXCEPT !.writing = FALSE, !.outbox = <<>>]
    ELSE IF x.outbox = <<>> THEN [x EXCEPT !.writing = FALSE]
    ELSE [x EXCEPT !.writes = Append(@, Head(x.outbox))]

\* Defect: the outbox is emptied while a write may be using its front.
CloseClears(x) ==
    IF ~x.open THEN x
    ELSE [x EXCEPT !.open = FALSE, !.active = <<>>, !.conn = "closing", !.outbox = <<>>]

\* Idempotent; the head of every active chain is shut down (its caller takes
\* them out of the table), the maps are cleared and async_close begins.
Close(x) ==
    IF ~x.open THEN x
    ELSE [x EXCEPT !.open = FALSE, !.active = <<>>, !.conn = "closing"]

\* Defect: an outgoing message overtakes those that wait.
PushFront(x, m) == [x EXCEPT !.outbox = <<m>> \o @]

Push(x, m) == [x EXCEPT !.outbox = Append(@, m)]

Overflows(x) == x.open /\ Len(x.outbox) >= MaxOutbox

\* A slow client whose queue is full is closed instead of served.
SendText(x, m) ==
    IF ~x.open THEN x
    ELSE IF Overflows(x) THEN Close(x)
    ELSE LET y == Push(x, m)
         IN  IF y.writing THEN y ELSE StartWrite([y EXCEPT !.writing = TRUE])

Accepts(x) == x.open /\ ~Overflows(x)

\* What a sendText() on the strand does to session, table and history; `base' is
\* the table before it.  A chain whose head close() shuts down leaves the table.
SendsFrom(x, base, m) ==
    /\ s' = SendText(x, m)
    /\ accepted' = IF Accepts(x) THEN Append(accepted, m) ELSE accepted
    /\ table' = IF Overflows(x) THEN base \ Installed(x) ELSE base

Sends(m) == SendsFrom(s, table, m)

-----------------------------------------------------------------------------
(* Life of the session                                                     *)

\* async_accept succeeds: open, known to the server, reading.
Accept ==
    /\ s.conn = "handshake"
    /\ s' = [s EXCEPT !.open = TRUE, !.conn = "open", !.reading = TRUE, !.listed = TRUE]
    /\ UNCHANGED <<strandq, pc, todo, built, chains, table, timers, poolVars, accepted,
                   sent, messages, closeAsked>>

AcceptFails ==
    /\ s.conn = "handshake"
    /\ s' = [s EXCEPT !.conn = "closed"]
    /\ UNCHANGED <<strandq, pc, todo, built, chains, table, timers, poolVars, accepted,
                   sent, messages, closeAsked>>

\* WebSocketServer::closeAll() from the thread that stops the server.
CloseAll ==
    /\ s.listed /\ ~closeAsked
    /\ closeAsked' = TRUE
    /\ strandq' = Append(strandq, CloseCall)
    /\ UNCHANGED <<s, pc, todo, built, chains, table, timers, poolVars, accepted, sent, messages>>

\* A read ends in an error or in the peer's close; no new read follows.
ReadFails ==
    /\ pc = "idle" /\ s.reading
    /\ s' = [Close(s) EXCEPT !.reading = FALSE]
    /\ table' = IF s.open THEN table \ Installed(s) ELSE table
    /\ UNCHANGED <<strandq, pc, todo, built, chains, timers, poolVars, accepted, sent,
                   messages, closeAsked>>

\* async_close completes: the server forgets the session.
CloseDone ==
    /\ pc = "idle" /\ s.conn = "closing"
    /\ s' = [s EXCEPT !.conn = "closed", !.listed = FALSE]
    /\ UNCHANGED <<strandq, pc, todo, built, chains, table, timers, poolVars, accepted,
                   sent, messages, closeAsked>>

-----------------------------------------------------------------------------
(* Writes                                                                  *)

\* Defect: the next message waits for the next sendText().
WriteDoneStops ==
    /\ pc = "idle" /\ s.writes # <<>>
    /\ sent' = Append(sent, Head(s.writes))
    /\ s' = [s EXCEPT !.writes = Tail(@), !.writing = FALSE,
                      !.outbox = IF @ = <<>> THEN @ ELSE Tail(@)]
    /\ UNCHANGED <<strandq, pc, todo, built, chains, table, timers, poolVars, accepted,
                   messages, closeAsked>>

\* onWrite() without error: pop and continue.
WriteDone ==
    /\ pc = "idle" /\ s.writes # <<>>
    /\ sent' = Append(sent, Head(s.writes))
    /\ s' = StartWrite([s EXCEPT !.writes = Tail(@),
                                 !.outbox = IF @ = <<>> THEN @ ELSE Tail(@)])
    /\ UNCHANGED <<strandq, pc, todo, built, chains, table, timers, poolVars, accepted,
                   messages, closeAsked>>

\* onWrite() with an error tears the session down.
WriteFails ==
    /\ pc = "idle" /\ s.writes # <<>>
    /\ s' = [Close(s) EXCEPT !.writes = Tail(@)]
    /\ table' = IF s.open THEN table \ Installed(s) ELSE table
    /\ UNCHANGED <<strandq, pc, todo, built, chains, timers, poolVars, accepted, sent,
                   messages, closeAsked>>

\* The strand runs a closure dispatched from another thread.
RunStrand ==
    /\ pc = "idle" /\ strandq # <<>>
    /\ strandq' = Tail(strandq)
    /\ IF Head(strandq) = CloseCall
       THEN /\ s' = Close(s)
            /\ table' = IF s.open THEN table \ Installed(s) ELSE table
            /\ UNCHANGED accepted
       ELSE Sends(Head(strandq))
    /\ UNCHANGED <<pc, todo, built, chains, timers, poolVars, sent, messages, closeAsked>>

-----------------------------------------------------------------------------
(* onRead(), handleMessage(), handleSubscribe(), handleCancel()            *)

Receives(m) ==
    /\ pc = "idle" /\ s.reading /\ s.conn \in {"open", "closing"}
    /\ messages < MaxMessages
    /\ messages' = messages + 1

\* Bad JSON, an unknown type, a malformed request list, or no token left in the
\* rate limiter (a matter of wall-clock time, so it may happen to any message).
OnReadRefused(m) ==
    /\ Receives(m)
    /\ m.type # "cancel"
    /\ Sends(Error)
    /\ UNCHANGED <<strandq, pc, todo, built, chains, timers, poolVars, sent, closeAsked>>

OnRead(m) ==
    /\ Receives(m)
    /\ m.type # "other"
    /\ pc' = m.type
    /\ todo' = m.items
    /\ UNCHANGED <<s, strandq, built, chains, table, timers, poolVars, accepted, sent, closeAsked>>

\* The loop is over: doRead() again.
HandlerDone ==
    /\ pc \in {"subscribe", "cancel"} /\ todo = <<>>
    /\ pc' = "idle"
    /\ UNCHANGED <<s, strandq, todo, built, chains, table, timers, poolVars, accepted,
                   sent, messages, closeAsked>>

AtLimit(key) ==
    key \notin DOMAIN s.active /\ Cardinality(DOMAIN s.active) >= MaxSubscriptions

\* A request that fails validation, or whose chain cannot be built, costs an
\* error message and the loop goes on, whether or not the session is open.
RequestRefused ==
    LET r == Head(todo)
    IN  /\ pc = "subscribe" /\ todo # <<>> /\ built = 0
        /\ \/ r.kind = "invalid"
           \/ r.kind = "unbuildable" /\ ~AtLimit(r.key)
        /\ Sends(Error)
        /\ todo' = Tail(todo)
        /\ UNCHANGED <<strandq, pc, built, chains, timers, poolVars, sent, messages, closeAsked>>

\* "max subscriptions reached" is sent with reqMu_ held.  If the outbox is full
\* that sendText() closes the session inline, and close() locks reqMu_ again on
\* the same thread: the io thread stops there, open_ already false.
RequestOverLimit ==
    LET r == Head(todo)
    IN  /\ pc = "subscribe" /\ todo # <<>> /\ built = 0
        /\ r.kind # "invalid" /\ AtLimit(r.key)
        /\ IF Overflows(s)
           THEN /\ pc' = "deadlock"
                /\ s' = [s EXCEPT !.open = FALSE]
                /\ UNCHANGED <<todo, table, accepted>>
           ELSE /\ Sends(Error)
                /\ todo' = Tail(todo)
                /\ UNCHANGED pc
        /\ UNCHANGED <<strandq, built, chains, timers, poolVars, sent, messages, closeAsked>>

\* buildForRequest(): the Listener registers, an Interval starts its thread.
Build ==
    LET r == Head(todo)
        n == Len(chains) + 1
    IN  /\ pc = "subscribe" /\ todo # <<>> /\ built = 0
        /\ r.kind \in {"plain", "timed"} /\ ~AtLimit(r.key)
        /\ chains' = Append(chains, [key |-> r.key, timed |-> r.kind = "timed"])
        /\ table' = table \cup {n}
        /\ timers' = IF r.kind = "timed" THEN timers \cup {n} ELSE timers
        /\ built' = n
        /\ UNCHANGED <<s, strandq, pc, todo, poolVars, accepted, sent, messages, closeAsked>>

\* Defect: the chain that is replaced is not shut down.
InstallOver ==
    LET key == Head(todo).key
    IN  /\ built # 0
        /\ SendsFrom([s EXCEPT !.active = [k \in DOMAIN @ \cup {key} |->
                                              IF k = key THEN built ELSE @[k]]],
                     table, Msg("subscribed", key, built))
        /\ built' = 0
        /\ todo' = Tail(todo)
        /\ UNCHANGED <<strandq, pc, chains, timers, poolVars, sent, messages, closeAsked>>

\* Under reqMu_ an older chain of the key is shut down and replaced; then the
\* acknowledgement.
Install ==
    LET key == Head(todo).key
        old == IF key \in DOMAIN s.active THEN {s.active[key]} ELSE {}
    IN  /\ built # 0
        /\ SendsFrom([s EXCEPT !.active = [k \in DOMAIN @ \cup {key} |->
                                              IF k = key THEN built ELSE @[k]]],
                     table \ old, Msg("subscribed", key, built))
        /\ built' = 0
        /\ todo' = Tail(todo)
        /\ UNCHANGED <<strandq, pc, chains, timers, poolVars, sent, messages, closeAsked>>

\* The key leaves both maps, its head is shut down, and the client is told,
\* known key or not.  Only the head: shutdown() does not travel downstream.
Cancel ==
    LET key == Head(todo)
        root == IF key \in DOMAIN s.active THEN {s.active[key]} ELSE {}
    IN  /\ pc = "cancel" /\ todo # <<>>
        /\ SendsFrom([s EXCEPT !.active = [k \in DOMAIN @ \ {key} |-> @[k]]],
                     table \ root, Msg("canceled", key, 0))
        /\ todo' = Tail(todo)
        /\ UNCHANGED <<strandq, pc, built, chains, timers, poolVars, sent, messages, closeAsked>>

-----------------------------------------------------------------------------
(* Pool threads in Responder::onValue and its send function                *)

\* A chain brings values while its head is registered and its nodes are kept
\* alive, or while its timer thread, which keeps them alive itself, runs.
Live(n) ==
    \/ n \in table /\ (n = built \/ n \in Installed(s))
    \/ n \in timers

\* The head, or the timer, posts a closure that holds the rest of the chain.
Carry(n) ==
    /\ Live(n) /\ n \notin carried
    /\ updates < MaxUpdates
    /\ updates' = updates + 1
    /\ carried' = carried \cup {n}
    /\ UNCHANGED <<s, strandq, pc, todo, built, chains, table, timers, pending, accepted,
                   sent, messages, closeAsked>>

\* Responder::onValue and the first test of open_ in sendText() ...
Respond(n) ==
    /\ n \in carried
    /\ carried' = carried \ {n}
    /\ pending' = IF s.open THEN pending \cup {Msg("update", chains[n].key, n)} ELSE pending
    /\ UNCHANGED <<s, strandq, pc, todo, built, chains, table, timers, updates, accepted,
                   sent, messages, closeAsked>>

\* Defect: the pool thread touches the outbox itself.
PostUpdateInline(m) ==
    /\ m \in pending
    /\ pending' = pending \ {m}
    /\ Sends(m)
    /\ UNCHANGED <<strandq, pc, todo, built, chains, timers, carried, updates, sent,
                   messages, closeAsked>>

\* ... then the dispatch, which queues because this is not the strand.
PostUpdate(m) ==
    /\ m \in pending
    /\ pending' = pending \ {m}
    /\ strandq' = Append(strandq, m)
    /\ UNCHANGED <<s, pc, todo, built, chains, table, timers, carried, updates, accepted,
                   sent, messages, closeAsked>>

-----------------------------------------------------------------------------

HandlerStep ==
    RequestRefused \/ RequestOverLimit \/ Build \/ Install \/ Cancel \/ HandlerDone

Next ==
    \/ Accept \/ AcceptFails \/ CloseAll \/ ReadFails \/ CloseDone
    \/ WriteDone \/ WriteFails \/ RunStrand \/ HandlerStep
    \/ \E m \in Messages : OnReadRefused(m) \/ OnRead(m)
    \/ \E n \in DOMAIN chains : Carry(n) \/ Respond(n)
    \/ \E m \in pending : PostUpdate(m)

Spec == Init /\ [][Next]_vars

\* The io thread serves its strand, and every operation on the stream ends (the
\* idle timeout set in run() sees to it).  Clients need not send anything.
Fairness ==
    /\ WF_vars(HandlerStep) /\ WF_vars(RunStrand)
    /\ WF_vars(WriteDone \/ WriteFails) /\ WF_vars(CloseDone)

FairSpec == Spec /\ Fairness

-----------------------------------------------------------------------------
(* Properties                                                              *)

OutMsg == [type : {"error", "subscribed", "canceled", "update"},
           key : Keys \cup {NoKey}, chain : Nat]

\* Type correctness; the outbox stays within its limit.
TypeOK ==
    /\ s.open \in BOOLEAN /\ s.writing \in BOOLEAN /\ s.reading \in BOOLEAN
    /\ s.conn \in {"handshake", "open", "closing", "closed"}
    /\ s.outbox \in Seq(OutMsg) /\ Len(s.outbox) <= MaxOutbox
    /\ DOMAIN s.active \subseteq Keys
    /\ strandq \in Seq(OutMsg \cup {CloseCall})
    /\ pc \in {"idle", "subscribe", "cancel", "deadlock"}
    /\ table \subseteq DOMAIN chains /\ timers \subseteq DOMAIN chains

\* async_write is given outbox_.front() by reference: at most one write is in
\* flight, and until it completes the front of the queue is that very message,
\* whatever sendText() and close() do meanwhile.
WriteBufferStable ==
    /\ Len(s.writes) <= 1
    /\ s.writes # <<>> => s.outbox # <<>> /\ Head(s.outbox) = s.writes[1]

\* What the client got is what was queued, in that order, and while the session
\* is open nothing queued is missing.
FifoDelivery ==
    /\ IsPrefix(sent, accepted)
    /\ s.open => accepted = sent \o s.outbox

\* A client never sees an update of a subscription before its "subscribed",
\* although values flow as soon as buildForRequest() returns.
AckBeforeUpdate ==
    \A i \in DOMAIN accepted : accepted[i].type = "update" =>
        \E j \in 1 .. i - 1 : /\ accepted[j].type = "subscribed"
                              /\ accepted[j].chain = accepted[i].chain

\* While the session is open the Dispatcher knows exactly the heads of the
\* active subscriptions and the one being built: replacing and cancelling
\* leave no listener behind.
TableMatchesActive ==
    s.open => table = Installed(s) \cup ({built} \ {0})

\* A queued message is written unless the session closes: startWrite() and
\* sendText() never both leave the next write to the other.
OutboxDrains ==
    \A n \in 1 .. MaxMessages + MaxUpdates :
        Len(accepted) >= n ~> (Len(sent) >= n \/ ~s.open)

\* A session that stops being open gets its stream closed ("close the
\* connection rather than exhausting server memory").
CloseCompletes == (~s.open /\ s.conn # "handshake") ~> s.conn = "closed"

=============================================================================

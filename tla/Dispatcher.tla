----------------------------- MODULE Dispatcher -----------------------------
(***************************************************************************)
(* gma::Dispatcher (src/src/core/Dispatcher.cpp) with the Listener nodes   *)
(* registered at it (src/src/nodes/Listener.cpp) and the thread pool that  *)
(* carries every delivery.  Three kinds of thread interleave:              *)
(*   - the feed thread inside onTick(), one lock section per step;         *)
(*   - the threads that create listeners and shut them down;               *)
(*   - the pool's workers, which take tasks in FIFO order but finish them  *)
(*     in any order.                                                       *)
(* A delivered value is abstracted to the tick and the field it comes from.*)
(***************************************************************************)
EXTENDS MarketTick

CONSTANTS Symbols,
          Listeners,      \* the Listener objects
          Steady,         \* the ones that are there from the start to the end
          SymOf, FieldOf, \* what each one is bound to
          Events,         \* the events of the feed: [sym, num, other]
          Builtins,       \* names in FunctionMap
          FieldSeq,       \* every field a listener can be bound to, in map order
          Failing,        \* builtins whose function throws
          MaxFieldsPerSymbol,
          Workers, NoTask,
          MaxTicks        \* bound: ticks delivered by the feed

ASSUME DispatcherAssumption ==
    /\ IsFiniteSet(Listeners) /\ SymOf \in [Listeners -> Symbols]
    /\ FieldSeq \in Seq({FieldSeq[i] : i \in DOMAIN FieldSeq})
    /\ \A i, j \in DOMAIN FieldSeq : FieldSeq[i] = FieldSeq[j] => i = j
    /\ \A l \in Listeners : \E i \in DOMAIN FieldSeq : FieldOf[l] = FieldSeq[i]
    /\ MaxFieldsPerSymbol \in Nat \ {0}
    /\ MaxTicks \in Nat
    /\ \A e \in Events : e.sym \in Symbols /\ e.num \cap e.other = {}
    /\ Failing \subseteq Builtins
    /\ Steady \subseteq Listeners

VARIABLES
    table,     \* _listeners: [symbol][field] -> vector of listeners
    hists,     \* _histories: [symbol][field] -> deque of raw values
    taHist,    \* MarketTickComputer::_symbolHistories
    store,     \* the AtomicStore
    pc,        \* where the feed thread is in onTick
    tick,      \* the event it carries
    notifyKeys,\* computed keys still to be announced
    todo,      \* toNotify: pairs <<field, listener>> not yet handled
    ticks,     \* ticks so far
    queue,     \* the pool's q_
    slot,      \* the task each worker is in
    lstate,    \* life of each listener
    received   \* history: what each listener's downstream got

vars == <<table, hists, taHist, store, pc, tick, notifyKeys, todo, ticks, queue,
          slot, lstate, received>>

feedVars == <<taHist, pc, tick, notifyKeys, todo, ticks>>

Fields == {FieldSeq[i] : i \in DOMAIN FieldSeq}

Value(n, f) == [n |-> n, field |-> f]

\* A pool closure: a call of Listener::onValue ("listener"), the same past its
\* stopping_ test ("forward"), or the downstream's onValue ("down").
Task(kind, l, v) == [kind |-> kind, l |-> l, v |-> v]

Calls(ls, v) == [i \in DOMAIN ls |-> Task("listener", ls[i], v)]

NoTick == [sym |-> "", n |-> 0, num |-> {}, other |-> {}]

Init ==
    /\ table = [s \in Symbols |-> [f \in Fields |->
                  LET bound == {l \in Steady : SymOf[l] = s /\ FieldOf[l] = f}
                  IN  SetToSeq(bound)]]
    /\ hists = <<>> /\ taHist = <<>> /\ store = EmptyStore
    /\ pc = "idle" /\ tick = NoTick /\ notifyKeys = <<>> /\ todo = <<>> /\ ticks = 0
    /\ queue = <<>> /\ slot = [w \in Workers |-> NoTask]
    /\ lstate = [l \in Listeners |-> IF l \in Steady THEN "live" ELSE "new"]
    /\ received = [l \in Listeners |-> <<>>]

-----------------------------------------------------------------------------
(* Listener: Create/start and shutdown, one lock section per step          *)

\* registerListener(): the vector of (symbol, field) gets one more entry.
RegisterListener(l) == [table EXCEPT ![SymOf[l]][FieldOf[l]] = Append(@, l)]

\* Defect: the entry stays in the table.
UnregisterListenerKeeps(l) == table

\* unregisterListener(): every equal entry goes.
UnregisterListener(l) ==
    [table EXCEPT ![SymOf[l]][FieldOf[l]] = Without(@, {l})]

\* Create() and start().
Create(l) ==
    /\ lstate[l] = "new"
    /\ lstate' = [lstate EXCEPT ![l] = "live"]
    /\ table' = RegisterListener(l)
    /\ UNCHANGED <<hists, store, feedVars, queue, slot, received>>

\* shutdown(): the exchange of stopping_ ...
ShutdownBegin(l) ==
    /\ lstate[l] = "live" /\ l \notin Steady
    /\ lstate' = [lstate EXCEPT ![l] = "stopping"]
    /\ UNCHANGED <<table, hists, store, feedVars, queue, slot, received>>

\* ... unregisterListener() under _listenerMutex ...
Unregister(l) ==
    /\ lstate[l] = "stopping"
    /\ lstate' = [lstate EXCEPT ![l] = "unregistered"]
    /\ table' = UnregisterListener(l)
    /\ UNCHANGED <<hists, store, feedVars, queue, slot, received>>

\* ... and downstream_.reset().
ResetDownstream(l) ==
    /\ lstate[l] = "unregistered"
    /\ lstate' = [lstate EXCEPT ![l] = "stopped"]
    /\ UNCHANGED <<table, hists, store, feedVars, queue, slot, received>>

-----------------------------------------------------------------------------
(* onTick()                                                                *)

\* A tick arrives; its payload has members that are numbers and others.
BeginTick(e) ==
    /\ pc = "idle" /\ ticks < MaxTicks
    /\ ticks' = ticks + 1
    /\ tick' = [sym |-> e.sym, n |-> ticks + 1, num |-> e.num, other |-> e.other]
    /\ pc' = "compute"
    /\ UNCHANGED <<table, hists, taHist, store, notifyKeys, todo, queue, slot,
                   lstate, received>>

RunComputers ==
    LET r == Compute(store, taHist, tick)
    IN  /\ pc = "compute"
        /\ store' = r.store
        /\ taHist' = r.hist
        /\ notifyKeys' = r.keys
        /\ pc' = "notify"
        /\ UNCHANGED <<table, hists, tick, todo, ticks, queue, slot, lstate, received>>

\* notifyListeners(): copy the subscribers under the lock, post to each.
NotifyListeners ==
    /\ pc = "notify" /\ notifyKeys # <<>>
    /\ LET k == Head(notifyKeys)
           targets == IF k \in Fields THEN table[tick.sym][k] ELSE <<>>
       IN  queue' = queue \o Calls(targets, Value(tick.n, k))
    /\ notifyKeys' = Tail(notifyKeys)
    /\ UNCHANGED <<table, hists, taHist, store, pc, tick, todo, ticks, slot,
                   lstate, received>>

\* The pairs of one symbol whose field the payload has, in map order.
PairsFor(payload) ==
    LET Pairs(f) == [j \in DOMAIN table[tick.sym][f] |-> <<f, table[tick.sym][f][j]>>]
    IN  FlattenSeq([i \in DOMAIN FieldSeq |->
                       IF FieldSeq[i] \in payload THEN Pairs(FieldSeq[i]) ELSE <<>>])

\* Collect toNotify under the shared lock.
Collect ==
    /\ pc = "notify" /\ notifyKeys = <<>>
    /\ todo' = PairsFor(tick.num \cup tick.other)
    /\ pc' = "pairs"
    /\ UNCHANGED <<table, hists, taHist, store, tick, notifyKeys, ticks, queue, slot,
                   lstate, received>>

FieldCapped(s, f) ==
    \/ s \notin DOMAIN hists /\ Cardinality(DOMAIN hists) >= MaxSymbols
    \/ /\ s \in DOMAIN hists /\ f \notin DOMAIN hists[s]
       /\ Cardinality(DOMAIN hists[s]) >= MaxFieldsPerSymbol

\* A pair is skipped when the member is not a number or the history is capped:
\* the listener gets nothing.
SkipPair ==
    /\ pc = "pairs" /\ todo # <<>>
    /\ LET f == Head(todo)[1]
       IN  f \notin tick.num \/ FieldCapped(tick.sym, f)
    /\ todo' = Tail(todo)
    /\ UNCHANGED <<table, hists, taHist, store, pc, tick, notifyKeys, ticks, queue,
                   slot, lstate, received>>

\* The raw value joins the history, once per pair.
PushHistory ==
    /\ pc = "pairs" /\ todo # <<>>
    /\ LET f == Head(todo)[1]
           old == HistOf(hists, tick.sym)
       IN  /\ f \in tick.num /\ ~FieldCapped(tick.sym, f)
           /\ hists' = Put(hists, tick.sym,
                           Put(old, f, PushBounded(HistOf(old, f), tick.n)))
    /\ pc' = "fanout"
    /\ UNCHANGED <<table, taHist, store, tick, notifyKeys, todo, ticks, queue, slot,
                   lstate, received>>

\* Builtins that evaluate.
Evaluated == Builtins \ Failing

\* The loop of computeAndStoreAtomics(): each result is set on its own.
StoreBuiltins(data) ==
    LET st[i \in 0 .. Len(FieldSeq)] ==
            IF i = 0 THEN data
            ELSE IF FieldSeq[i] \in Evaluated THEN Set(st[i - 1], tick.sym, FieldSeq[i], tick.n)
            ELSE st[i - 1]
    IN  st[Len(FieldSeq)]

\* computeAndStoreAtomics(): store each builtin and post it to its listeners;
\* then the raw value is posted to the pair's listener.  The posts are one
\* step: between them only workers post, closures of other deliveries.
Fanout ==
    LET f == Head(todo)[1]
        calls == FlattenSeq([i \in DOMAIN FieldSeq |->
                    IF FieldSeq[i] \in Evaluated
                    THEN Calls(table[tick.sym][FieldSeq[i]], Value(tick.n, FieldSeq[i]))
                    ELSE <<>>])
    IN  /\ pc = "fanout"
        /\ store' = StoreBuiltins(store)
        /\ queue' = queue \o calls \o <<Task("listener", Head(todo)[2], Value(tick.n, f))>>
        /\ todo' = Tail(todo)
        /\ pc' = "pairs"
        /\ UNCHANGED <<table, hists, taHist, tick, notifyKeys, ticks, slot, lstate, received>>

EndTick ==
    /\ pc = "pairs" /\ todo = <<>>
    /\ pc' = "idle" /\ tick' = NoTick
    /\ UNCHANGED <<table, hists, taHist, store, notifyKeys, todo, ticks, queue, slot,
                   lstate, received>>

-----------------------------------------------------------------------------
(* The pool's workers and Listener::onValue                                *)

Tasks == {queue[i] : i \in DOMAIN queue} \cup ({slot[w] : w \in Workers} \ {NoTask})

Stopping(l) == lstate[l] \in {"stopping", "unregistered", "stopped"}

\* Defect: onValue does not look at stopping_.
TakeUnchecked(w) ==
    LET t == Head(queue)
    IN  /\ slot[w] = NoTask /\ queue # <<>>
        /\ queue' = Tail(queue)
        /\ slot' = [slot EXCEPT ![w] = IF t.kind = "listener" THEN [t EXCEPT !.kind = "forward"]
                                       ELSE t]
        /\ UNCHANGED <<table, hists, store, feedVars, lstate, received>>

\* A worker pops the oldest closure.  Listener::onValue starts with
\* `if (stopping_) return;'.
Take(w) ==
    LET t == Head(queue)
    IN  /\ slot[w] = NoTask /\ queue # <<>>
        /\ queue' = Tail(queue)
        /\ slot' = [slot EXCEPT ![w] =
                       IF t.kind = "down" THEN t
                       ELSE IF Stopping(t.l) THEN NoTask
                       ELSE [t EXCEPT !.kind = "forward"]]
        /\ UNCHANGED <<table, hists, store, feedVars, lstate, received>>

\* Defect: the downstream's call is dropped when the pool is busy.
ListenerForwardIfIdle(w) ==
    /\ slot[w] # NoTask /\ slot[w].kind = "forward"
    /\ slot' = [slot EXCEPT ![w] = NoTask]
    /\ queue' = IF lstate[slot[w].l] # "stopped" /\ queue = <<>>
                THEN Append(queue, Task("down", slot[w].l, slot[w].v))
                ELSE queue
    /\ UNCHANGED <<table, hists, store, feedVars, lstate, received>>

\* downstream_.lock() yields a node until shutdown() has reset the pointer
\* (its owner, ClientSession, shuts the listener down when it drops the
\* chain); then the downstream's onValue is posted.
ListenerForward(w) ==
    /\ slot[w] # NoTask /\ slot[w].kind = "forward"
    /\ slot' = [slot EXCEPT ![w] = NoTask]
    /\ queue' = IF lstate[slot[w].l] # "stopped"
                THEN Append(queue, Task("down", slot[w].l, slot[w].v))
                ELSE queue
    /\ UNCHANGED <<table, hists, store, feedVars, lstate, received>>

\* The downstream gets the value.
Deliver(w) ==
    /\ slot[w] # NoTask /\ slot[w].kind = "down"
    /\ received' = [received EXCEPT ![slot[w].l] = Append(@, slot[w].v)]
    /\ slot' = [slot EXCEPT ![w] = NoTask]
    /\ UNCHANGED <<table, hists, store, feedVars, queue, lstate>>

-----------------------------------------------------------------------------

FeedStep ==
    \/ RunComputers \/ NotifyListeners \/ Collect
    \/ SkipPair \/ PushHistory \/ Fanout \/ EndTick

WorkerStep(w) == Take(w) \/ ListenerForward(w) \/ Deliver(w)

LifeStep(l) ==
    Create(l) \/ ShutdownBegin(l) \/ Unregister(l) \/ ResetDownstream(l)

Next ==
    \/ \E e \in Events : BeginTick(e)
    \/ FeedStep
    \/ \E l \in Listeners : LifeStep(l)
    \/ \E w \in Workers : WorkerStep(w)

Spec == Init /\ [][Next]_vars

\* The workers run; onTick need not return, and nobody must create or stop a
\* listener.
Fairness == \A w \in Workers : WF_vars(WorkerStep(w))

FairSpec == Spec /\ Fairness

-----------------------------------------------------------------------------
(* Properties                                                              *)

TaskType == [kind : {"listener", "forward", "down"}, l : Listeners,
             v : [n : 1..MaxTicks, field : Fields]]

\* Type correctness.
TypeOK ==
    /\ table \in [Symbols -> [Fields -> Seq(Listeners)]]
    /\ pc \in {"idle", "compute", "notify", "pairs", "fanout"}
    /\ ticks \in 0..MaxTicks
    /\ queue \in Seq(TaskType)
    /\ slot \in [Workers -> TaskType \cup {NoTask}]
    /\ lstate \in [Listeners -> {"new", "live", "stopping", "unregistered", "stopped"}]
    /\ received \in [Listeners -> Seq([n : 1..MaxTicks, field : Fields])]

\* A listener sits in _listeners once, under its own key, from Create to
\* unregisterListener and at no other time: no subscription survives its node.
TableExact ==
    \A s \in Symbols, f \in Fields, l \in Listeners :
        Cardinality({i \in DOMAIN table[s][f] : table[s][f][i] = l})
          = IF s = SymOf[l] /\ f = FieldOf[l] /\ lstate[l] \in {"live", "stopping"}
            THEN 1 ELSE 0

\* A closure of l that is past the stopping_ test of Listener::onValue.
Passed(l) == \E t \in Tasks : t.l = l /\ t.kind \in {"forward", "down"}

\* Once shutdown() has set stopping_ and the closures that were past the test
\* are gone, the chain never hears again from this listener, whatever onTick
\* still holds in toNotify and whatever is still queued in the pool.
StoppedStaysSilent ==
    [][\A l \in Listeners : Stopping(l) /\ ~Passed(l)
           => ~Passed(l)' /\ received'[l] = received[l]]_vars

\* A listener on a raw or an indicator field gets each tick at most once: the
\* computer leaves to onTick the names onTick delivers ("to avoid
\* double-notify").
AtMostOncePerTick ==
    \A l \in Listeners : FieldOf[l] \notin Builtins =>
        \A i, j \in DOMAIN received[l] : received[l][i].n = received[l][j].n => i = j

\* What a subscriber of a price field can read from the AtomicStore is at least
\* as new as the tick that woke it (the "clock + AtomicAccessor" pattern).
StoreNotOlderThanDelivery ==
    \A l \in Listeners : \A i \in DOMAIN received[l] :
        LET s == SymOf[l]
        IN  /\ FieldOf[l] \in PriceFields
            /\ s \in DOMAIN taHist /\ Has(store, s, "lastPrice")
            => store[s]["lastPrice"] >= received[l][i].n

\* _histories and the store respect their limits on length, fields and symbols,
\* although the lengths are enforced per push, the others per new entry, and a
\* tick reaches the store through the computer, the builtins and the quotes.
WithinCaps ==
    /\ MaxStreamKeys > 0 => Cardinality(DOMAIN store) <= MaxStreamKeys
    /\ MaxFieldsPerStreamKey > 0 => \A s \in DOMAIN store :
           Cardinality(DOMAIN store[s]) <= MaxFieldsPerStreamKey
    /\ Cardinality(DOMAIN hists) <= MaxSymbols
    /\ \A s \in DOMAIN hists :
        /\ Cardinality(DOMAIN hists[s]) <= MaxFieldsPerSymbol
        /\ \A f \in DOMAIN hists[s] : Len(hists[s][f]) <= MaxHistory

\* The values of listener l that are on their way or have arrived.
Held(l) == {t.v : t \in {u \in Tasks : u.l = l}}
           \cup {received[l][i] : i \in DOMAIN received[l]}

\* A delivery that onTick or the computer has posted to a listener nobody shuts
\* down reaches its chain, through two passages of the pool's queue: no step
\* loses it (Dispatcher.cpp:117, Listener.cpp:75-85), and the pool always comes
\* to the end of what was posted.
PostedIsDelivered ==
    /\ [][\A l \in Steady : Held(l) \subseteq Held(l)']_vars
    /\ []<>(Tasks = {})

=============================================================================

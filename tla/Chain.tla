------------------------------- MODULE Chain -------------------------------
(***************************************************************************)
(* One request's node chain: built stage by stage by TreeBuilder, fed by   *)
(* its listeners and timers, run by the pool's workers and released by its *)
(* session.                                                                *)
(*                                                                         *)
(* Stage i forwards to stage i+1, and the stage after the last one is the  *)
(* Responder.  Every node but a Listener owns the node it forwards to, so  *)
(* whoever owns stage i owns all the later ones.  A node does its own work *)
(* under its mutex and forwards after unlocking it: a worker thread is a   *)
(* stack of calls, and one step handles the call on top.                   *)
(*                                                                         *)
(* A value is reduced to the data it carries on (ids), the data it was     *)
(* computed from (of), its symbol and its shape.                           *)
(***************************************************************************)
EXTENDS Naturals, FiniteSets, Sequences, SequencesExt, Functions

CONSTANTS
    Pipelines,      \* the stage sequences a request may ask for; a stage's cap
                    \* is the MAX_SYMBOLS or MAX_CHILDREN of its class
    HeadSymbol,     \* the request's streamKey
    Threads,        \* the pool's workers
    MaxAcc,         \* MAX_ACC of Worker
    MaxFed,         \* bound: values produced by listeners and timers
    MaxThrows       \* bound: exceptions of user functions and builders

ASSUME ChainAssumption ==
    /\ Pipelines \subseteq Seq([kind : STRING, args : Seq(STRING),
                                arity : Nat \ {0}, cap : Nat \ {0}])
    /\ MaxAcc \in Nat \ {0}
    /\ {MaxFed, MaxThrows} \subseteq Nat

VARIABLES
    pipe,       \* the stages of the request
    phase,      \* "building", "live", "failed" or "released"
    unbuilt,    \* stages not built yet: the last ones are built first
    timers,     \* stages whose timer thread runs
    inputs,     \* Aggregate inputs registered in the Dispatcher: <<stage, symbol>>
    fed,        \* the symbols of the values produced so far: value n is fed[n]
    queue,      \* the pool's queue: calls of onValue
    stack,      \* each worker's calls, the running one first
    root,       \* the stage each worker's task entered by
    mem,        \* acc_, buf_ or children_ of each stage: symbol -> values
    emits,      \* what a TumblingWindow took from its buckets and has not posted
    made,       \* children a GroupSplit made, per stage and symbol
    sent,       \* how often each value reached the Responder
    lost,       \* values a node swallowed or refused
    throws      \* exceptions so far

flow == <<queue, stack, root, mem, emits, made, sent, lost, throws>>
vars == <<pipe, phase, unbuilt, timers, inputs, fed, flow>>

Blank == ""                     \* the symbol of a timer's tick
Symbols == {HeadSymbol, Blank} \cup
    UNION {UNION {Range(p[i].args) : i \in {j \in DOMAIN p : p[j].kind = "Aggregate"}} :
             p \in Pipelines}
Ids == 1..MaxFed
Sources == {"Interval", "BucketTime"}
Timed == Sources \cup {"TumblingWindow"}

Value == [sym : Symbols, ids : Seq(Ids), of : SUBSET Ids,
          shape : {"scalar", "vector"}]
Scalar(s, ids, of) == [sym |-> s, ids |-> ids, of |-> of, shape |-> "scalar"]

\* port: "own" is the stage's onValue, "input" that of an Aggregate inside its
\* CompositeRoot, "insert" a GroupSplit's slow path, "child" its child's onValue.
Call(i, port, v) == [node |-> i, port |-> port, val |-> v]

\* A nested "Chain" node builds the stages it lists one behind the other and
\* returns the first, so that every pipeline is flat.
Depth == Len(pipe)
Kind(i) == IF i > Depth THEN "Responder" ELSE pipe[i].kind

\* The types of the variables.
TypeOK ==
    /\ pipe \in Pipelines
    /\ phase \in {"building", "live", "failed", "released"}
    /\ unbuilt \in 0..Depth
    /\ timers \subseteq 1..Depth
    /\ inputs \subseteq (1..Depth) \X Symbols
    /\ fed \in Seq(Symbols) /\ Len(fed) <= MaxFed
    /\ \A c \in Range(queue) \cup UNION {Range(stack[t]) : t \in Threads} :
          c.node \in 1..(Depth + 1) /\ c.val \in Value
    /\ root \in [Threads -> 0..(Depth + 1)]
    /\ \A i \in 1..Depth : \A s \in DOMAIN mem[i] : mem[i][s] \in Seq(Value)
    /\ \A i \in 1..Depth : emits[i] \subseteq Value
    /\ sent \in [Ids -> Nat]
    /\ lost \subseteq Ids
    /\ throws \in 0..MaxThrows

Init ==
    /\ pipe \in Pipelines
    /\ phase = "building"
    /\ unbuilt = Depth
    /\ timers = {}
    /\ inputs = {}
    /\ fed = <<>>
    /\ queue = <<>>
    /\ stack = [t \in Threads |-> <<>>]
    /\ root = [t \in Threads |-> 0]
    /\ mem = [i \in 1..Depth |-> <<>>]
    /\ emits = [i \in 1..Depth |-> {}]
    /\ made = [i \in 1..Depth |-> [s \in Symbols |-> 0]]
    /\ sent = [n \in Ids |-> 0]
    /\ lost = {}
    /\ throws = 0

-----------------------------------------------------------------------------
(* Building and releasing.                                                 *)

InputsOf(i) == IF Kind(i) = "Aggregate" THEN pipe[i].args ELSE <<>>

\* buildForRequest: the last unbuilt stage is built over the ones after it.  A timed stage
\* starts its thread, the inputs of an Aggregate register with the Dispatcher.
BuildStage ==
    /\ phase = "building" /\ unbuilt > 0
    /\ unbuilt' = unbuilt - 1
    /\ timers' = IF Kind(unbuilt) \in Timed THEN timers \cup {unbuilt} ELSE timers
    /\ inputs' = inputs \cup {<<unbuilt, s>> : s \in Range(InputsOf(unbuilt))}
    /\ UNCHANGED <<pipe, phase, fed, flow>>

\* An invalid stage throws, an Aggregate after some of its inputs were built:
\* the nodes built so far are dropped, but neither started threads nor
\* registered listeners are taken back.
BuildThrows ==
    /\ phase = "building" /\ unbuilt > 0 /\ throws < MaxThrows
    /\ phase' = "failed"
    /\ \E k \in 0..Len(InputsOf(unbuilt)) :
          inputs' = inputs \cup {<<unbuilt, s>> :
                                   s \in Range(SubSeq(InputsOf(unbuilt), 1, k))}
    /\ throws' = throws + 1
    /\ UNCHANGED <<pipe, unbuilt, timers, fed, queue, stack, root, mem, emits,
                   made, sent, lost>>

\* The head comes last.
CreateHead ==
    /\ phase = "building" /\ unbuilt = 0
    /\ phase' = "live"
    /\ UNCHANGED <<pipe, unbuilt, timers, inputs, fed, flow>>

\* Listener::Create refuses an ob.* field.
RejectHead ==
    /\ phase = "building" /\ unbuilt = 0
    /\ phase' = "failed"
    /\ UNCHANGED <<pipe, unbuilt, timers, inputs, fed, flow>>

\* The session shuts the head down and forgets the chain; no other node is
\* told.
Release ==
    /\ phase = "live"
    /\ phase' = "released"
    /\ UNCHANGED <<pipe, unbuilt, timers, inputs, fed, flow>>

-----------------------------------------------------------------------------
(* What keeps a stage alive: the builder or the session, the thread of an  *)
(* earlier stage (or its own), a task that entered at or before it.        *)

Held == phase \in {"building", "live"}
Roots == timers \cup {c.node : c \in Range(queue)} \cup ({root[t] : t \in Threads} \ {0})

\* Defect: a Listener owns its downstream.
OwnedByListener(i) == unbuilt < i

Reaches(i) == unbuilt < i /\ (Held \/ \E j \in Roots : j <= i)

-----------------------------------------------------------------------------
(* Values enter: from the listeners, and from the timers, whose threads no *)
(* one ends while the process runs.                                        *)

Fresh == Len(fed) + 1

Post(c) == queue' = Append(queue, c)

\* A listener finds its downstream alive and posts the value to it.
Hear(i, port, s) ==
    /\ Len(fed) < MaxFed
    /\ fed' = Append(fed, s)
    /\ Post(Call(i, port, Scalar(s, <<Fresh>>, {Fresh})))
    /\ UNCHANGED <<pipe, phase, unbuilt, timers, inputs, stack, root, mem, emits,
                   made, sent, lost, throws>>

HeadHears == phase = "live" /\ Hear(1, "own", HeadSymbol)

InputHears(i, s) == <<i, s>> \in inputs /\ Reaches(i) /\ Hear(i, "input", s)

\* The timer of an Interval posts a tick to the next stage ...
IntervalTick(i) == Kind(i) = "Interval" /\ Hear(i + 1, "own", Blank)

\* ... and so does that of a BucketTime, at the next multiple of its period:
\* boundaries it sleeps past are left out.
BucketTick(i) == Kind(i) = "BucketTime" /\ Hear(i + 1, "own", Blank)

\* Defect: the timer copies the buckets and leaves them as they are.
FlushCopies(i) == mem

\* One bucket as the vector the window emits.
Bucket(i, s) ==
    LET vs == mem[i][s]
    IN  [sym |-> s, ids |-> FlattenSeq([k \in DOMAIN vs |-> vs[k].ids]),
         of |-> UNION {v.of : v \in Range(vs)}, shape |-> "vector"]

Flushed(i) == [mem EXCEPT ![i] = [s \in DOMAIN mem[i] |-> <<>>]]

\* Defect: the timer thread ends with the request.
WindowWhileHeld(i) == i \in timers /\ Kind(i) = "TumblingWindow" /\ Held

WindowRuns(i) == i \in timers /\ Kind(i) = "TumblingWindow"

\* At a boundary the window's timer empties every bucket under the lock ...
FlushWindow(i) ==
    /\ WindowRuns(i)
    /\ emits[i] = {}
    /\ \E s \in DOMAIN mem[i] : mem[i][s] /= <<>>
    /\ emits' = [emits EXCEPT ![i] =
                    {Bucket(i, s) : s \in {x \in DOMAIN mem[i] : mem[i][x] /= <<>>}}]
    /\ mem' = Flushed(i)
    /\ UNCHANGED <<pipe, phase, unbuilt, timers, inputs, fed, queue, stack, root,
                   made, sent, lost, throws>>

\* ... and posts one task per symbol after unlocking, in no particular order.
PostWindow(i) ==
    /\ WindowRuns(i)
    /\ \E v \in emits[i] :
          /\ emits' = [emits EXCEPT ![i] = @ \ {v}]
          /\ Post(Call(i + 1, "own", v))
    /\ UNCHANGED <<pipe, phase, unbuilt, timers, inputs, fed, stack, root, mem, made,
                   sent, lost, throws>>

-----------------------------------------------------------------------------
(* The pool's workers.                                                     *)

Take(t) ==
    /\ stack[t] = <<>> /\ queue /= <<>>
    /\ stack' = [stack EXCEPT ![t] = <<Head(queue)>>]
    /\ root' = [root EXCEPT ![t] = Head(queue).node]
    /\ queue' = Tail(queue)
    /\ UNCHANGED <<pipe, phase, unbuilt, timers, inputs, fed, mem, emits, made,
                   sent, lost, throws>>

Top(t) == Head(stack[t])

\* The call on top of t's stack is handled by a node of kind k.
At(t, k, port) ==
    /\ stack[t] /= <<>>
    /\ Top(t).port = port
    /\ k = IF port = "child" THEN pipe[Top(t).node].args[1] ELSE Kind(Top(t).node)

\* The handler returns after calling the given calls in turn; the task ends
\* with its last call.
Become(t, calls) ==
    /\ stack' = [stack EXCEPT ![t] = calls]
    /\ root' = [root EXCEPT ![t] = IF calls = <<>> THEN 0 ELSE @]

Forward(t, vs) ==
    LET next == [k \in DOMAIN vs |-> Call(Top(t).node + 1, "own", vs[k])]
    IN  Become(t, next \o Tail(stack[t])) /\ UNCHANGED lost

Swallow(t) ==
    Become(t, Tail(stack[t])) /\ lost' = lost \cup Range(Top(t).val.ids)

\* A step of a worker leaves the queue, the producers and the lifecycle alone.
Outside == UNCHANGED <<pipe, phase, unbuilt, timers, inputs, fed, queue, emits>>

Put(f, s, x) == [k \in DOMAIN f \cup {s} |-> IF k = s THEN x ELSE f[k]]
Of(f, s) == IF s \in DOMAIN f THEN f[s] ELSE <<>>

\* A stage that has never seen symbol s and is full refuses it.
Full(i, s) == s \notin DOMAIN mem[i] /\ Cardinality(DOMAIN mem[i]) >= pipe[i].cap

\* A Worker's accumulator after one more value: the oldest beyond MAX_ACC go.
Accumulated(f, v) ==
    LET acc == Append(Of(f, v.sym), v)
    IN  SubSeq(acc, IF Len(acc) > MaxAcc THEN Len(acc) - MaxAcc + 1 ELSE 1, Len(acc))

\* Worker: accumulate, apply fn and forward its result.
OnWorker(t, port) ==
    /\ At(t, "Worker", port)
    /\ LET i == Top(t).node
           v == Top(t).val
           acc == Accumulated(mem[i], v)
       IN  \/ /\ Full(i, v.sym)
              /\ Swallow(t)
              /\ UNCHANGED <<mem, throws>>
           \/ /\ ~Full(i, v.sym)
              /\ mem' = [mem EXCEPT ![i] = Put(@, v.sym, acc)]
              /\ Forward(t, <<Scalar(v.sym, v.ids, UNION {x.of : x \in Range(acc)})>>)
              /\ UNCHANGED throws
           \/ \* fn throws: the value is taken out again
              /\ ~Full(i, v.sym) /\ throws < MaxThrows
              /\ mem' = [mem EXCEPT ![i] = Put(@, v.sym, Front(acc))]
              /\ Swallow(t)
              /\ throws' = throws + 1
    /\ UNCHANGED <<made, sent>> /\ Outside

\* What the Aggregate has of v's symbol, v included.
Batch(i, v) == Append(Of(mem[i], v.sym), v)

\* Aggregate: collect, and forward the batch once arity_ values of the symbol
\* are there.
OnAggregate(t) ==
    /\ At(t, "Aggregate", "input")
    /\ LET i == Top(t).node
           v == Top(t).val
           buf == Batch(i, v)
       IN  \/ /\ Full(i, v.sym)
              /\ Swallow(t)
              /\ UNCHANGED mem
           \/ /\ ~Full(i, v.sym) /\ Len(buf) < pipe[i].arity
              /\ mem' = [mem EXCEPT ![i] = Put(@, v.sym, buf)]
              /\ Become(t, Tail(stack[t]))
              /\ UNCHANGED lost
           \/ /\ ~Full(i, v.sym) /\ Len(buf) >= pipe[i].arity
              /\ mem' = [mem EXCEPT ![i] = Put(@, v.sym, <<>>)]
              /\ Forward(t, [k \in DOMAIN buf |-> [buf[k] EXCEPT !.sym = v.sym]])
    /\ UNCHANGED <<made, sent, throws>> /\ Outside

\* TumblingWindow: the value joins its symbol's bucket.
OnWindow(t) ==
    /\ At(t, "TumblingWindow", "own")
    /\ LET i == Top(t).node
           v == Top(t).val
       IN  \/ /\ Full(i, v.sym)
              /\ Swallow(t)
              /\ UNCHANGED mem
           \/ /\ ~Full(i, v.sym)
              /\ mem' = [mem EXCEPT ![i] = Put(@, v.sym, Append(Of(@, v.sym), v))]
              /\ Become(t, Tail(stack[t]))
              /\ UNCHANGED lost
    /\ UNCHANGED <<made, sent, throws>> /\ Outside

\* VectorReducer: a vector becomes a scalar, anything else is refused.
OnReducer(t) ==
    /\ At(t, "VectorReducer", "own")
    /\ LET v == Top(t).val
       IN  \/ /\ v.shape = "vector"
              /\ Forward(t, <<Scalar(v.sym, v.ids, v.of)>>)
              /\ UNCHANGED throws
           \/ /\ v.shape /= "vector"
              /\ Swallow(t)
              /\ UNCHANGED throws
           \/ /\ v.shape = "vector" /\ throws < MaxThrows
              /\ Swallow(t)
              /\ throws' = throws + 1
    /\ UNCHANGED <<mem, made, sent>> /\ Outside

\* The symbol an accessor reads: the request's, or the one its GroupSplit
\* made it for, a tick's empty symbol standing for the request's.
AccessorSymbol(t, port) ==
    IF port = "child" /\ Top(t).val.sym /= Blank THEN Top(t).val.sym ELSE HeadSymbol

\* AtomicAccessor: the incoming value only clocks a read of the store, which
\* may not have the field, nor any provider.
OnAccessor(t, port) ==
    /\ At(t, "AtomicAccessor", port)
    /\ \/ Forward(t, <<Scalar(AccessorSymbol(t, port), Top(t).val.ids, {})>>)
       \/ Swallow(t)
    /\ UNCHANGED <<mem, made, sent, throws>> /\ Outside

\* A source ignores what comes from upstream, and so does the CompositeRoot
\* around an Aggregate.
OnSource(t) ==
    /\ \E k \in Sources \cup {"Aggregate"} : At(t, k, "own")
    /\ Swallow(t)
    /\ UNCHANGED <<mem, made, sent, throws>> /\ Outside

\* GroupSplit: an existing child is found under the shared lock ...
OnSplit(t) ==
    /\ At(t, "GroupSplit", "own")
    /\ LET port == IF Top(t).val.sym \in DOMAIN mem[Top(t).node] THEN "child" ELSE "insert"
       IN  Become(t, <<[Top(t) EXCEPT !.port = port]>> \o Tail(stack[t]))
    /\ UNCHANGED <<mem, made, sent, lost, throws>> /\ Outside

\* Defect: the slow path does not look again under the exclusive lock.
MustMakeBlindly(i, s) == TRUE

\* The emplace inserted: nobody made the child since the shared lock.
MustMake(i, s) == s \notin DOMAIN mem[i]

ToChild(t) == Become(t, <<[Top(t) EXCEPT !.port = "child"]>> \o Tail(stack[t]))

\* ... and a missing one is made under the exclusive lock.
OnSplitInsert(t) ==
    /\ At(t, "GroupSplit", "insert")
    /\ LET i == Top(t).node
           s == Top(t).val.sym
           room == Cardinality(DOMAIN mem[i] \cup {s}) <= pipe[i].cap
       IN  \/ /\ ~MustMake(i, s)
              /\ ToChild(t)
              /\ UNCHANGED <<mem, made, lost, throws>>
           \/ /\ MustMake(i, s) /\ ~room
              /\ Swallow(t)
              /\ UNCHANGED <<mem, made, throws>>
           \/ /\ MustMake(i, s) /\ room
              /\ mem' = [mem EXCEPT ![i] = Put(@, s, <<>>)]
              /\ made' = [made EXCEPT ![i][s] = @ + 1]
              /\ ToChild(t)
              /\ UNCHANGED <<lost, throws>>
           \/ \* makeChild_ throws: the entry goes, and the whole task with it
              /\ MustMake(i, s) /\ room /\ throws < MaxThrows
              /\ Become(t, <<>>)
              /\ lost' = lost \cup UNION {Range(c.val.ids) : c \in Range(stack[t])}
              /\ throws' = throws + 1
              /\ UNCHANGED <<mem, made>>
    /\ UNCHANGED sent /\ Outside

\* Responder: the value goes to the session.
OnResponder(t) ==
    /\ At(t, "Responder", "own")
    /\ sent' = [n \in Ids |-> sent[n] + Cardinality({k \in DOMAIN Top(t).val.ids :
                                                       Top(t).val.ids[k] = n})]
    /\ Become(t, Tail(stack[t]))
    /\ UNCHANGED <<mem, made, lost, throws>> /\ Outside

Work(t) ==
    \/ Take(t)
    \/ OnWorker(t, "own") \/ OnWorker(t, "child")
    \/ OnAggregate(t)
    \/ OnWindow(t)
    \/ OnReducer(t)
    \/ OnAccessor(t, "own") \/ OnAccessor(t, "child")
    \/ OnSource(t)
    \/ OnSplit(t) \/ OnSplitInsert(t)
    \/ OnResponder(t)

WindowTimer(i) == FlushWindow(i) \/ PostWindow(i)

Next ==
    \/ BuildStage \/ BuildThrows \/ CreateHead \/ RejectHead \/ Release
    \/ HeadHears
    \/ \E is \in inputs : InputHears(is[1], is[2])
    \/ \E i \in timers : IntervalTick(i) \/ BucketTick(i) \/ WindowTimer(i)
    \/ \E t \in Threads : Work(t)

Spec == Init /\ [][Next]_vars

\* The pool's workers and the windows' timer threads run on.
FairSpec ==
    /\ Spec
    /\ \A t \in Threads : WF_vars(Work(t))
    /\ \A i \in UNION {DOMAIN p : p \in Pipelines} : WF_vars(WindowTimer(i))

-----------------------------------------------------------------------------
(* Properties.                                                             *)

Waiting(i) == IF Kind(i) \in {"Aggregate", "TumblingWindow"} THEN mem[i] ELSE <<>>

Spots(v, n) == {j \in DOMAIN v.ids : v.ids[j] = n}

\* Where the chain holds value n.
Places(n) ==
    (UNION {{<<"queue", k, j>> : j \in Spots(queue[k].val, n)} : k \in DOMAIN queue})
    \cup (UNION {UNION {{<<t, k, j>> : j \in Spots(stack[t][k].val, n)} :
                         k \in DOMAIN stack[t]} : t \in Threads})
    \cup (UNION {UNION {UNION {{<<i, s, k, j>> : j \in Spots(Waiting(i)[s][k], n)} :
                         k \in DOMAIN Waiting(i)[s]} : s \in DOMAIN Waiting(i)} : i \in 1..Depth})
    \cup (UNION {UNION {{<<i, v, j>> : j \in Spots(v, n)} : v \in emits[i]} : i \in 1..Depth})
    \cup {<<"sent", k>> : k \in 1..sent[n]}
    \cup {<<"lost", k>> : k \in lost \cap {n}}

\* Every value a listener or a timer produced is at exactly one place of the
\* chain - queued, on a worker's stack, in a buffer, sent or refused - however
\* workers, timers and exceptions interleave: no node loses a value silently
\* or sends it twice (the forward-after-unlock of Worker.cpp:45, the bucket
\* swap of TumblingWindow.cpp:103-110).
ExactlyOnce == \A n \in 1..Len(fed) : Cardinality(Places(n)) = 1

\* A symbol has one child ever, so one history, although two workers may both
\* miss it under the shared lock (GroupSplit.cpp:15-46).
OneChildPerSymbol == \A i \in 1..Depth : \A s \in Symbols : made[i][s] <= 1

Drained == queue = <<>> /\ \A t \in Threads : stack[t] = <<>>

\* Once a chain is released, or its build failed, and its calls have drained,
\* it stays silent, although the Dispatcher still holds the listeners of its
\* Aggregates - unless a timer thread was started for it, which keeps its
\* part of the chain alive.
SilentOnceDropped ==
    [][~Held /\ Drained /\ timers = {} => Drained']_vars

\* Every value is eventually sent, refused, or waiting for its Aggregate to
\* fill up, the ones in a window that was released included.
EveryValueSettles ==
    \A n \in Ids :
        n <= Len(fed) ~>
            \/ sent[n] = 1 \/ n \in lost
            \/ \E i \in 1..Depth : /\ Kind(i) = "Aggregate"
                                  /\ \E s \in DOMAIN mem[i] :
                                        \E v \in Range(mem[i][s]) : n \in Range(v.ids)
=============================================================================

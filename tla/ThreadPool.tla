----------------------------- MODULE ThreadPool -----------------------------
(***************************************************************************)
(* gma::rt::ThreadPool: the pool of workers on which every listener        *)
(* delivery of the engine runs (src/src/rt/ThreadPool.cpp).                *)
(*                                                                         *)
(* A critical section that neither blocks nor is observable from outside   *)
(* mx_ is one action.  drain() is split further: its predicate reads the   *)
(* atomic inFlight_, which workers change WITHOUT mx_, so the evaluation   *)
(* of the predicate and the wait it leads to are two steps with mx_ held   *)
(* in between.  post() notifies after it has unlocked: that is a step too. *)
(***************************************************************************)
EXTENDS Integers, Sequences, FiniteSets

CONSTANTS Workers,      \* threads_
          Clients,      \* other threads that call post() and drain()
          Owner,        \* the client that also calls shutdown() / ~ThreadPool()
          Tasks,        \* the closures; each is posted at most once
          NoTask,       \* a worker's fn while it holds none
          Free,         \* mx_ held by nobody
          MaxCalls,     \* bound: drain, shutdown and destructor calls in all
          MaxSpurious   \* bound: spurious wake-ups of condition variables

ASSUME PoolAssumption ==
    /\ IsFiniteSet(Workers) /\ Workers # {}
    /\ Owner \in Clients
    /\ Workers \cap Clients = {}
    /\ NoTask \notin Tasks
    /\ Free \notin Workers \cup Clients
    /\ MaxCalls \in Nat /\ MaxSpurious \in Nat

VARIABLES
    mx,         \* holder of mx_ between two actions (only drain() keeps it)
    q,          \* q_
    stopping,   \* stopping_
    inFlight,   \* inFlight_
    wpc,        \* where each worker is in workerLoop
    fn,         \* the task each worker has popped
    cpc,        \* where each client is
    op,         \* which of drain(), shutdown(), ~ThreadPool() a client is in
    notifying,  \* threads between the unlock and the notify_one of post()
    accepted,   \* history: tasks a post() has pushed
    done,       \* history: tasks whose closure has returned or thrown
    before,     \* history: tasks accepted when the client called drain()
    calls,      \* drain, shutdown and destructor calls so far
    spurious    \* spurious wake-ups so far

vars == <<mx, q, stopping, inFlight, wpc, fn, cpc, op, notifying, accepted,
          done, before, calls, spurious>>

Threads == Workers \cup Clients

WorkerPC == {"loop", "cvWait", "run", "finished", "exited"}

ClientPC == {"idle", "lock", "check", "block", "idleWait", "drained",
             "stop", "notifyStop", "join", "gone"}

Ops == {"none", "drain", "shutdown", "destroy"}

Init ==
    /\ mx = Free
    /\ q = <<>>
    /\ stopping = FALSE
    /\ inFlight = 0
    /\ wpc = [w \in Workers |-> "loop"]
    /\ fn = [w \in Workers |-> NoTask]
    /\ cpc = [c \in Clients |-> "idle"]
    /\ op = [c \in Clients |-> "none"]
    /\ notifying = {}
    /\ accepted = {}
    /\ done = {}
    /\ before = [c \in Clients |-> {}]
    /\ calls = 0
    /\ spurious = 0

-----------------------------------------------------------------------------
(* post()                                                                  *)

\* A thread that is free to call post(): a client outside the other calls, or
\* a worker whose task posts (Listener::onValue and Dispatcher do).
MayPost(p) ==
    /\ p \notin notifying
    /\ \/ p \in Workers /\ wpc[p] = "run"
       \/ p \in Clients /\ cpc[p] = "idle"

\* The locked part: the closure is dropped silently once stopping_ is set.
Post(p, t) ==
    /\ MayPost(p)
    /\ mx = Free
    /\ t \notin accepted
    /\ ~stopping
    /\ q' = Append(q, t)
    /\ accepted' = accepted \cup {t}
    /\ notifying' = notifying \cup {p}
    /\ UNCHANGED <<mx, stopping, inFlight, wpc, fn, cpc, op, done, before, calls, spurious>>

\* cv_.notify_one() wakes any one waiter, or nobody if none waits.
NotifyOne(p) ==
    LET waiting == {w \in Workers : wpc[w] = "cvWait"}
    IN  /\ p \in notifying
        /\ notifying' = notifying \ {p}
        /\ \/ waiting = {} /\ UNCHANGED wpc
           \/ \E w \in waiting : wpc' = [wpc EXCEPT ![w] = "loop"]
        /\ UNCHANGED <<mx, q, stopping, inFlight, fn, cpc, op, accepted, done,
                       before, calls, spurious>>

-----------------------------------------------------------------------------
(* workerLoop()                                                            *)

\* Defect: a wait without its predicate misses a notify_one sent before it.
WorkerWaitBlindly(w) ==
    /\ wpc[w] = "loop" /\ mx = Free
    /\ ~stopping
    /\ wpc' = [wpc EXCEPT ![w] = "cvWait"]
    /\ UNCHANGED <<mx, q, stopping, inFlight, fn, cpc, op, notifying, accepted,
                   done, before, calls, spurious>>

\* The wait's predicate is false: release mx_ and block, atomically.
WorkerWait(w) ==
    /\ wpc[w] = "loop" /\ mx = Free
    /\ ~stopping /\ q = <<>>
    /\ wpc' = [wpc EXCEPT ![w] = "cvWait"]
    /\ UNCHANGED <<mx, q, stopping, inFlight, fn, cpc, op, notifying, accepted,
                   done, before, calls, spurious>>

\* Defect: a stopping pool abandons its queue.
WorkerExitEarly(w) ==
    /\ wpc[w] = "loop" /\ mx = Free
    /\ stopping
    /\ wpc' = [wpc EXCEPT ![w] = "exited"]
    /\ UNCHANGED <<mx, q, stopping, inFlight, fn, cpc, op, notifying, accepted,
                   done, before, calls, spurious>>

\* Even a stopping pool runs what is still queued.
WorkerExit(w) ==
    /\ wpc[w] = "loop" /\ mx = Free
    /\ stopping /\ q = <<>>
    /\ wpc' = [wpc EXCEPT ![w] = "exited"]
    /\ UNCHANGED <<mx, q, stopping, inFlight, fn, cpc, op, notifying, accepted,
                   done, before, calls, spurious>>

\* Defect: inFlight_ is not raised under mx_ with the pop.
WorkerPopUncounted(w) ==
    /\ wpc[w] = "loop" /\ mx = Free
    /\ q # <<>>
    /\ fn' = [fn EXCEPT ![w] = Head(q)]
    /\ q' = Tail(q)
    /\ wpc' = [wpc EXCEPT ![w] = "run"]
    /\ UNCHANGED <<mx, stopping, inFlight, cpc, op, notifying, accepted, done,
                   before, calls, spurious>>

\* Defect: the task is copied from the queue's front and not removed.
WorkerPeek(w) ==
    /\ wpc[w] = "loop" /\ mx = Free
    /\ q # <<>>
    /\ fn' = [fn EXCEPT ![w] = Head(q)]
    /\ inFlight' = inFlight + 1
    /\ wpc' = [wpc EXCEPT ![w] = "run"]
    /\ UNCHANGED <<mx, q, stopping, cpc, op, notifying, accepted, done, before, calls, spurious>>

\* Pop and count under mx_: drain() never sees the task in neither place.
WorkerPop(w) ==
    /\ wpc[w] = "loop" /\ mx = Free
    /\ q # <<>>
    /\ fn' = [fn EXCEPT ![w] = Head(q)]
    /\ q' = Tail(q)
    /\ inFlight' = inFlight + 1
    /\ wpc' = [wpc EXCEPT ![w] = "run"]
    /\ UNCHANGED <<mx, stopping, cpc, op, notifying, accepted, done, before, calls, spurious>>

\* fn() returns or throws (both are swallowed) and inFlight_.fetch_sub(1),
\* without mx_.
WorkerDone(w) ==
    /\ wpc[w] = "run" /\ w \notin notifying
    /\ done' = done \cup {fn[w]}
    /\ fn' = [fn EXCEPT ![w] = NoTask]
    /\ inFlight' = inFlight - 1
    /\ wpc' = [wpc EXCEPT ![w] = "finished"]
    /\ UNCHANGED <<mx, q, stopping, cpc, op, notifying, accepted, before, calls, spurious>>

\* idleCv_.notify_all(): every client blocked in drain() must re-take mx_.
WorkerNotifyIdle(w) ==
    /\ wpc[w] = "finished"
    /\ wpc' = [wpc EXCEPT ![w] = "loop"]
    /\ cpc' = [c \in Clients |-> IF cpc[c] = "idleWait" THEN "lock" ELSE cpc[c]]
    /\ UNCHANGED <<mx, q, stopping, inFlight, fn, op, notifying, accepted, done,
                   before, calls, spurious>>

-----------------------------------------------------------------------------
(* drain(), shutdown() and ~ThreadPool()                                   *)

\* A client enters one of the calls.  The destructor does not drain.
Call(c, what) ==
    /\ cpc[c] = "idle" /\ c \notin notifying
    /\ what = "drain" \/ c = Owner
    /\ calls < MaxCalls
    /\ calls' = calls + 1
    /\ op' = [op EXCEPT ![c] = what]
    /\ cpc' = [cpc EXCEPT ![c] = IF what = "destroy" THEN "stop" ELSE "lock"]
    /\ before' = [before EXCEPT ![c] = accepted]
    /\ UNCHANGED <<mx, q, stopping, inFlight, wpc, fn, notifying, accepted, done, spurious>>

\* unique_lock lk(mx_): on entry and again after each wake-up.
DrainLock(c) ==
    /\ cpc[c] = "lock" /\ mx = Free
    /\ mx' = c
    /\ cpc' = [cpc EXCEPT ![c] = "check"]
    /\ UNCHANGED <<q, stopping, inFlight, wpc, fn, op, notifying, accepted, done,
                   before, calls, spurious>>

\* Defect: the predicate forgets the tasks in flight.
DrainCheckQueueOnly(c) ==
    /\ cpc[c] = "check"
    /\ IF q = <<>>
       THEN /\ mx' = Free
            /\ cpc' = [cpc EXCEPT ![c] = "drained"]
       ELSE /\ cpc' = [cpc EXCEPT ![c] = "block"]
            /\ UNCHANGED mx
    /\ UNCHANGED <<q, stopping, inFlight, wpc, fn, op, notifying, accepted, done,
                   before, calls, spurious>>

\* The predicate, evaluated with mx_ held; inFlight_ may fall right after.
DrainCheck(c) ==
    /\ cpc[c] = "check"
    /\ IF q = <<>> /\ inFlight = 0
       THEN /\ mx' = Free
            /\ cpc' = [cpc EXCEPT ![c] = "drained"]
       ELSE /\ cpc' = [cpc EXCEPT ![c] = "block"]
            /\ UNCHANGED mx
    /\ UNCHANGED <<q, stopping, inFlight, wpc, fn, op, notifying, accepted, done,
                   before, calls, spurious>>

\* The predicate was false: release mx_ and join the waiters of idleCv_.
DrainBlock(c) ==
    /\ cpc[c] = "block"
    /\ mx' = Free
    /\ cpc' = [cpc EXCEPT ![c] = "idleWait"]
    /\ UNCHANGED <<q, stopping, inFlight, wpc, fn, op, notifying, accepted, done,
                   before, calls, spurious>>

\* drain() returns: to its caller, or into the rest of shutdown().
DrainReturn(c) ==
    /\ cpc[c] = "drained"
    /\ cpc' = [cpc EXCEPT ![c] = IF op[c] = "shutdown" THEN "stop" ELSE "idle"]
    /\ op' = IF op[c] = "shutdown" THEN op ELSE [op EXCEPT ![c] = "none"]
    /\ UNCHANGED <<mx, q, stopping, inFlight, wpc, fn, notifying, accepted, done,
                   before, calls, spurious>>

\* stopping_ = true under mx_.
SetStopping(c) ==
    /\ cpc[c] = "stop" /\ mx = Free
    /\ stopping' = TRUE
    /\ cpc' = [cpc EXCEPT ![c] = "notifyStop"]
    /\ UNCHANGED <<mx, q, inFlight, wpc, fn, op, notifying, accepted, done,
                   before, calls, spurious>>

\* Defect: one worker is told to stop instead of all of them.
NotifyStopOne(c) ==
    LET waiting == {w \in Workers : wpc[w] = "cvWait"}
    IN  /\ cpc[c] = "notifyStop"
        /\ \/ waiting = {} /\ UNCHANGED wpc
           \/ \E w \in waiting : wpc' = [wpc EXCEPT ![w] = "loop"]
        /\ cpc' = [cpc EXCEPT ![c] = "join"]
        /\ UNCHANGED <<mx, q, stopping, inFlight, fn, op, notifying, accepted, done,
                       before, calls, spurious>>

\* cv_.notify_all()
NotifyStop(c) ==
    /\ cpc[c] = "notifyStop"
    /\ wpc' = [w \in Workers |-> IF wpc[w] = "cvWait" THEN "loop" ELSE wpc[w]]
    /\ cpc' = [cpc EXCEPT ![c] = "join"]
    /\ UNCHANGED <<mx, q, stopping, inFlight, fn, op, notifying, accepted, done,
                   before, calls, spurious>>

\* Joining every worker; a second call finds none joinable.  After the
\* destructor the owner has no pool left to call.
Join(c) ==
    /\ cpc[c] = "join"
    /\ \A w \in Workers : wpc[w] = "exited"
    /\ cpc' = [cpc EXCEPT ![c] = IF op[c] = "destroy" THEN "gone" ELSE "idle"]
    /\ op' = [op EXCEPT ![c] = "none"]
    /\ UNCHANGED <<mx, q, stopping, inFlight, wpc, fn, notifying, accepted, done,
                   before, calls, spurious>>

\* A condition variable may wake a waiter for no reason.
Spurious ==
    /\ spurious < MaxSpurious
    /\ spurious' = spurious + 1
    /\ \/ \E w \in Workers : /\ wpc[w] = "cvWait"
                             /\ wpc' = [wpc EXCEPT ![w] = "loop"]
                             /\ UNCHANGED cpc
       \/ \E c \in Clients : /\ cpc[c] = "idleWait"
                             /\ cpc' = [cpc EXCEPT ![c] = "lock"]
                             /\ UNCHANGED wpc
    /\ UNCHANGED <<mx, q, stopping, inFlight, fn, op, notifying, accepted, done, before, calls>>

-----------------------------------------------------------------------------

WorkerStep(w) ==
    \/ WorkerWait(w) \/ WorkerExit(w) \/ WorkerPop(w)
    \/ WorkerDone(w) \/ WorkerNotifyIdle(w)

\* What a client inside a call does next.
ClientStep(c) ==
    \/ DrainLock(c) \/ DrainCheck(c) \/ DrainBlock(c) \/ DrainReturn(c)
    \/ SetStopping(c) \/ NotifyStop(c) \/ Join(c)

Next ==
    \/ \E p \in Threads, t \in Tasks : Post(p, t)
    \/ \E p \in Threads : NotifyOne(p)
    \/ \E w \in Workers : WorkerStep(w)
    \/ \E c \in Clients, what \in {"drain", "shutdown", "destroy"} : Call(c, what)
    \/ \E c \in Clients : ClientStep(c)
    \/ Spurious

Spec == Init /\ [][Next]_vars

\* A thread that can run keeps running and every closure ends; nobody is
\* obliged to call anything, and no wake-up comes for free.
Fairness ==
    /\ \A w \in Workers : WF_vars(WorkerStep(w))
    /\ \A c \in Clients : WF_vars(ClientStep(c))
    /\ \A p \in Threads : WF_vars(NotifyOne(p))

FairSpec == Spec /\ Fairness

-----------------------------------------------------------------------------
(* Properties                                                              *)

\* Type correctness of the pool's state.
TypeOK ==
    /\ mx \in Clients \cup {Free}
    /\ q \in Seq(Tasks)
    /\ stopping \in BOOLEAN
    /\ inFlight \in Nat
    /\ wpc \in [Workers -> WorkerPC]
    /\ fn \in [Workers -> Tasks \cup {NoTask}]
    /\ cpc \in [Clients -> ClientPC]
    /\ op \in [Clients -> Ops]
    /\ notifying \in SUBSET Threads
    /\ accepted \in SUBSET Tasks
    /\ done \in SUBSET Tasks
    /\ before \in [Clients -> SUBSET Tasks]
    /\ calls \in Nat /\ spurious \in Nat

Queued == {q[i] : i \in DOMAIN q}
Busy == {w \in Workers : wpc[w] = "run"}
Running == {fn[w] : w \in Busy}

\* Every closure post() pushed is queued, in exactly one worker's hands, or
\* finished: workerLoop neither loses a closure nor runs one twice.
EachTaskOnce ==
    /\ accepted = Queued \cup Running \cup done
    /\ Queued \cap (Running \cup done) = {} /\ Running \cap done = {}
    /\ \A i, j \in DOMAIN q : q[i] = q[j] => i = j
    /\ \A v, w \in Busy : fn[v] = fn[w] => v = w

\* inFlight_ is the number of closures between their pop and their end,
\* although it is raised under mx_ and lowered without it.
InFlightExact == inFlight = Cardinality(Busy)

\* drain() promises that the queue was empty and nothing was in flight: when it
\* returns, every task accepted before the call has finished.
DrainWaitsForEarlierTasks ==
    \A c \in Clients : cpc[c] = "drained" => before[c] \subseteq done

\* Whoever has joined the workers leaves no accepted task behind: the pool
\* stops only after its queue is empty and nothing is pushed after that.
NothingStranded ==
    (\A w \in Workers : wpc[w] = "exited") => (accepted = done /\ q = <<>>)

\* An accepted task is eventually run, whatever drains, shutdowns and
\* destruction happen meanwhile (post()'s late notify_one is never missed).
TasksFinish == \A t \in Tasks : t \in accepted ~> t \in done

\* Once shutdown() or the destructor has set stopping_, its joins end.
StopCompletes == \A c \in Clients : cpc[c] \in {"stop", "notifyStop", "join"}
                                       ~> cpc[c] \in {"idle", "gone"}

\* drain() returns once nothing is left to wait for.
DrainReturns == \A c \in Clients : cpc[c] = "lock" ~> cpc[c] = "drained"

====

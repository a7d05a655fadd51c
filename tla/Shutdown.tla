------------------------------ MODULE Shutdown ------------------------------
(***************************************************************************)
(* main and the ShutdownCoordinator, over the two servers.                 *)
(*                                                                         *)
(* The main thread boots, registering a shutdown step for each part it     *)
(* brings up, and then runs the io_context.  A signal runs                 *)
(* ShutdownCoordinator::stop in its handler: on the main thread, whose own *)
(* work is then suspended, or on another thread, concurrently with it.     *)
(* Steps whose effect is outside this module (metrics, connectors, pool)   *)
(* are only run.                                                           *)
(*                                                                         *)
(* Neither thread is sure to come back from what it calls.  drain() may    *)
(* miss its wake-up (ThreadPool), the handler of a session may wait for    *)
(* its own lock (ClientSession), a feed client for its peer (WsFeedClient),*)
(* and a signal handler for a lock of the code it interrupted.             *)
(***************************************************************************)
EXTENDS FeedServer, WebSocketServer, SequencesExt

VARIABLES
    main,       \* "boot", "run", "stop" (its own call of stop()) or "returned"
    line,       \* the next line of Boot
    tested,     \* registerStep has found stopping_ false and not yet locked mx_
    steps,      \* steps_
    stopping,   \* stopping_
    host,       \* the thread stop() runs on: "none", "main" or "other"
    at,         \* where it is: "none", "copy", "run" or "over"
    plan,       \* the steps it has still to run, in order
    sub,        \* parts of the first of them already done
    asleep,     \* it waits in that step, for good
    ran,        \* the steps it has called
    early,      \* names of the steps registered before stopping_ was set
    late        \* peers that were being accepted when their server was told to stop

stopVars == <<steps, stopping, host, at, plan, sub, asleep, ran, early, late>>
vars == <<ioVars, feedVars, wsVars, main, line, tested, stopVars>>

Step(name, order) == [name |-> name, order |-> order]

\* What main does before ioc.run(): the steps it registers, and the servers it
\* starts (order 0 stands for "not a step"); first those of the engine ...
BootEngine ==
    << Step("pool-drain", 80), Step("pool-destroy", 85), Step("metrics-stop", 10),
       Step("run-ws", 0),
       Step("ws-stop-accept", 5), Step("ws-close-sessions", 40), Step("asio-stop", 60) >>

\* ... then those of the ingress sources and connectors.
BootMarket == << Step("run-feed", 0), Step("ingress-stop", 35), Step("connectors-stop", 30) >>

Boot == BootEngine \o BootMarket

NameSet(ss) == {ss[k].name : k \in DOMAIN ss}

\* The types of the variables.
TypeOK ==
    /\ FeedTypeOK /\ WsTypeOK
    /\ main \in {"boot", "run", "stop", "returned"}
    /\ line \in 1..(Len(Boot) + 1)
    /\ {tested, stopping, asleep} \subseteq BOOLEAN
    /\ Range(steps) \cup Range(plan) \cup Range(ran) \subseteq Range(Boot)
    /\ host \in {"none", "main", "other"}
    /\ at \in {"none", "copy", "run", "over"}
    /\ early \subseteq NameSet(Boot) /\ late \subseteq Clients \cup Producers

Init ==
    /\ io = Between /\ stopped = FALSE
    /\ FeedInit /\ WsInit
    /\ main = "boot" /\ line = 1 /\ tested = FALSE
    /\ steps = <<>> /\ stopping = FALSE
    /\ host = "none" /\ at = "none" /\ plan = <<>> /\ sub = 0 /\ asleep = FALSE
    /\ ran = <<>> /\ early = {} /\ late = {}

-----------------------------------------------------------------------------
(* The main thread.                                                        *)

\* A signal handled on the main thread suspends what it was doing.
MainRuns == ~(host = "main" /\ at \in {"copy", "run"})

Servers == <<ioVars, feedVars, wsVars>>

\* registerStep tests stopping_ before it takes the lock ...
RegisterTest ==
    /\ MainRuns /\ main = "boot" /\ line <= Len(Boot)
    /\ Boot[line].order > 0 /\ ~tested
    /\ IF stopping THEN line' = line + 1 /\ UNCHANGED tested
                   ELSE tested' = TRUE /\ UNCHANGED line
    /\ UNCHANGED <<Servers, main, stopVars>>

\* ... under which it appends the step.
RegisterPush ==
    /\ MainRuns /\ tested
    /\ steps' = Append(steps, Boot[line])
    /\ tested' = FALSE
    /\ line' = line + 1
    /\ UNCHANGED <<Servers, main, stopping, host, at, plan, sub, asleep, ran, early, late>>

StartServer ==
    /\ MainRuns /\ main = "boot" /\ line <= Len(Boot)
    /\ \/ Boot[line].name = "run-ws" /\ RunWs /\ UNCHANGED feedVars
       \/ Boot[line].name = "run-feed" /\ RunFeed /\ UNCHANGED wsVars
    /\ line' = line + 1
    /\ UNCHANGED <<ioVars, main, tested, stopVars>>

EnterRun ==
    /\ MainRuns /\ main = "boot" /\ line > Len(Boot)
    /\ main' = "run"
    /\ UNCHANGED <<Servers, line, tested, stopVars>>

\* The main thread runs a handler.
Handler ==
    /\ MainRuns /\ main = "run"
    /\ \/ FeedIo /\ UNCHANGED wsVars
       \/ WsIo /\ UNCHANGED feedVars
    /\ UNCHANGED <<main, line, tested, stopVars>>

HasWork ==
    \/ accept /= "none" \/ wsAccept /= "none"
    \/ \E p \in Producers : conn[p] = "open"
    \/ \E c \in Clients : peer[c] \in {"shaking", "open", "closing"}

\* main calls stop() itself: if somebody else has, it does not wait for them.
OwnStop ==
    /\ IF stopping
       THEN main' = "returned" /\ UNCHANGED <<stopping, host, at, early>>
       ELSE /\ main' = "stop"
            /\ stopping' = TRUE
            /\ host' = "main" /\ at' = "copy"
            /\ early' = NameSet(steps)
    /\ UNCHANGED <<Servers, line, tested, steps, plan, sub, asleep, ran, late>>

\* ioc.run() returns between two handlers, once stopped or out of work ...
RunReturns ==
    /\ MainRuns /\ main = "run" /\ io = Between
    /\ stopped \/ ~HasWork
    /\ OwnStop

\* ... or is left by the exception of a handler that had not done anything yet.
RunThrows ==
    /\ MainRuns /\ main = "run" /\ Idle /\ HasWork
    /\ OwnStop

StopReturns ==
    /\ main = "stop" /\ at = "over"
    /\ main' = "returned"
    /\ UNCHANGED <<Servers, line, tested, stopVars>>

-----------------------------------------------------------------------------
(* ShutdownCoordinator::stop.  It ends with the process when main returns. *)

Alive == main /= "returned" /\ ~asleep

\* SIGINT or SIGTERM: the compare-and-swap lets one call through.
Signal ==
    /\ Alive /\ ~stopping
    /\ stopping' = TRUE
    /\ host' \in {"main", "other"}
    /\ at' = "copy"
    /\ early' = NameSet(steps)
    /\ UNCHANGED <<Servers, main, line, tested, steps, plan, sub, asleep, ran, late>>

\* Defect: the steps are run as they were registered.
Unsorted == steps

\* Where std::stable_sort puts the k-th step: behind those of a lower order and
\* those of the same order that were registered before it.
Place(k) ==
    Cardinality({j \in DOMAIN steps : \/ steps[j].order < steps[k].order
                                      \/ steps[j].order = steps[k].order /\ j <= k})

Sorted == [r \in DOMAIN steps |-> steps[CHOOSE k \in DOMAIN steps : Place(k) = r]]

CopySteps ==
    /\ Alive /\ at = "copy"
    /\ plan' = Sorted
    /\ steps' = Sorted
    /\ at' = "run"
    /\ UNCHANGED <<Servers, main, line, tested, stopping, host, sub, asleep, ran, early, late>>

Current == IF at = "run" /\ plan /= <<>> THEN Head(plan).name ELSE "none"

\* The step has returned, or there is more of it to do.
StepEnds == plan' = Tail(plan) /\ ran' = Append(ran, Head(plan)) /\ sub' = 0
StepGoesOn == sub' = sub + 1 /\ UNCHANGED <<plan, ran>>

Stepping == Alive /\ UNCHANGED <<main, line, tested, steps, stopping, host, at, asleep, early>>

\* Steps of other parts of the program, if they return: pool-drain may not (see
\* StopSleeps).  A step that throws ends like one that returns: stop() catches
\* and goes on.
RunOther ==
    /\ Current \in {"metrics-stop", "connectors-stop", "pool-drain", "pool-destroy"}
    /\ StepEnds /\ Stepping
    /\ UNCHANGED <<Servers, late>>

RunWsStopAccept ==
    /\ Current = "ws-stop-accept"
    /\ \/ sub = 0 /\ StopAcceptFlag /\ StepGoesOn
       \/ sub = 1 /\ StopAcceptCancel /\ StepEnds
    /\ Stepping /\ UNCHANGED <<ioVars, feedVars, late>>

\* The peer whose accept handler is past its test of accepting_.
Accepting(ats) == IF io.at \in ats THEN {io.who} ELSE {}

\* Defect: FeedServer::stop closes its sessions before it stops accepting.
FeedStopBackwards ==
    \/ sub = 0 /\ ClearSessions /\ StepGoesOn
    \/ sub = 1 /\ CloseSessions /\ StepGoesOn
    \/ sub = 2 /\ StopAccepting /\ StepGoesOn
    \/ sub = 3 /\ CancelAccept /\ StepEnds

FeedStop ==
    \/ sub = 0 /\ StopAccepting /\ StepGoesOn
    \/ sub = 1 /\ CancelAccept /\ StepGoesOn
    \/ sub = 2 /\ ClearSessions /\ StepGoesOn
    \/ sub = 3 /\ CloseSessions /\ StepEnds

\* The ingress sources are stopped: here, the feed server.
RunIngressStop ==
    /\ Current = "ingress-stop"
    /\ FeedStop
    /\ late' = late \cup IF accepting /= accepting'
                         THEN Accepting({"feed-cap", "feed-insert"}) ELSE {}
    /\ Stepping /\ UNCHANGED <<ioVars, wsVars>>

RunCloseSessions ==
    /\ Current = "ws-close-sessions"
    /\ \/ /\ sub = 0 /\ CloseAllCopy /\ StepGoesOn
          /\ late' = late \cup Accepting({"ws-cap"}) \cup {c \in Clients : peer[c] = "shaking"}
       \/ sub > 0 /\ CloseAllNext /\ UNCHANGED <<plan, ran, sub, late>>
       \/ sub > 0 /\ wsCopy = {} /\ StepEnds /\ UNCHANGED <<wsVars, late>>
    /\ Stepping /\ UNCHANGED <<ioVars, feedVars>>

\* Defect: the io_context is left running.
LeaveRunning == UNCHANGED stopped

IocStop == stopped' = TRUE

RunAsioStop ==
    /\ Current = "asio-stop"
    /\ IocStop
    /\ StepEnds /\ Stepping
    /\ UNCHANGED <<io, feedVars, wsVars, late>>

StopOver ==
    /\ Alive /\ at = "run" /\ plan = <<>>
    /\ at' = "over" /\ host' = "none"
    /\ UNCHANGED <<Servers, main, line, tested, steps, stopping, plan, sub, asleep, ran, early, late>>

\* stop() waits for good: in drain(), whose wake-up is lost, or, called by a signal
\* handler that interrupted main, for a lock that main holds.
StopSleeps ==
    /\ Alive
    /\ \/ Current = "pool-drain"
       \/ host = "main" /\ main /= "stop" /\ (Current /= "none" \/ (at = "copy" /\ tested))
    /\ asleep' = TRUE
    /\ UNCHANGED <<Servers, main, line, tested, steps, stopping, host, at, plan, sub, ran, early, late>>

Stop ==
    \/ CopySteps \/ RunOther \/ RunWsStopAccept \/ RunIngressStop \/ RunCloseSessions
    \/ RunAsioStop \/ StopOver

\* A handler that waits: a session's outbox overflows while the session holds
\* reqMu_, which its close() takes; or the stopped feed client closes its stream,
\* which lasts until the peer answers.
HandlerWaits ==
    /\ MainRuns /\ main = "run" /\ Idle
    /\ \/ \E c \in Clients : peer[c] = "open"
       \/ "ingress-stop" \in NameSet(ran) \cup {Current}
    /\ Goto("waits", 0)
    /\ UNCHANGED <<stopped, feedVars, wsVars, main, line, tested, stopVars>>

\* The peer answers, if it was that, and if it ever does.
WaitEnds ==
    /\ MainRuns /\ main = "run" /\ io.at = "waits"
    /\ Done
    /\ UNCHANGED <<stopped, feedVars, wsVars, main, line, tested, stopVars>>

\* Between two handlers the io_context polls its sockets.
Poll ==
    /\ MainRuns /\ main = "run"
    /\ \/ FeedPoll /\ UNCHANGED wsVars
       \/ WsPoll /\ UNCHANGED feedVars
    /\ UNCHANGED <<main, line, tested, stopVars>>

MainStep ==
    \/ RegisterTest \/ RegisterPush \/ StartServer \/ EnterRun
    \/ RunReturns \/ StopReturns
    \/ Handler

Next ==
    \/ MainStep \/ RunThrows \/ Signal \/ Stop \/ Poll
    \/ StopSleeps \/ HandlerWaits \/ WaitEnds

Spec == Init /\ [][Next]_vars

\* Both threads are scheduled and go on unless they wait; no peer owes an answer
\* and nobody an exception.
FairSpec == Spec /\ WF_vars(MainStep) /\ WF_vars(Stop)

-----------------------------------------------------------------------------
(* Properties.                                                             *)

\* stop() calls each step at most once and in ascending order, and has called
\* every step registered before it when it is over, whatever main registers in
\* the meantime (ShutdownCoordinator.hpp:17-58).
StepsComplete ==
    /\ \A j, k \in DOMAIN ran : j < k => ran[j].order < ran[k].order
    /\ at = "over" => early \subseteq NameSet(ran)

\* Stopping races with accepting, but leaves behind only peers that were being
\* accepted at that moment: once ingress-stop has run, a producer whose accept
\* handler was past its test of accepting_ (FeedServer.cpp:379-389, 406-428),
\* and once ws-close-sessions has run, clients that had not registered yet
\* (WebSocketServer.cpp:62-77, 112-135).
StopReachesAll ==
    /\ "ingress-stop" \in NameSet(ran) => sessions \subseteq late
    /\ "ws-close-sessions" \in NameSet(ran) => {c \in Clients : peer[c] = "open"} \subseteq late

\* The io thread waits in a handler, or main in its own or the interrupting stop().
Hung == io.at = "waits" \/ (host = "main" /\ asleep)

\* If stop() is called once the asio-stop step is registered, main returns unless
\* it hangs for good.  That drain() may sleep keeps main from returning only if
\* stop() runs on the main thread: it comes after asio-stop (main.cpp:116, 142).
SignalEnds == <>[]Hung \/ <>[]("asio-stop" \in early => main = "returned")
=============================================================================

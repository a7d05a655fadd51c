----------------------------- MODULE IoContext -----------------------------
(***************************************************************************)
(* The io_context of main: one thread runs the handlers one after another. *)
(* `io` says where that thread is inside a handler made of several steps.  *)
(***************************************************************************)
VARIABLES
    io,         \* [at, who]: the handler's next step and the peer it is about
    stopped     \* io_context::stop was called

ioVars == <<io, stopped>>

Between == [at |-> "between", who |-> 0]

\* A handler may start.
Idle == io = Between /\ ~stopped
Goto(step, p) == io' = [at |-> step, who |-> p]
Done == io' = Between
=============================================================================

------------------------------ MODULE MCChain ------------------------------
(* Chain for TLC: the pipelines below cover every kind of stage, each with *)
(* its cap reached.                                                        *)
EXTENDS Chain

Stage(k, args, n, cap) == [kind |-> k, args |-> args, arity |-> n, cap |-> cap]
Plain(k) == Stage(k, <<>>, 1, 1)
Inputs(n, ss) == Stage("Aggregate", ss, n, 2)
Window(cap) == Stage("TumblingWindow", <<>>, 1, cap)
SplitInto(k) == Stage("GroupSplit", <<k>>, 1, 1)

MCPipelines ==
    { <<Window(1), Plain("VectorReducer"), Plain("Worker")>>,
      <<Inputs(2, <<"A", "B">>), SplitInto("Worker")>>,
      <<Inputs(1, <<"A", "B">>), SplitInto("Worker")>>,
      <<Inputs(1, <<"A", "B">>), Plain("Worker")>>,
      <<Inputs(1, <<"A", "B", "C">>), Window(1)>>,
      <<Inputs(1, <<"A", "B">>), Window(2)>>,
      <<Plain("Interval"), SplitInto("AtomicAccessor"), Plain("VectorReducer")>>,
      <<Plain("BucketTime"), Plain("AtomicAccessor")>> }
=============================================================================

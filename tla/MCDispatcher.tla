---------------------------- MODULE MCDispatcher ----------------------------
(***************************************************************************)
(* Dispatcher for TLC.  lastPrice is both a payload member and a result of *)
(* the tick computer, sma a computed indicator, mean a FunctionMap builtin *)
(* and qty a member that feeds only its own history.                       *)
(***************************************************************************)
EXTENDS Dispatcher, TLC

CONSTANTS l1, l2, l3, l4, l5

\* Two listeners share lastPrice: a tick pushes it to the history twice.
MCFields == (l1 :> "lastPrice") @@ (l2 :> "mean") @@ (l3 :> "lastPrice")
            @@ (l4 :> "sma") @@ (l5 :> "qty")
MCFieldOf == [l \in Listeners |-> MCFields[l]]
MCSymOf == [l \in Listeners |-> "A"]
MCFieldSeq == <<"lastPrice", "mean", "qty", "sma">>
Result(key, depth) == [key |-> key, depth |-> depth]
MCIndicators == <<Result("lastPrice", 1), Result("mean", 1), Result("sma", 2)>>
MCLightKeys == <<"lastPrice">>
MCEvents ==
    {[sym |-> "A", num |-> {"lastPrice", "qty", "bid", "ask"}, other |-> {}],
     [sym |-> "A", num |-> {"qty"}, other |-> {"lastPrice"}],
     [sym |-> "B", num |-> {"lastPrice", "qty"}, other |-> {}]}
MCSkip == {"lastPrice", "mean"}
=============================================================================

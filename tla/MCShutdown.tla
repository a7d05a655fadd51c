----------------------------- MODULE MCShutdown -----------------------------
(* Shutdown for TLC: the second line of p1 is longer than pending_ may     *)
(* grow.                                                                   *)
EXTENDS Shutdown

Line(len, json, type, action, ok) ==
    [len |-> len, json |-> json, type |-> type, action |-> action, ok |-> ok]

MCStreams ==
    [p \in Producers |->
        IF p = "p1" THEN << Line(2, TRUE, "ob", "add", TRUE), Line(4, TRUE, "", "", TRUE) >>
        ELSE <<>>]
=============================================================================

-------------------------- MODULE MCClientSession --------------------------
EXTENDS ClientSession, TLC

CONSTANTS k1, k2

Req(key, kind) == [key |-> key, kind |-> kind]

\* Two requests in one message, the first with an Interval (sent twice it is a
\* replacement); refusals; cancels of an unknown and of a known key.
MCMessages ==
    { [type |-> "subscribe", items |-> <<Req(k1, "timed"), Req(k2, "plain")>>],
      [type |-> "subscribe", items |-> <<Req(k2, "invalid"), Req(k2, "unbuildable")>>],
      [type |-> "cancel", items |-> <<k2, k1>>],
      [type |-> "other", items |-> <<>>] }

=============================================================================

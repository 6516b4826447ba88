------------------------- MODULE MCCoinbaseSession -------------------------
(* One message of every kind the replay treats differently, with the         *)
(* sequence numbers that make updates expected, repeated, old or gapped.     *)
EXTENDS CoinbaseSession

Sent(kind, number) == [kind |-> kind, sequence |-> number]

MCWire ==
    {Sent("snapshot", 0), Sent("snapshot", 1), Sent("update", 1), Sent("update", 2),
     Sent("heartbeat", 1), Sent("bad_heartbeat", 1), Sent("malformed", NoSequence)}
=============================================================================

---------------------------- MODULE MCOrderBook ----------------------------
(* A small instance of OrderBook: two bid prices and one ask price, two     *)
(* quantities, a tombstone, and one level with a price nobody accepts.      *)
EXTENDS OrderBook

Level(side, price, quantity) == [side |-> side, price |-> price, quantity |-> quantity]

MCLevels == {Level("Bid", 1, 1), Level("Bid", 1, 2), Level("Bid", 1, 0), Level("Bid", 2, 1),
             Level("Ask", 3, 1), Level("Ask", 3, 2), Level("Bid", 0, 1)}

MCLevelSeqs == UNION {[1 .. n -> MCLevels] : n \in 0 .. 2}

MCEvents ==
    LET Event(kind, home, sequence, levels) ==
            [kind |-> kind, home |-> home, sequence |-> sequence, levels |-> levels]
    IN {Event("snapshot", TRUE, 7, levels) : levels \in MCLevelSeqs}
       \cup {Event("update", TRUE, 8, levels) : levels \in MCLevelSeqs}
       \cup {Event(kind, FALSE, 9, <<Level("Bid", 1, 1)>>) : kind \in {"snapshot", "update"}}
=============================================================================

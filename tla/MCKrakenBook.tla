---------------------------- MODULE MCKrakenBook ----------------------------
(* A subscription of depth two with one level per side under the checksum.  *)
(* The third price of a side gives the exchange levels out of sight, the    *)
(* best bid's quantity can change, and the best prices can meet.            *)
EXTENDS KrakenBook

MCResting ==
    [k \in ({"Bid"} \X (1 .. 3)) \cup ({"Ask"} \X (3 .. 5)) |->
        IF k = <<"Bid", 3>> THEN {1, 2} ELSE {1}]
=============================================================================

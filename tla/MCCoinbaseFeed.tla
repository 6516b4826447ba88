--------------------------- MODULE MCCoinbaseFeed ---------------------------
(* CoinbaseFeed on a small instance.  The limits are those of each           *)
(* configuration; the delays 1, 2, 3 show doubling and the cap.              *)
EXTENDS CoinbaseFeed
=============================================================================

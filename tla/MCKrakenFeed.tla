--------------------------- MODULE MCKrakenFeed ---------------------------
(* KrakenFeed on a small instance: enough disturbances for a failure during *)
(* the recovery from another one, one request per session as in the code.   *)
EXTENDS KrakenFeed
=============================================================================

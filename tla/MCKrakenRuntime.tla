-------------------------- MODULE MCKrakenRuntime --------------------------
(* KrakenRuntime on a small instance: a queue of two messages and three     *)
(* bytes, so that it fills by count and by size; more messages than fit.    *)
EXTENDS KrakenRuntime
=============================================================================

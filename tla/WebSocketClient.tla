-------------------------- MODULE WebSocketClient --------------------------
(***************************************************************************)
(* transport::WebSocketClient::Impl, one TLS websocket session.            *)
(*                                                                         *)
(* A session has exactly one asynchronous operation outstanding until it   *)
(* is over; `stage` names it.  connect, TLS and websocket handshakes are   *)
(* one stage: their completion handlers have the same control.  A session  *)
(* whose last operation has completed is dropped by the modules that use   *)
(* these operators (the Impl dies with its last handler).                  *)
(*                                                                         *)
(* `writing` is stage = "subscribe" and `closing` is stage = "closing".    *)
(***************************************************************************)
EXTENDS Naturals

CONSTANT Requests  \* number of subscription requests a session writes

ASSUME RequestsAssumption == Requests \in Nat \ {0}

Stages == {"handshake", "subscribe", "read", "closing"}

Session == [stage : Stages, request : 0 .. Requests, stopping : BOOLEAN]

\* connect(): DNS answered, the asynchronous connect is under way.
Connecting == [stage |-> "handshake", request |-> 0, stopping |-> FALSE]

\* subscribe(0), after the websocket handshake.
FirstRequest(s) == [s EXCEPT !.stage = "subscribe", !.request = 1]
MoreRequests(s) == s.request < Requests
NextRequest(s) == [s EXCEPT !.request = @ + 1]

\* All requests written: connected() is called, then read().
Reading(s) == [s EXCEPT !.stage = "read"]

\* abort(): the socket is closed; the outstanding handler has yet to run.
Abort(s) == [s EXCEPT !.stopping = TRUE]

\* close() from a read or write handler while the stream is open: async_close.
Closing(s) == [s EXCEPT !.stage = "closing", !.stopping = TRUE]
=============================================================================

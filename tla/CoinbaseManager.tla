-------------------------- MODULE CoinbaseManager --------------------------
(***************************************************************************)
(* What CoinbaseConnectionManager promises to the runtime that owns it:    *)
(* one connection at a time, numbered from 1, each opened by an attempt,   *)
(* fed envelopes only while it is open, and given up as a whole.  There    *)
(* are no websocket sessions, generations, timers or back-off delays: that *)
(* abandoned sessions and old timers do not show through is what           *)
(* CoinbaseFeed is checked for, by implementing this specification.        *)
(***************************************************************************)
EXTENDS CoinbaseProcessor

VARIABLES stopping, terminal, recovery_pending, connected, connection_id

vars == <<stopping, terminal, recovery_pending, connected, connection_id, book, sequence>>

\* No connection is open and the book is in the given state.
Offline(state) ==
    /\ connected' = FALSE
    /\ sequence' = NoSequence
    /\ book' = [book EXCEPT !.state = state]

Init ==
    /\ stopping = TRUE /\ terminal = FALSE /\ recovery_pending = FALSE /\ connected = FALSE
    /\ connection_id = 0
    /\ book = [state |-> "Disconnected", last_sequence |-> NoSequence]
    /\ sequence = NoSequence

\* begin_connection(): the attempt is under way, or has already failed.
Attempt(state) ==
    /\ recovery_pending' = (state = "Disconnected")
    /\ Offline(state)
    /\ UNCHANGED <<terminal, connection_id>>

AttemptStates == {"Resyncing", "Disconnected"}

Start(state) ==
    /\ stopping /\ ~terminal
    /\ stopping' = FALSE
    /\ Attempt(state)

Retry(state) ==
    /\ ~stopping /\ recovery_pending
    /\ Attempt(state)
    /\ UNCHANGED stopping

\* handle_connected().
Connect ==
    /\ ~stopping /\ ~recovery_pending /\ ~connected
    /\ connected' = TRUE
    /\ connection_id' = connection_id + 1
    /\ sequence' = NoSequence
    /\ book' = [book EXCEPT !.state = "Initializing"]
    /\ UNCHANGED <<stopping, terminal, recovery_pending>>

\* recover() outside a message: an error, a timeout or a forced disconnect.
Fail(state) ==
    /\ ~stopping /\ ~recovery_pending
    /\ state = "Stale" => connected
    /\ recovery_pending' = TRUE
    /\ Offline(state)
    /\ UNCHANGED <<stopping, terminal, connection_id>>

\* handle_message() of a recorded envelope; an error gives the connection up.
Message(m) ==
    /\ connected
    /\ IF Outcome(m) \in Errors
       THEN recovery_pending' = TRUE /\ Offline("Invalid")
       ELSE /\ sequence' = ProcessedSequence(m) /\ book' = ProcessedBook(m)
            /\ UNCHANGED <<recovery_pending, connected>>
    /\ UNCHANGED <<stopping, terminal, connection_id>>

Stop ==
    /\ ~stopping
    /\ stopping' = TRUE /\ recovery_pending' = FALSE
    /\ Offline("Disconnected")
    /\ UNCHANGED <<terminal, connection_id>>

\* terminal_recording_failure(), called by the runtime or for a refused envelope.
TerminalRecordingFailure ==
    /\ stopping' = TRUE /\ terminal' = TRUE /\ recovery_pending' = FALSE
    /\ Offline("Invalid")
    /\ UNCHANGED connection_id

Next ==
    \/ \E state \in AttemptStates : Start(state) \/ Retry(state)
    \/ Connect \/ Stop \/ TerminalRecordingFailure
    \/ \E state \in {"Disconnected", "Stale"} : Fail(state)
    \/ \E m \in Messages : Message(m)

Spec == Init /\ [][Next]_vars
=============================================================================

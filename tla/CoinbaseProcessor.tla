------------------------- MODULE CoinbaseProcessor -------------------------
(***************************************************************************)
(* CoinbaseMessageProcessor with the book and the sequence tracker it      *)
(* works on: what becomes of one envelope.  The live message handler and   *)
(* session replay both call it.                                            *)
(*                                                                         *)
(* A raw message is what the parsers make of it.  The book keeps its state *)
(* and sequence; its levels are the matter of OrderBook.  Health stamps    *)
(* are left to CoinbaseFeed, counters and stage timings are left out.      *)
(***************************************************************************)
EXTENDS Integers

CONSTANT MaxSequence  \* bound: sequence numbers per connection

VARIABLES
    book,      \* [state, last_sequence]
    sequence   \* SequenceTracker::last_

NoSequence == -1

BookStates == {"Initializing", "Valid", "Stale", "Resyncing", "Disconnected", "Invalid"}

-----------------------------------------------------------------------------
(***************************************************************************)
(* Messages, as the parsers classify them.  L2 envelopes always carry a    *)
(* sequence number; "late_snapshot" has an update before its snapshot,     *)
(* "empty" has no events, "rejected" starts with a snapshot that           *)
(* OrderBook::apply refuses.                                               *)
(***************************************************************************)
L2Kinds == {"snapshot", "update", "late_snapshot", "empty", "rejected"}
OtherKinds == {"heartbeat", "bad_heartbeat", "other"}

\* MaxSequence itself is kept for snapshots: the bound never starves a connection.
Messages ==
    [kind : {"malformed"}, sequence : {NoSequence}]
        \cup [kind : {"snapshot"}, sequence : 0 .. MaxSequence]
        \cup [kind : L2Kinds, sequence : 0 .. MaxSequence - 1]
        \cup [kind : OtherKinds, sequence : 0 .. MaxSequence - 1]
        \cup [kind : OtherKinds, sequence : {NoSequence}]

-----------------------------------------------------------------------------
(***************************************************************************)
(* SequenceTracker::observe.                                               *)
(***************************************************************************)
\* Mutant of Observe: a gap passes as the expected number.
BlindToGaps(n) ==
    IF sequence = NoSequence THEN "First"
    ELSE IF n = sequence THEN "Duplicate"
    ELSE IF n < sequence THEN "OutOfOrder" ELSE "Expected"

Observe(n) ==
    IF sequence = NoSequence THEN "First"
    ELSE IF n = sequence THEN "Duplicate"
    ELSE IF n < sequence THEN "OutOfOrder"
    ELSE IF n - sequence # 1 THEN "Gap" ELSE "Expected"

-----------------------------------------------------------------------------
(***************************************************************************)
(* CoinbaseMessageProcessor::process, as the outcome of a message.         *)
(***************************************************************************)
Errors == {"ParseError", "SequenceGap", "HeartbeatThrows", "BeforeSnapshot", "ApplyError"}
Skipped == {"Duplicate", "OutOfOrder"}

NotL2Outcome ==
    [heartbeat |-> "Heartbeat", bad_heartbeat |-> "HeartbeatThrows", other |-> "Ignored"]

Outcome(m) ==
    LET observed == IF m.sequence = NoSequence THEN "Unsequenced" ELSE Observe(m.sequence)
    IN IF m.kind = "malformed" THEN "ParseError"
       ELSE IF observed \in Skipped THEN observed
       ELSE IF observed = "Gap" THEN "SequenceGap"
       ELSE IF m.kind \in OtherKinds THEN NotL2Outcome[m.kind]
       ELSE IF book.state # "Valid" /\ m.kind \notin {"snapshot", "rejected"} THEN "BeforeSnapshot"
       ELSE IF m.kind = "rejected" THEN "ApplyError"
       ELSE IF m.kind = "empty" THEN "EmptyL2" ELSE "BookUpdated"

L2Outcomes == {"BeforeSnapshot", "ApplyError", "EmptyL2", "BookUpdated"}

\* A snapshot that makes the book Valid again.
FreshSnapshot(m) ==
    /\ Outcome(m) = "BookUpdated"
    /\ book.state # "Valid"
    /\ m.kind \in {"snapshot", "late_snapshot"}

\* The book after process(): fail() and a throwing heartbeat invalidate it.
ProcessedBook(m) ==
    IF Outcome(m) = "BookUpdated" THEN [state |-> "Valid", last_sequence |-> m.sequence]
    ELSE IF Outcome(m) \in Errors THEN [book EXCEPT !.state = "Invalid"] ELSE book

\* The tracker after process(): it moves to a number it calls First or Expected.
ProcessedSequence(m) ==
    IF m.sequence = NoSequence \/ Observe(m.sequence) \notin {"First", "Expected"}
    THEN sequence ELSE m.sequence
=============================================================================

-------------------------- MODULE CoinbaseSession --------------------------
(***************************************************************************)
(* A Coinbase capture session and its replay: the record log and the       *)
(* lifecycle events a run leaves behind, the manifest Capture::finalize    *)
(* makes of them, and the book sessions::replay computes from it.          *)
(*                                                                         *)
(* The manager is CoinbaseManager, which CoinbaseFeed implements.  Record  *)
(* indexes are contiguous, so a record's index is its position minus one.  *)
(* That every accepted envelope is written in order, and that a run        *)
(* without a fatal error writes them all, is RecordingLog's promise, which *)
(* LiveRuntime implements.  What the files hold, and who else touches      *)
(* them, is the matter of SessionDirectory.  Transition lists, counters    *)
(* and hashes of the replay result are left out.                           *)
(***************************************************************************)
EXTENDS CoinbaseManager, Sequences, SequencesExt

CONSTANTS
    Wire,         \* the messages the exchange sends
    MaxRecords,   \* bound: envelopes received
    MaxLifecycle  \* bound: lifecycle events

ASSUME SessionAssumption ==
    /\ MaxSequence \in Nat /\ Wire \subseteq Messages
    /\ MaxRecords \in Nat /\ MaxLifecycle \in Nat

VARIABLES
    received,   \* last_received_index + 1, or 0
    records,    \* accepted envelopes: [connection, message]
    lifecycle,  \* observed events: [index, state]
    after,      \* history: the live book and tracker after each record
    manifest    \* [status, records] of the session's document

sessionVars == <<vars, received, records, lifecycle, after, manifest>>

-----------------------------------------------------------------------------
(***************************************************************************)
(* The live side.                                                          *)
(***************************************************************************)
SessionInit ==
    /\ Init
    /\ received = 0 /\ records = <<>> /\ lifecycle = <<>> /\ after = <<>>
    /\ manifest = [status |-> "in_progress", records |-> 0]

\* Mutant of Observed: the event carries the index of the last record.
ObservedLate(states, index) ==
    lifecycle' = lifecycle \o [i \in DOMAIN states |->
                     [index |-> IF index = 0 THEN 0 ELSE index - 1, state |-> states[i]]]

\* observe_lifecycle(), for the transitions of one handler, in their order.
Observed(states, index) ==
    lifecycle' = lifecycle \o [i \in DOMAIN states |-> [index |-> index, state |-> states[i]]]

Capturing == manifest.status = "in_progress" /\ Len(lifecycle) < MaxLifecycle
Between == UNCHANGED <<received, records, after, manifest>>

AttemptEvents(state) ==
    IF state = "Resyncing" THEN <<"Resyncing">> ELSE <<"Resyncing", "Disconnected">>

\* run_live starts the manager once.
Starts(state) ==
    Capturing /\ lifecycle = <<>> /\ Start(state) /\ Observed(AttemptEvents(state), received) /\ Between

Retries(state) == Capturing /\ Retry(state) /\ Observed(AttemptEvents(state), received) /\ Between

Connects == Capturing /\ Connect /\ Observed(<<"Initializing">>, received) /\ Between

Fails(state) == Capturing /\ Fail(state) /\ Observed(<<state>>, received) /\ Between

Stops ==
    /\ manifest.status = "in_progress"
    /\ Stop /\ Observed(<<"Disconnected">>, received) /\ Between

\* The events of terminal_recording_failure(), which calls stop().
TerminalEvents == IF stopping THEN <<"Invalid">> ELSE <<"Disconnected", "Invalid">>

\* The writer's failure, delivered by the runtime.
RecordingFails ==
    /\ manifest.status = "in_progress" /\ ~terminal
    /\ TerminalRecordingFailure /\ Observed(TerminalEvents, received) /\ Between

\* handle_message() of an envelope the sink accepts.
Records(m) ==
    /\ Capturing /\ received < MaxRecords
    /\ Message(m)
    /\ received' = received + 1
    /\ records' = Append(records, [connection |-> connection_id, message |-> m])
    /\ after' = Append(after, [book |-> ProcessedBook(m), sequence |-> ProcessedSequence(m)])
    /\ Observed(IF Outcome(m) \in Errors THEN <<"Invalid">> ELSE <<>>, received + 1)
    /\ UNCHANGED manifest

\* handle_message() of an envelope the sink refuses: it has an index all the same.
Refuses ==
    /\ Capturing /\ received < MaxRecords /\ connected
    /\ TerminalRecordingFailure
    /\ received' = received + 1
    /\ Observed(TerminalEvents, received + 1)
    /\ UNCHANGED <<records, after, manifest>>

\* Mutant of Finalizes: a fatal error does not keep the status from "complete".
FinalizesAnyway(status, count) ==
    /\ manifest.status = "in_progress" /\ stopping
    /\ status = "complete" => count = Len(records)
    /\ manifest' = [status |-> status, records |-> count]
    /\ UNCHANGED <<vars, received, records, lifecycle, after>>

\* finalize() after both threads have joined.  A run that failed, here or by an
\* exception of the market thread, may have lost the end of its records.
Finalizes(status, count) ==
    /\ manifest.status = "in_progress" /\ stopping
    /\ status = "complete" => ~terminal /\ count = Len(records)
    /\ manifest' = [status |-> status, records |-> count]
    /\ UNCHANGED <<vars, received, records, lifecycle, after>>

\* The process is gone.
Finished == manifest.status # "in_progress" /\ UNCHANGED sessionVars

Live ==
    \/ \E state \in AttemptStates : Starts(state) \/ Retries(state)
    \/ Connects \/ Stops \/ RecordingFails \/ Refuses
    \/ \E state \in {"Disconnected", "Stale"} : Fails(state)
    \/ \E m \in Wire : Records(m)

SessionNext ==
    \/ Live
    \/ \E status \in {"complete", "failed"}, count \in 0 .. Len(records) : Finalizes(status, count)
    \/ Finished

SessionSpec == SessionInit /\ [][SessionNext]_sessionVars

-----------------------------------------------------------------------------
(***************************************************************************)
(* The replay.  Its state is a record: the book and tracker it drives, the *)
(* connection of the last record, the lifecycle events consumed, whether   *)
(* this record's events opened a connection, and whether it has thrown.    *)
(***************************************************************************)
NoConnection == 0

Processor(replay) ==
    INSTANCE CoinbaseProcessor WITH book <- replay.book, sequence <- replay.sequence

\* A capture with lifecycle events starts from the manager's initial state.
ReplayInit(events) ==
    [book |-> [state |-> IF events = <<>> THEN "Initializing" ELSE "Disconnected",
               last_sequence |-> NoSequence],
     sequence |-> NoSequence, connection |-> NoConnection,
     consumed |-> 0, lifecycle_connected |-> FALSE, thrown |-> FALSE]

\* The events the loop of apply_lifecycle consumes at this index.
Due(r, events, index) ==
    LET ends == {n \in r.consumed .. Len(events) :
                    \A i \in r.consumed + 1 .. n : events[i].index = index}
    IN SubSeq(events, r.consumed + 1, CHOOSE n \in ends : \A k \in ends : k <= n)

ApplyLifecycle(r, events, index) ==
    LET due == Due(r, events, index)
    IN [r EXCEPT !.consumed = @ + Len(due),
                 !.lifecycle_connected = \E i \in DOMAIN due : due[i].state = "Initializing",
                 !.book.state = IF due = <<>> THEN @ ELSE Last(due).state,
                 !.sequence = IF due = <<>> THEN @ ELSE NoSequence]

\* Mutant of ChangeConnection: a new connection keeps the state of the old book.
TrustsConnection(r, connection) ==
    IF connection = r.connection THEN r
    ELSE [r EXCEPT !.sequence = NoSequence, !.connection = connection]

\* A record of another connection: unless its events have opened the connection,
\* the book goes through Disconnected and Resyncing to Initializing.
ChangeConnection(r, connection) ==
    IF connection = r.connection THEN r
    ELSE [r EXCEPT !.book.state = IF r.lifecycle_connected THEN @ ELSE "Initializing",
                   !.sequence = NoSequence, !.connection = connection]

\* processor.process() outside any try block: a throwing heartbeat ends the replay.
ProcessRecord(r, m) ==
    IF Processor(r)!Outcome(m) = "HeartbeatThrows" THEN [r EXCEPT !.thrown = TRUE]
    ELSE [r EXCEPT !.book = Processor(r)!ProcessedBook(m),
                   !.sequence = Processor(r)!ProcessedSequence(m)]

\* The loop over the records, with the events that precede each of them.
ReplayRecords(events, count) ==
    LET step[i \in 0 .. count] ==
            IF i = 0 THEN ReplayInit(events)
            ELSE IF step[i - 1].thrown THEN step[i - 1]
            ELSE ProcessRecord(ChangeConnection(ApplyLifecycle(step[i - 1], events, i - 1),
                                                records[i].connection),
                               records[i].message)
    IN step[count]

\* The whole replay of count records; a finalized failure ends Invalid.
Replay(status, events, count) ==
    LET read == ReplayRecords(events, count)
        done == ApplyLifecycle(read, events, count)
    IN IF read.thrown THEN read
       ELSE IF status = "complete" /\ done.consumed # Len(events) THEN [done EXCEPT !.thrown = TRUE]
       ELSE IF status = "failed" THEN [done EXCEPT !.book.state = "Invalid", !.sequence = NoSequence]
       ELSE done

\* The manifest's lifecycle events pass the checks that precede the replay.
ValidEvents(status, events, count) ==
    /\ \A i \in 1 .. Len(events) - 1 : events[i].index <= events[i + 1].index
    /\ status = "complete" => \A i \in DOMAIN events : events[i].index <= count
    /\ \A i \in DOMAIN events : events[i].state \in BookStates \ {"Valid"}

\* final_runtime_state is Stopped, all last indexes are count - 1, nothing unpersisted.
ConsistentProgress(status, count) == status = "complete" => received = count

-----------------------------------------------------------------------------
(***************************************************************************)
(* The raw replay of main (--replay FILE): a CoinbaseMessagePipeline over  *)
(* the records alone.  It has its own copy of process(), stops at the      *)
(* first error of a connection and does not parse heartbeats.              *)
(***************************************************************************)
PipelineInit ==
    [book |-> [state |-> "Initializing", last_sequence |-> NoSequence], sequence |-> NoSequence,
     connection |-> NoConnection, stopped |-> FALSE]

\* Mutant of PipelineReset: the book keeps its state.
ResetsTrackerOnly(p, connection) ==
    [p EXCEPT !.stopped = FALSE, !.sequence = NoSequence, !.connection = connection]

\* reset_connection(), when a record carries another connection.
PipelineReset(p, connection) ==
    [p EXCEPT !.stopped = FALSE, !.sequence = NoSequence, !.book.state = "Initializing",
              !.connection = connection]

\* CoinbaseMessagePipeline::process with a sink that accepts.
PipelineProcess(p, m) ==
    LET outcome == Processor(p)!Outcome(m)
    IN IF p.stopped THEN p
       ELSE [p EXCEPT !.stopped = outcome \in Errors \ {"HeartbeatThrows"},
                      !.sequence = Processor(p)!ProcessedSequence(m),
                      !.book = IF outcome = "HeartbeatThrows" THEN @ ELSE Processor(p)!ProcessedBook(m)]

\* The loop of main; a connection id below the last one ends it.
PipelineReplay(count) ==
    LET step[i \in 0 .. count] ==
            IF i = 0 THEN PipelineInit
            ELSE LET p == step[i - 1]
                     connection == records[i].connection
                 IN IF connection < p.connection
                    THEN [p EXCEPT !.book.state = "Invalid", !.stopped = TRUE]
                    ELSE PipelineProcess(IF connection = p.connection THEN p
                                         ELSE PipelineReset(p, connection), records[i].message)
    IN step[count]

-----------------------------------------------------------------------------
(***************************************************************************)
(* Properties.                                                             *)
(***************************************************************************)
ThrowingRecord(i) == after[i].book.state = "Invalid" /\ records[i].message.kind = "bad_heartbeat"

\* The log determines the book: at every moment of a started run, replaying the
\* records and lifecycle events observed so far gives the live book and tracker,
\* through recoveries, failed attempts, stale feeds and the final stop.  Only a
\* heartbeat that throws ends a replay early.
LogDeterminesBook ==
    LET r == Replay("in_progress", lifecycle, Len(records))
    IN lifecycle # <<>> /\ received = Len(records) =>
           IF r.thrown THEN \E i \in DOMAIN records : ThrowingRecord(i)
           ELSE r.book = book /\ r.sequence = sequence

\* A capture that was cut off has no lifecycle events: connection changes are
\* inferred from the records alone, and still after every record the replayed
\* book and tracker are what they were live.
PrefixReplayMatches ==
    LET n == Len(records)
        r == ReplayRecords(<<>>, n)
    IN n > 0 /\ ~r.thrown => r.book = after[n].book /\ r.sequence = after[n].sequence

\* The older pipeline agrees with the processor although it is another piece of
\* code and sees no lifecycle events: after every record of a capture its book and
\* tracker are the live ones.  The one exception is a heartbeat that throws: live
\* it ends the connection, here it is ignored.
LegacyReplayMatches ==
    LET n == Len(records)
        p == PipelineReplay(n)
    IN n > 0 /\ ~ThrowingRecord(n) => p.book = after[n].book /\ p.sequence = after[n].sequence

\* Replay never refuses a complete capture for its own metadata: its events are
\* in order and within the records, every one of them is applied at its record,
\* and the progress it claims is what the file holds.
CompleteIsConsistent ==
    manifest.status = "complete" =>
        /\ ValidEvents("complete", lifecycle, manifest.records)
        /\ ConsistentProgress("complete", manifest.records)
        /\ LET r == ReplayRecords(lifecycle, manifest.records)
           IN r.thrown \/ ApplyLifecycle(r, lifecycle, manifest.records).consumed = Len(lifecycle)

\* A failed capture replays to an Invalid book over exactly the envelopes that
\* were persisted: events beyond them are accepted and have no effect.
FailedReplayIsPrefix ==
    manifest.status = "failed" =>
        LET n == manifest.records
            r == Replay("failed", lifecycle, n)
        IN /\ ValidEvents("failed", lifecycle, n)
           /\ ~r.thrown =>
                 /\ r.book.state = "Invalid"
                 /\ n > 0 => r.book.last_sequence = after[n].book.last_sequence

\* What replay makes of a finalized manifest.
FinalizedReplays == CompleteIsConsistent /\ FailedReplayIsPrefix

\* The live manager and the replay agree across recovery and shutdown, so a
\* complete capture has a replay.  It has none after a heartbeat that throws: live
\* the message handler catches it, in the replay nothing does.
CompleteCaptureReplays ==
    manifest.status = "complete" => ~Replay("complete", lifecycle, manifest.records).thrown
=============================================================================

----------------------------- MODULE KrakenFeed -----------------------------
(***************************************************************************)
(* The market-data thread of run_kraken as a feed: the sessions it opens,  *)
(* the recovery it schedules, the book it keeps, the log it leaves behind  *)
(* (records and lifecycle events), and the book sessions::replay computes  *)
(* from that log.                                                          *)
(*                                                                         *)
(* Everything runs on one io_context thread, so a handler is one atomic    *)
(* action; completions of abandoned sessions run arbitrarily late.  Unlike *)
(* CoinbaseFeed there are no generations: a session is told from another   *)
(* by the connection number it was opened with, but no callback compares   *)
(* it.                                                                     *)
(*                                                                         *)
(* Abstractions.  The book is its state and the indexes of the records it  *)
(* is made of; KrakenBook is about its levels.  The 5 s and 15 s limits    *)
(* are the flags silent and late.  The other threads, the queue and the    *)
(* shared status are KrakenRuntime's.  Metrics are left out, and so is the *)
(* retry delay: it is ReconnectPolicy's, as in CoinbaseFeed.               *)
(***************************************************************************)
EXTENDS WebSocketClient, Sequences, SequencesExt

CONSTANTS
    MaxNoise,         \* bound: messages that do not recover the book
    MaxDisturbances   \* bound: failures, bad messages and expired limits

ASSUME FeedAssumption == MaxNoise \in Nat /\ MaxDisturbances \in Nat

VARIABLES
    stopping, recovering, connected, first_record, seen_record, forced,  \* run_kraken's flags
    connection,         \* the last attempt's number; the client is its session
    silent, late,       \* over 5 s since the last message, 15 s since connected_at
    book,               \* [state, levels]
    retry,              \* the retry timer's callback is pending
    sessions,           \* connection -> session with an operation outstanding
    records, events,    \* the log: [connection, kind], [index, state]
    failed,             \* a fatal error has been stored
    after,              \* history: the book after each record
    noise, disturbances \* how much of the bounds is used

flags == <<stopping, recovering, connected, first_record, seen_record, forced>>
clocks == <<silent, late>>
log == <<records, events>>
feedVars == <<flags, connection, clocks, book, retry, log, failed, after>>
vars == <<feedVars, sessions, noise, disturbances>>

-----------------------------------------------------------------------------
(***************************************************************************)
(* KrakenBookProcessor, as far as its state machine goes.                  *)
(***************************************************************************)
\* bad_update: an update the checksum or the book refuses; bad: any other message
\* that fails (parse error, refused subscription, bad snapshot); harmless:
\* heartbeat, status, subscription success.
Kinds == {"snapshot", "update", "bad_update", "bad", "harmless"}

EmptyBook == [state |-> "Initializing", levels |-> <<>>]

\* Mutant of Processed: a snapshot adds to the levels instead of replacing them.
MergesSnapshot(b, kind, index) ==
    CASE kind = "harmless" -> b
      [] kind = "snapshot" -> [state |-> "Valid", levels |-> Append(b.levels, index)]
      [] kind = "update" -> IF b.state = "Valid" THEN [b EXCEPT !.levels = Append(@, index)] ELSE b
      [] kind = "bad_update" -> IF b.state = "Valid" THEN [b EXCEPT !.state = "Invalid"] ELSE b
      [] kind = "bad" -> [b EXCEPT !.state = "Invalid"]

\* process(): the book after record index.
Processed(b, kind, index) ==
    CASE kind = "harmless" -> b
      [] kind = "snapshot" -> [state |-> "Valid", levels |-> <<index>>]
      [] kind = "update" -> IF b.state = "Valid" THEN [b EXCEPT !.levels = Append(@, index)] ELSE b
      [] kind = "bad_update" -> IF b.state = "Valid" THEN [b EXCEPT !.state = "Invalid"] ELSE b
      [] kind = "bad" -> [b EXCEPT !.state = "Invalid"]

\* What process() returns.
Accepts(b, kind) ==
    kind \in {"harmless", "snapshot"} \/ (kind = "update" /\ b.state = "Valid")

\* reset_connection(), before the first record of every connection but the first.
AtRecord(b, reset) == IF reset THEN [b EXCEPT !.state = "Initializing"] ELSE b

-----------------------------------------------------------------------------
(***************************************************************************)
(* stop, recover, connect.                                                 *)
(***************************************************************************)
Without(c) == [d \in DOMAIN sessions \ {c} |-> sessions[d]]
With(c, s) == [d \in DOMAIN sessions \cup {c} |-> IF d = c THEN s ELSE sessions[d]]

\* Mutant of AbortClient: recover leaves the old session reading.
KeepsReading(all) == all

\* client->abort().
AbortClient(all) == [c \in DOMAIN all |-> IF c = connection THEN Abort(all[c]) ELSE all[c]]

\* stale() or disconnect().
RecoveredBook(b, stale) == [b EXCEPT !.state = IF stale THEN "Stale" ELSE "Disconnected"]

\* recover(), past its early return: b and recs are the book and the records it
\* finds, all the sessions.
Recover(b, stale, recs, all) ==
    /\ recovering' = TRUE /\ connected' = FALSE
    /\ book' = RecoveredBook(b, stale)
    /\ events' = Append(events, [index |-> Len(recs), state |-> book'.state])
    /\ sessions' = AbortClient(all)
    /\ retry' = TRUE

\* stop(): a cancelled retry may already have expired.
StopThen(b, all) ==
    /\ stopping' = TRUE /\ connected' = FALSE
    /\ book' = b
    /\ sessions' = AbortClient(all)
    /\ retry' \in {FALSE, retry}

Disturb == disturbances < MaxDisturbances /\ disturbances' = disturbances + 1

\* connect(): the attempt is under way, or its name does not resolve and
\* recover() is called from inside.
ConnectOpens ==
    /\ recovering' = FALSE
    /\ sessions' = With(connection + 1, Connecting)
    /\ retry' = FALSE
    /\ UNCHANGED <<connected, book, events, disturbances>>

ConnectFails ==
    /\ Disturb
    /\ recovering' = TRUE /\ connected' = FALSE
    /\ book' = RecoveredBook(book, FALSE)
    /\ events' = Append(events, [index |-> Len(records), state |-> book'.state])
    /\ retry' = TRUE
    /\ UNCHANGED sessions

\* Mutant of Connect: recovering is not cleared.
StaysRecovering ==
    /\ sessions' = With(connection + 1, Connecting) /\ retry' = FALSE
    /\ UNCHANGED <<recovering, connected, book, events, disturbances>>
    /\ first_record' = TRUE
    /\ connection' = connection + 1
    /\ silent' = FALSE /\ late' = FALSE
    /\ UNCHANGED <<stopping, seen_record, forced, records, failed, after, noise>>

Connect ==
    /\ ConnectOpens \/ ConnectFails
    /\ first_record' = TRUE
    /\ connection' = connection + 1
    /\ silent' = FALSE /\ late' = FALSE
    /\ UNCHANGED <<stopping, seen_record, forced, records, failed, after, noise>>

-----------------------------------------------------------------------------
Init ==
    /\ stopping = FALSE /\ recovering = FALSE /\ connected = FALSE
    /\ first_record = TRUE /\ seen_record = FALSE /\ forced = FALSE
    /\ connection = 0
    /\ silent = FALSE /\ late = FALSE
    /\ book = EmptyBook
    /\ retry = FALSE
    /\ sessions = [c \in {} |-> Connecting]
    /\ records = <<>> /\ events = <<>> /\ failed = FALSE
    /\ after = <<>>
    /\ noise = 0 /\ disturbances = 0

\* The writer is ready and has not failed.
FirstConnect == connection = 0 /\ ~stopping /\ Connect

RetryFires ==
    /\ retry
    /\ \/ ~stopping /\ Connect
       \/ /\ stopping
          /\ retry' = FALSE
          /\ UNCHANGED <<flags, connection, clocks, book, log, failed, after, sessions,
                         noise, disturbances>>

\* Time passes: the limits run from connected_at until the first record, then
\* the short one from the last message.  Only a connected feed looks at them.
TimePasses ==
    /\ ~stopping /\ connected
    /\ Disturb
    /\ \/ silent' = TRUE /\ late' \in {late, TRUE}
       \/ ~first_record /\ late' = TRUE /\ UNCHANGED silent
    /\ UNCHANGED <<flags, connection, book, retry, log, failed, after, sessions, noise>>

\* tick: kraken_stop or the duration.
TickStops ==
    /\ ~stopping
    /\ StopThen(book, sessions)
    /\ UNCHANGED <<recovering, first_record, seen_record, forced, connection, clocks, log, failed,
                   after, noise, disturbances>>

\* tick: a fatal error of the writer, seen by its first look at the status or only
\* by the second.
TickFails ==
    /\ ~stopping
    /\ StopThen([book EXCEPT !.state = "Invalid"], sessions) \/ StopThen(book, sessions)
    /\ failed' = TRUE
    /\ UNCHANGED <<recovering, first_record, seen_record, forced, connection, clocks, log,
                   after, noise, disturbances>>

\* The writer fails after the last tick, while the queue is drained.
DrainFails ==
    /\ stopping /\ ~failed
    /\ failed' = TRUE
    /\ UNCHANGED <<flags, connection, clocks, book, retry, log, after, sessions, noise, disturbances>>

\* tick: --force-disconnect-after-seconds.
TickForces ==
    /\ ~stopping /\ ~recovering /\ ~forced /\ connection > 0
    /\ Disturb
    /\ forced' = TRUE
    /\ Recover(book, FALSE, records, sessions)
    /\ UNCHANGED <<stopping, first_record, seen_record, connection, clocks, records, failed,
                   after, noise>>

\* Mutant of TickRecovers: silence is looked for in a Valid book only.
TickTrustsSubscription ==
    /\ ~stopping /\ connected /\ ~recovering
    /\ book.state = "Valid" /\ silent /\ Recover(book, TRUE, records, sessions)
    /\ UNCHANGED <<stopping, first_record, seen_record, forced, connection, clocks, records,
                   failed, after, noise, disturbances>>

\* tick: message_timeout, snapshot_timeout.
TickRecovers ==
    /\ ~stopping /\ connected /\ ~recovering
    /\ \/ silent /\ Recover(book, TRUE, records, sessions)
       \/ ~silent /\ late /\ book.state # "Valid" /\ Recover(book, FALSE, records, sessions)
    /\ UNCHANGED <<stopping, first_record, seen_record, forced, connection, clocks, records,
                   failed, after, noise, disturbances>>

-----------------------------------------------------------------------------
(***************************************************************************)
(* Completion handlers of session c.                                       *)
(***************************************************************************)
\* Mutant of ErrorCallback: recover() does not consult stopping.
RecoversAfterStop(all) ==
    \/ /\ ~recovering
       /\ Recover(book, FALSE, records, all)
    \/ /\ recovering
       /\ sessions' = all
       /\ UNCHANGED <<recovering, connected, book, events, retry>>

\* The error callback of a session, whichever it is.
ErrorCallback(all) ==
    \/ /\ ~stopping /\ ~recovering
       /\ Recover(book, FALSE, records, all)
    \/ /\ stopping \/ recovering
       /\ sessions' = all
       /\ UNCHANGED <<recovering, connected, book, events, retry>>

HandshakeDone(c) ==
    /\ sessions[c].stage = "handshake" /\ ~sessions[c].stopping
    /\ sessions' = With(c, FirstRequest(sessions[c]))
    /\ UNCHANGED <<feedVars, noise, disturbances>>

\* The one request is written: the connected callback, then read().
Subscribed(c) ==
    /\ sessions[c].stage = "subscribe" /\ ~sessions[c].stopping /\ ~MoreRequests(sessions[c])
    /\ sessions' = With(c, Reading(sessions[c]))
    /\ connected' = TRUE
    /\ silent' = FALSE /\ late' = FALSE
    /\ UNCHANGED <<stopping, recovering, first_record, seen_record, forced, connection, book,
                   retry, log, failed, after, noise, disturbances>>

\* fail(): an operation of a live session ends with an error.
OperationFails(c) ==
    /\ sessions[c].stage # "closing" /\ ~sessions[c].stopping
    /\ Disturb
    /\ ErrorCallback(Without(c))
    /\ UNCHANGED <<stopping, first_record, seen_record, forced, connection, clocks, records,
                   failed, after, noise>>

\* An operation of an aborted session completes; a write handler calls close().
AbortedCompletes(c) ==
    /\ sessions[c].stopping /\ sessions[c].stage # "closing"
    /\ \/ sessions' = Without(c)
       \/ sessions[c].stage = "subscribe" /\ sessions' = With(c, Closing(sessions[c]))
    /\ UNCHANGED <<feedVars, noise, disturbances>>

\* async_close completes cleanly, or with an error that is reported.  It comes
\* before the retry timer unless the thread has stalled: a late one finds
\* another client and recovers that one.
CloseCompletes(c) ==
    /\ sessions[c].stage = "closing"
    /\ \/ /\ sessions' = Without(c)
          /\ UNCHANGED <<recovering, connected, book, events, retry, disturbances>>
       \/ ErrorCallback(Without(c)) /\ (IF stopping \/ recovering THEN UNCHANGED disturbances ELSE Disturb)
    /\ UNCHANGED <<stopping, first_record, seen_record, forced, connection, clocks, records,
                   failed, after, noise>>

\* A message the queue refuses: Invalid, stop, and the reader closes.
MessageRefused(c) ==
    /\ sessions[c].stage = "read" /\ ~sessions[c].stopping /\ ~stopping
    /\ StopThen([book EXCEPT !.state = "Invalid"], With(c, Closing(sessions[c])))
    /\ failed' = TRUE
    /\ UNCHANGED <<recovering, first_record, seen_record, forced, connection, clocks, log, after,
                   noise, disturbances>>

\* A recorded message, the processor's verdict, and recover() when it is false.
Message(c, kind) ==
    LET index == Len(records)
        found == AtRecord(book, first_record /\ seen_record)
        processed == Processed(found, kind, index)
        heals == kind = "snapshot" /\ book.state # "Valid"
    IN /\ sessions[c].stage = "read" /\ ~sessions[c].stopping /\ ~stopping
       /\ records' = Append(records, [connection |-> connection, kind |-> kind])
       /\ after' = Append(after, processed)
       /\ first_record' = FALSE /\ seen_record' = TRUE
       /\ silent' = FALSE
       /\ \/ /\ Accepts(found, kind)
             /\ heals \/ noise < MaxNoise
             /\ noise' = IF heals THEN noise ELSE noise + 1
             /\ book' = processed
             /\ UNCHANGED <<recovering, connected, events, retry, sessions, disturbances>>
          \/ /\ ~Accepts(found, kind) /\ ~recovering
             /\ Disturb
             /\ Recover(processed, FALSE, records', With(c, Closing(sessions[c])))
             /\ UNCHANGED noise
       /\ UNCHANGED <<stopping, forced, connection, late, failed>>

-----------------------------------------------------------------------------
SessionStep(c) ==
    \/ HandshakeDone(c) \/ Subscribed(c) \/ OperationFails(c) \/ AbortedCompletes(c)
    \/ CloseCompletes(c) \/ MessageRefused(c)
    \/ \E kind \in Kinds : Message(c, kind)

\* io.run() has returned.
Finished == stopping /\ UNCHANGED vars

Next ==
    \/ FirstConnect \/ RetryFires \/ TimePasses
    \/ TickStops \/ TickFails \/ DrainFails \/ TickForces \/ TickRecovers
    \/ \E c \in DOMAIN sessions : SessionStep(c)
    \/ Finished

Spec == Init /\ [][Next]_vars

(***************************************************************************)
(* Fairness.  The io_context runs the 50 ms tick and every expired timer;  *)
(* the network completes what it does not fail; the exchange answers a     *)
(* subscription with a snapshot.                                           *)
(***************************************************************************)
LiveCompletion == \E c \in DOMAIN sessions : HandshakeDone(c) \/ Subscribed(c)

SnapshotArrives == \E c \in DOMAIN sessions : book.state # "Valid" /\ Message(c, "snapshot")

TimerFairness == WF_vars(FirstConnect) /\ WF_vars(RetryFires) /\ WF_vars(TickRecovers)

NetworkFairness == WF_vars(LiveCompletion) /\ WF_vars(SnapshotArrives)

TimerSpec == Spec /\ TimerFairness

-----------------------------------------------------------------------------
(***************************************************************************)
(* sessions::replay, the Kraken branch.  Its state is the book, the        *)
(* connection of the last record, the events consumed, and whether it has  *)
(* thrown "connection order regression".                                   *)
(***************************************************************************)
NoConnection == 0

ReplayInit == [book |-> EmptyBook, connection |-> NoConnection, consumed |-> 0, thrown |-> FALSE]

\* The book after an event: STALE and INVALID are themselves, the rest disconnects.
Event(state) == IF state \in {"Stale", "Invalid"} THEN state ELSE "Disconnected"

\* apply_lifecycle(): the events of this index, in their order.
ApplyLifecycle(r, evts, index) ==
    LET ends == {n \in r.consumed .. Len(evts) :
                    \A i \in r.consumed + 1 .. n : evts[i].index = index}
        last == CHOOSE n \in ends : \A k \in ends : k <= n
    IN [r EXCEPT !.book = IF last = r.consumed THEN r.book
                          ELSE [r.book EXCEPT !.state = Event(evts[last].state)],
                 !.consumed = last]

\* Mutant of ReplayRecord: a book that is Valid is not reset.
ResetsInvalidOnly(r, record, index) ==
    IF record.connection < r.connection THEN [r EXCEPT !.thrown = TRUE]
    ELSE LET reset == r.connection \notin {NoConnection, record.connection} /\ r.book.state # "Valid"
         IN [r EXCEPT !.book = Processed(AtRecord(r.book, reset), record.kind, index),
                      !.connection = record.connection]

ReplayRecord(r, record, index) ==
    IF record.connection < r.connection THEN [r EXCEPT !.thrown = TRUE]
    ELSE LET reset == r.connection \notin {NoConnection, record.connection}
         IN [r EXCEPT !.book = Processed(AtRecord(r.book, reset), record.kind, index),
                      !.connection = record.connection]

\* The replay's state after each of the first count records.
Replayed(evts, count) ==
    LET step[i \in 0 .. count] ==
            IF i = 0 THEN ReplayInit
            ELSE IF step[i - 1].thrown THEN step[i - 1]
            ELSE ReplayRecord(ApplyLifecycle(step[i - 1], evts, i - 1), records[i], i - 1)
    IN step

\* The manifest's lifecycle events pass the checks that precede the replay.
ValidEvents(status, evts, count) ==
    /\ \A i \in 1 .. Len(evts) - 1 : evts[i].index <= evts[i + 1].index
    /\ status = "complete" => \A i \in 1 .. Len(evts) : evts[i].index <= count
    /\ \A i \in 1 .. Len(evts) :
           evts[i].state \in {"Disconnected", "Resyncing", "Initializing", "Stale", "Invalid"}

\* The replay of the first count records; throws if the events are not valid or a
\* complete source's are not all consumed, ends Invalid when the capture failed.
Replay(status, evts, count) ==
    LET done == ApplyLifecycle(Replayed(evts, count)[count], evts, count)
    IN IF ~ValidEvents(status, evts, count) THEN [ReplayInit EXCEPT !.thrown = TRUE]
       ELSE IF done.thrown THEN done
       ELSE IF status = "complete" /\ done.consumed # Len(evts) THEN [done EXCEPT !.thrown = TRUE]
       ELSE IF status = "failed" THEN [done EXCEPT !.book.state = "Invalid"]
       ELSE done

-----------------------------------------------------------------------------
(***************************************************************************)
(* Safety.                                                                 *)
(***************************************************************************)
\* A Valid book is the snapshot of the current connection and every update
\* received after it, and nothing of an earlier connection, although the level
\* maps survive a reconnection and no callback compares connection numbers.
ValidIsCurrent ==
    book.state = "Valid" =>
        LET first == Head(book.levels)
        IN /\ book.levels # <<>> /\ records[first + 1].kind = "snapshot"
           /\ \A i \in first + 1 .. Len(records) : records[i].connection = connection
           /\ \A i \in first + 2 .. Len(records) : records[i].kind \in {"update", "harmless"}
           /\ ToSet(Tail(book.levels)) =
                  {i \in first + 1 .. Len(records) - 1 : records[i + 1].kind = "update"}

\* A running feed always has exactly one way forward: while it is recovering the
\* retry timer is pending and no session is open; otherwise no retry is, the
\* current session alone is open, and the feed calls itself connected exactly
\* while it reads.  After stop nothing is open.
NeverStranded ==
    LET open == {c \in DOMAIN sessions : ~sessions[c].stopping}
    IN connection > 0 =>
           CASE stopping -> open = {}
             [] recovering /\ ~stopping -> retry /\ open = {}
             [] OTHER -> /\ ~retry /\ open = {connection}
                         /\ connected <=> sessions[connection].stage = "read"

\* The log determines the book: at every moment of a run that has not failed,
\* replaying the records and events so far gives the live book, state and levels,
\* and consumes every event; so the complete capture replays to it as well.
LogDeterminesBook ==
    LET r == Replay("complete", events, Len(records))
    IN ~failed => ~r.thrown /\ r.book = book

\* A capture that was cut off has no lifecycle events.  Its replay still makes
\* the book Valid after the same records and from the same ones.
PrefixReplayMatches ==
    LET n == Len(records)
        r == Replay("in_progress", <<>>, n)
    IN n > 0 => /\ ~r.thrown /\ r.book.levels = after[n].levels
                /\ r.book.state = "Valid" <=> after[n].state = "Valid"

\* A failed capture, whatever end of its records was lost, replays to an Invalid
\* book over the ones that were kept.
FailedReplayIsPrefix ==
    failed => \A n \in 0 .. Len(records) :
                  LET r == Replay("failed", events, n)
                  IN ~r.thrown /\ r.book.state = "Invalid" /\ (n > 0 => r.book.levels = after[n].levels)

\* Replay agrees with the live run in all three cases.
ReplayAgrees == LogDeterminesBook /\ PrefixReplayMatches /\ FailedReplayIsPrefix

\* Once stopping the feed records nothing more, opens nothing and observes no
\* event, whatever timers and handlers were already queued, and the final book
\* is the one it had when it stopped.
StoppedIsFinal == [][stopping => stopping' /\ UNCHANGED <<connection, log, book>>]_vars

-----------------------------------------------------------------------------
(***************************************************************************)
(* Liveness.                                                               *)
(***************************************************************************)

\* With fair timers alone, whatever the network and the exchange do: a connection
\* that falls silent, or brings no snapshot in time however many other messages
\* it delivers, is given up unless a message or the snapshot comes after all.
TimeoutIsNoticed ==
    (connected /\ (silent \/ (late /\ book.state # "Valid")))
        ~> (~connected \/ (~silent /\ (~late \/ book.state = "Valid")))

\* A feed that is disturbed finitely often becomes Valid, or is stopped, when the
\* network completes what it does not fail and the exchange answers.
SelfHeals == NetworkFairness => (~stopping ~> (stopping \/ book.state = "Valid"))
=============================================================================

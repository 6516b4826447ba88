# A TLA+ model of the cross-exchange market-data engine

The engine connects to the Coinbase (and Kraken) market-data feeds, keeps an
order book per venue in step with the exchange, records every raw message to
disk, publishes its status, and can replay a recording. This directory models
its core in TLA+, checks it with TLC and proves part of it with TLAPS.

## 1. The system

| Component | State it keeps | Operations | Talks to |
|---|---|---|---|
| `core/order_book` | bid and ask maps, book state, last sequence | `apply` of a snapshot, an update or a span; marks | owned by the feed |
| `core/sequence_tracker` | last sequence number | `observe`, `reset` | processor, manager |
| `core/fixed_point` | none | decimal text to scaled integer | parsers |
| `transport/websocket_client` | one asynchronous operation, flags | connect, subscribe, read, fail, abort, close | callbacks into the manager |
| `coinbase_message_handler` / `processor` | next record index, progress | `handle`, `process` | queue, tracker, book, health |
| `coinbase_feed_health`, `reconnect_policy` | time stamps; next delay | `failure`, `reset`; `next_delay`, `reset` | manager |
| `coinbase_connection_manager` | flags, generation, connection id, timers | `start`, `stop`, `recover`, `check_health`, callbacks | transport, handler |
| `recording/raw_recording_queue` | deque, byte count, closed | `try_push`, `wait_pop`, `close` | market and writer threads |
| `pipeline/runtime_status` (`write_raw`) | recorder, shared status | open, append, count, fail | queue, shared status |
| `pipeline/live_runtime` | the three threads, tick timer | run, stop, publish, join | everything above |
| `session` capture | manifests, temporary file, lifecycle events | create, observe, `finalize`, `publish` | live runtimes, directory |
| `session` replay | book, tracker, lifecycle cursor | choose and check a manifest, replay, publish a result | reader, processors, directory |
| `coinbase_message_pipeline`, `main --replay` | book, tracker, stopped | `process`, `reset_connection`, `fail` | reader |
| Kraken processor and checksum | staged book, levels | process, apply | Kraken runtime, replay |
| `pipeline/kraken_runtime` | flags, connection number, timers, three threads | connect, recover, tick, stop, callbacks | transport, queue, writer, capture |

What is hard about it:

* The market-data thread is single, but completions, timers and posted calls
  reach it in any order and long after what they belong to was abandoned. The
  manager defends itself with generation numbers.
* A stream of envelopes may lose, repeat or reorder; a book is only worth
  something while it is an unbroken continuation of a snapshot.
* Three threads share one status under one mutex, but decide on copies of it.
  A writer can fail at any moment, also while the queue drains after a stop.
* The Kraken runtime has the same shape without generation numbers and without the
  writer's callback: it rests on flags and on looking at the status once per tick.
* A capture claims at the end whether it is complete, from counters of three threads.
* A replay has to arrive at the live book from records and lifecycle events alone,
  possibly of a capture that was cut off, failed, or is still being written.
* Files are published while other processes read them and any process may die.

What makes each part correct is stated by the properties of section 3; the
lines where each hazard bites are the `hazards` of `PROJECT.json`.

## 2. Modules

| Module | Models |
|---|---|
| `OrderBook` | `core::OrderBook`: the three `apply` overloads as operators from a book to (accepted, book), with a reference semantics that applies one change at a time |
| `OrderBookProofs` | that a span is applied like its events one at a time, and what the book keeps true |
| `WebSocketClient` | the stages of one transport session, as operators on a record |
| `CoinbaseProcessor` | message classes, sequence tracker and `CoinbaseMessageProcessor::process`, as operators on a book and a tracker |
| `CoinbaseFeed` | the market-data thread: connection manager, handler, health, backoff and all sessions that still have a handler to run |
| `CoinbaseFeedProofs` | the inductive invariant of `CoinbaseFeed`, its proof, and the proof that `CoinbaseFeed` implements `CoinbaseManager` |
| `CoinbaseManager` | what the manager promises: `CoinbaseFeed` without sessions, generations, timers and ages |
| `CoinbaseSession` | `CoinbaseManager` with the records and lifecycle events of a capture, its replay by `sessions::replay`, and the older pipeline of `main --replay` |
| `CoinbaseSessionProofs` | the inductive invariant of `CoinbaseSession`, and that both replays give the live book |
| `SessionDirectory` | the files of a session: capture and replay processes, `publish()` system call by system call, crashes |
| `SessionDirectoryProofs` | the inductive invariant of `SessionDirectory` and its proof |
| `RawRecordingQueue` | the bounded queue between market and writer threads |
| `RawWriter` | `write_raw`, the shared status and `Capture::finalize`, used by both runtimes |
| `RawWriterProofs` | what the queue and the writer thread keep true, for the proofs of both runtimes |
| `LiveRuntime` | `run_live`: main, market and writer threads |
| `RecordingLog` | what a recorded run promises, without threads |
| `LiveRuntimeProofs` | the inductive invariant of `LiveRuntime`, its proof, and the proof that it implements `RecordingLog` |
| `KrakenBook` | `KrakenBookProcessor` and `KrakenChecksumBook`, beside an exchange that sends snapshots and changes |
| `KrakenFeed` | the market-data thread of `run_kraken`: sessions, recovery, limits, log, and the replay of that log |
| `KrakenFeedProofs` | the inductive invariant of `KrakenFeed`, and that its replay gives the live book |
| `KrakenRuntime` | the three threads of `run_kraken` |
| `KrakenRuntimeProofs` | the same as `LiveRuntimeProofs`, for `KrakenRuntime` |
| `FixedWidth` | signed integers of a given width, with wrap-around |
| `Decimal` | `parse_decimal` and Kraken's `decimal_token`, against the value a text denotes |
| `Timestamp` | the overflow arithmetic of the time stamp parsers |
| `Conversions` | one call of either conversion |
| `MC*` | the instances TLC checks |

How they fit together. `CoinbaseFeed` implements `CoinbaseManager`, and
`CoinbaseSession` extends `CoinbaseManager`: what is shown of a session rests on a
manager the detailed one implements. `LiveRuntime` and `KrakenRuntime` implement
`RecordingLog`; it is the reason why `CoinbaseSession` and `KrakenFeed` may treat the
recorded file as the sequence of accepted envelopes or, after a failure, a prefix of
it, and why `SessionDirectory` may treat it as a number of lines.

**OrderBook.** The two maps are one partial function from (side, price) to
quantity. `Apply`, `ApplyOne` and `Mark` are the public operations. Prices and
quantities are the integers fixed-point conversion produces.

**CoinbaseFeed.** A handler that runs on the io_context thread is one action.
`sessions` maps a generation to the session opened under it, as long as that
session has an operation outstanding; `client` is the one the manager's
`close_` reaches. `retries` holds the generations captured by reconnect
callbacks that may still run: cancelling a timer that has expired does not take
its callback back. Time is a set of ages in ticks, saturating one past their
limit. `Recover`, `StopThen` and `BeginConnection` are the manager's internal
calls and take the sessions as they are when the call is made, so that a
handler such as `MessageFails` is one action, including the recovery and the
`close()` that follows when the callback returns false. With `LateCallbacks`
the transport may call back after `abort()`: `WebSocketClient` does not, except
from `async_close`, but the manager accepts any transport.
Where a message cannot be processed, its class decides: `Messages` is what the
parsers distinguish, `Outcome` is `CoinbaseMessageProcessor::process`.
The variable `admitted` is history: the sequence numbers seen since the
snapshot the book was built on.

**CoinbaseManager, CoinbaseSession.** The abstract manager keeps the flags a caller
sees, the connection number, book and tracker. The session adds to each of its steps
what the sink and `observe_lifecycle` add: a record, and the lifecycle events of that
handler with the index of the next record. `after` is history, the live book after
each record. `Replay` is `sessions::replay` as a function of status, events and the
number of records: events due before each record, change of connection, processing,
the events after the last record, the verdict. Its `process` call stands outside a try
block, so a heartbeat that throws ends it. `PipelineReplay` is the loop of
`main --replay` over the older pipeline, which has its own copy of the processing.

**SessionDirectory.** A process is at one step; between any two steps others move and
it may crash. `publish()` is four steps: temporary file, write and sync, a rename that
never replaces, unlink. The raw file is its number of whole lines and whether a part of
a line follows; a hash is the content. `written` is the run's own count of its records:
a failing append may leave a part of a line, or a whole one that is not counted, and
`finalize` and the replay both compare the count with what they scan. A replay goes through choosing the manifest,
loading, hashing, scanning, rereading, hashing again and comparing the manifest again,
one step each, since a capture may be appending and finalizing meanwhile.

**RawWriter, LiveRuntime.** One action is what a thread does under one lock acquisition.
`market` and `writer` are program counters whose values name the next step of
the code. The connection manager appears as its promise: while started it hands
over messages and moves the book; after `stop()` it does nothing. `damage` says
what a failed append left in the file. `StopCall` is the `stop` lambda,
`TickCopies`, `TickDecides` and `TickChecks` are the tick, split where the code
drops the mutex. Record indexes are contiguous from 0, so a last index is a count.
An exception may leave the try block from any step in it (`MarketThrows`), inside a tick, a
handler or `publish()` as well. If the market thread cannot be created
(`MarketNotCreated`), the queue is closed, the writer joined and the exception passed on
(`Unwinds`); no manifest is finalized then. A writer thread that cannot be created fails
before there is anything to observe and is left out.

**KrakenBook.** `Process` and `ApplyBook` are `process` and `apply`, with the return
value; the book is the one of `OrderBook`, reached by `INSTANCE`. `Top(levels, n)` is
the first `n` entries of each map: `Truncate` is it at the subscribed depth,
`Checksum` at the depth the CRC covers. The CRC is the levels it is taken of; this
rests on Kraken's fixed number of decimals per pair, since the digits of price and
quantity are joined without a separator, and on the absence of CRC collisions. The
callers are free: they may feed any message after any other and mark the book at any
time, which covers both the runtime (it drops the connection when `process` returns
false) and the replay (it goes on). The exchange is external. It reports changes among
its best `Depth` levels and nothing of a level that is pushed out; some or all of a
message's changes may be missing.

**KrakenFeed.** The lambdas of `run_kraken` on its io_context. No callback compares
connection numbers: `recovering`, `connected` and the session's own `stopping` flag are
all there is, and the only completion an aborted session still reports is an error of
its closing handshake. Here the book is its state and the indexes of the records it is
made of, which is what `ValidIsCurrent` and the replay properties are about; its levels are
`KrakenBook`'s matter. The replay first checks the manifest's lifecycle events
(`ValidEvents`), as it does for Coinbase. The 15 s without a snapshot and 5 s of silence are the flags
`late` and `silent`.

**KrakenRuntime.** The same threads as `LiveRuntime`, with these differences of the
code: the writer posts nothing to the market thread, the tick looks at the status twice,
the sink's refusal stores the error on the market thread, and the handler of an
exception overwrites a fatal error stored earlier (`run_live` keeps the first).

**Decimal, Timestamp, Conversions.** The loops of the code, a character at a time, on
integers of `Width` bits, compared with the value of the number as it was written. Every
input is an initial state. For time stamps the calendar is left out: the modelled part takes
seconds and fraction to nanoseconds with the overflow tests of the code.

Left out everywhere: metrics, profiling, wording of errors, display.

## 3. What is checked

| Run | States | Shows |
|---|---|---|
| `OrderBook` | 197 | `SpanIsSequential`: a span is applied like its events one at a time, all or nothing. `SnapshotForgets`: nothing survives a snapshot. `TypeOK`: no tombstone or non-positive level ever rests. |
| `CoinbaseFeed` | about 447 000 | `TypeOK`, `ValidIsSynchronised`, `OneLiveSession`, `NeverStranded`; step properties `AbandonedAreInert` (`LateCompletionsAreInert`: whatever an aborted session still completes, a message included, reaches neither manager nor retries nor another session; `StaleRetriesAreInert`: nor does a retry that expired before it was cancelled or superseded change anything) and `BackoffShrinksOnlyOnResync`; `RefinesManager`: the feed implements `CoinbaseManager` |
| `CoinbaseFeedLive` | about 129 000 | `SilenceIsNoticed`: a connection that falls silent, loses its heartbeats or delivers everything but the book is given up. `SelfHeals` |
| `CoinbaseSession` | about 194 000 | `LogDeterminesBook`: at every moment the log replays to the live book. `PrefixReplayMatches`: so do the records of a capture that was cut off. `LegacyReplayMatches`: so does the older pipeline. `FinalizedReplays`: replay never refuses a complete capture for its metadata (`CompleteIsConsistent`), and a failed one ends Invalid over the records that were kept (`FailedReplayIsPrefix`) |
| `SessionDirectory` | about 65 000 | `ManifestSurvives`, `FinalManifestIsTrue`, `ResultMatchesItsSource`, `ResearchValidIsFinal`, `PublishedIsFinal` |
| `LiveRuntime` | about 473 000 | `QueueIsExact` (`RecordedInOrder`, `BytesAreExact`), `FatalMatchesState`, `ExitIsConsistent`, `StopTerminates`, and `RefinesLog`: the runtime implements `RecordingLog` |
| `KrakenBook` | about 45 000 | `ValidIsSound`: a Valid book is uncrossed and, without losses, the exchange's. `CheckedTopAgrees`: with losses, the levels under the checksum still are. `OnlySnapshotRevives` |
| `KrakenFeed` | about 576 000 | `ValidIsCurrent`, `NeverStranded`, `StoppedIsFinal`; `ReplayAgrees` (`LogDeterminesBook`, `PrefixReplayMatches`, `FailedReplayIsPrefix`); `TimeoutIsNoticed`, `SelfHeals` |
| `KrakenRuntime` | about 233 000 | `ReportIsTrue` (`FatalMatchesState`, `FullIsReportedTruly`, `CleanRunIsComplete`), `RefinesLog`, `StopTerminates` |
| `Conversions` | about 47 000 | `ParsesExactly`: from the number as it was written, exponent included, to the integer: exact, or refused because it must be. `ConvertsExactly`: the same for time stamps |

All hold. Each property has a mutant in `PROJECT.json`: a definition altered the
way a slip in the code would alter it, under which TLC finds the property
violated. The altered definitions stand before the originals, marked "Mutant of".

Two more runs state what a document or a test says of the program and end in a
violation:

| Run | Property | What the code does instead |
|---|---|---|
| `CoinbaseSessionHeartbeat` | `CompleteCaptureReplays` (session_replay_test.cpp) | A malformed heartbeat is caught live, the feed recovers and the capture is complete; its replay ends with the exception. |
| `KrakenRuntimeWriterError` | `WriterErrorInvalidates` (docs/architecture.md) | A writer that fails between the two looks of a tick, or while the queue drains, leaves the published book Valid. |

Two smaller disagreements were met and have no run of their own. A stop request before
`manager.start()` is observed by nobody, so the complete, empty capture replays to
Initializing while the live book was Disconnected; docs/session-replay.md says the
terminal state is reproduced (`LogDeterminesBook` therefore speaks of started runs). And
Kraken numbers attempts, so failed ones use connection numbers up;
docs/raw-data-format.md says the number increments once subscriptions are sent.

**Bounds.** `OrderBook`: two bid prices, one ask price, two quantities, zero, a
price nobody accepts, at most two levels per event and two events per span. That is
enough for a repeated price within and across events, delete then insert, insert
then delete, a refusal after a staged change, and a foreign instrument; the check
quantifies over all 13 573 spans from every reachable book.
`CoinbaseFeed`: `MaxDisturbances` counts failures, refused messages, stops and
forced disconnects; two of them give a failure during a recovery, a stop during
one, and a restart with an older session and an older retry still queued. One tick
outlasts every limit, so it expires what is not stamped again after it (limits between
two ticks are `CoinbaseFeedLive`'s); delays 1, 2, 3 show doubling
and the cap; sequence numbers 0 to 2 show first, successor, gap, duplicate and
old. A terminal recording failure is not counted since it ends the feed.
`CoinbaseFeedLive`: an instrument limit of 1 below the others, at 2, so that it alone can
expire on a connection that is otherwise alive. By default the code leaves it unset
(`NoLimit`), and then nothing notices a connection that brings no book.
`CoinbaseSession`: three records, seven different messages and eight lifecycle events
give a snapshot, an update and a fault on one connection, two connections with failed
attempts between them, and a log cut off at every point.
`SessionDirectory`: one capture of at most two records and two replays, one with and
one without permission for incomplete sources, that share the output.
`KrakenBook`: three prices per side with a depth of two, so that levels fall off and
come back, one level under the checksum, so that a loss can hide below it, a best bid
whose quantity changes, best prices that can meet, and two changes per message.
`KrakenFeed`: one subscription request, as the code sends; two disturbances give two
recoveries, hence three connections with late errors of two closed sessions; two
messages that are neither faults nor snapshots. A late close error counts as a
disturbance.
`LiveRuntime`, `KrakenRuntime`: room for two messages and three bytes with sizes 1 and 2,
so that the queue fills by count and by size; four messages let it fill, drain and
fill again.
`Conversions`: 10 bits; texts of up to four characters (points, foreign characters, and
digits that reach both sides of 511), tokens of two digits per side, exponents -3 to 3 about
a maximum of 2, scales -1 to 3 about a maximum of 2; time stamps with two fraction digits,
seconds -8 to 8, beyond both ends of the range. The width only moves the place where
arithmetic overflows.

**Fairness.** `CoinbaseFeedLive` and `KrakenFeed` use `TimerSpec`: the io_context runs
expired timers (health check or tick, retry), and nothing is assumed of network or
exchange. `SelfHeals` alone adds `NetworkFairness` as its hypothesis: the network completes
handshakes and writes it does not fail, and the exchange answers a subscription with a
snapshot. Disturbances are bounded, so it reads "disturbed finitely often".
`LiveRuntime`, `KrakenRuntime`: the three threads are scheduled and
the io_context runs its timer and posted calls; nothing is assumed of signals,
messages or failures. For Kraken's tick the fairness is strong: it shares the thread
with messages that keep arriving, and an expired timer is not passed over for ever.
`writer` steps that can go two ways (open, append, close) may always take the failing one.

Deadlock is checked in every run. Processes that end do so in an explicit step
(`Exited`, `Finished`, `Ended`).

## 4. What is proved

`CoinbaseFeedProofs` proves for every value of the constants (all limits, delays,
numbers of subscription requests, every bound, late callbacks or not) that
`Spec` implies `[]TypeOK`, `[]OneLiveSession`, `[]NeverStranded`,
`[]TerminalIsSealed`, `[]ValidIsSynchronised` and `[]ValidEndsRecovery`, and the step
properties `TerminalIsFinal`, `BackoffShrinksOnlyOnResync`, `BookNeverRewinds`
and `AbandonedAreInert`, in its two parts. It also proves `RefinesManager`. These include every
property of the run `CoinbaseFeed`; `TerminalIsSealed`, `ValidEndsRecovery`,
`TerminalIsFinal` and `BookNeverRewinds` are proved and not checked by a run.

The assumptions are `FeedAssumption` (limits and delays are natural numbers, the
first delay does not exceed the cap) and `RequestsAssumption` (at least one
subscription request, which the constructor enforces).

The invariant `Inv` is the conjunction of these properties and `Bookkeeping`,
without which they are not inductive:

* while stopped or recovering, no session carries the current generation (the
  generation was moved on to a number nothing carries yet), so no callback of an
  old session can pass its guard;
* the retry of the current generation exists only while a recovery is pending, so
  a queued callback cannot start a second connection beside an open one;
* a session in its closing handshake has been abandoned.

The argument: `recover()` and `stop()` end in a generation above every session and
retry, close the one session that may be open (`AbortClientCloses`,
`ClosableSessions`), and in the case of `recover()` schedule the one retry that will
pass (`RecoverInv`, `StopInv`). `begin_connection()` is only reached when no session
is open (`BeginInv`). A callback that passes its guard belongs to the open session
(`CurrentIsLive`). For the data part, an envelope that is neither skipped nor
refused is the successor of the last one or comes first (`AdmittedMessage`), so the
admitted numbers stay an interval ending in the tracker's number
(`AcceptedMessageInv`). The step properties follow from the invariant by one look at
each action: `BookAndBackoffSteps` says that only an accepted message can leave a book
Valid that was changed, `AbandonedStepIsInert` that a step of an abandoned session cannot
pass the generation guard. `StaleRetriesAreInert` says when a retry is stale without
mentioning generations (the manager is stopped or no recovery is pending, or a later retry
has been scheduled); that the comparison of generations stops exactly those is
`Bookkeeping`'s second clause.

`SessionDirectoryProofs` proves every property of the run `SessionDirectory`:
`[]ManifestSurvives`, `[]FinalManifestIsTrue`, `[]ResultMatchesItsSource`,
`[]ResearchValidIsFinal` and `PublishedIsFinal`, for any number of records and of
replays, with and without `--allow-incomplete`. `DirectoryAssumption` says that the
processes are different ones and the bound on records is a natural number.

Its invariant says what each process knows at its step: `CaptureInv` which manifests
exist and whether the last line is whole wherever the capture is, `ReplayInv` what a
replay may rely on after each of its reads. Both are needed, because what a replay
read is old by the time it is used. The argument: until there is a final manifest the
raw file only grows, and from then on neither changes (`Progress`), so what a replay
knows survives every step of the others (`ReplayFrame`). The first hash is of a state
of the file no later than the one scanned, the second of one no earlier; if they are
equal, the three are the same state (`ReachedAntisymmetric`, `ReplayRereads`). A
manifest that says `complete` can only be the final one (`ReplayLoads`), so what was
hashed against it is the raw file for good. `publish()` renames only over nothing, so
the capture's two documents and a result are the only changes besides the removal of
the in-progress manifest (`FilesStay`).

That `CoinbaseFeed` implements `CoinbaseManager` (`FeedRefinesManager`) takes the same
invariant: the manager has no generations, so each handler that passes its guard has to
be shown to belong to the one open session, and one that does not pass it to change
nothing the manager keeps. What `CoinbaseSession` assumes of its manager is thereby a
theorem about the detailed one.

**The runtimes.** `LiveRuntimeProofs` proves every safety property of the run
`LiveRuntime`: `[]QueueIsExact`, `[]FatalMatchesState`, `[]ExitIsConsistent` and the
refinement of `RecordingLog`; `KrakenRuntimeProofs` proves `[]ReportIsTrue` and the same
refinement for `run_kraken`. Both hold for all queue limits, all sets of payload sizes
and any number of messages; the assumptions are that these are natural numbers
(`QueueAssumption`, `RuntimeAssumption`).

Both rest on `WriterLog` of `RawWriterProofs`: file, envelope in hand and queue together
are the accepted envelopes in order, with consecutive indexes, as long as the writer has
not failed; the byte count is the sum of the payloads queued. The sum is a recursive
function, so `RawWriterProofs` shows first that it exists and what appending and removing
do to it (`TotalsExist` and the lemmas after it).

`FatalMatchesState` and `ExitIsConsistent` are not inductive for `LiveRuntime`. What has
to be added says how an error travels:

* `ErrorsArrive`: once the market thread has read the initial status, a stored error has
  reached the manager or a posted stop is on its way; after that thread has left its try
  block nobody posts to it;
* `Ticking`: a tick is armed while the thread sits in `io.run()`, unless it is stopping
  and the writer is gone, so the last posted stop is not left behind;
* `Stopping`: manager, book and stored error agree with each other, and a refused push
  is either still being handled or has stopped the manager;
* `BeforeStart`, `Reported`, `Joined`: nothing is pushed before the manager starts, the
  status holds what the last `publish()` or the catch block left, and the main thread
  finalizes alone.

For `KrakenRuntime` the strengthening is `Indexed` (the next record index is the count
of accepted envelopes) and `ClosedLast` (a queue found closed means an error was stored
before, so a refusal that is not for lack of room is never reported as an overflow). The
refinement then says of either run that what is accepted becomes durable in order and
that the manifest says complete only when all of it is.

**Kraken's feed.** `KrakenFeedProofs` proves every safety property of the run
`KrakenFeed`: `[]NeverStranded`, `StoppedIsFinal`, `[]ValidIsCurrent` and
`[]ReplayAgrees`, for any number of connections, messages and failures and logs of any
length.

`NeverStranded` and `StoppedIsFinal` follow from `Sessions`: only the current session is
open, only while the feed neither stops nor recovers, and it reads exactly while the
feed calls itself connected. No callback of `run_kraken` compares connection numbers; it
is `abort()` that keeps a session left over from calling back, which is what the lemma
`AbortLeavesNoneOpen` and the steps of a closing session are about.

`ValidIsCurrent` and `ReplayAgrees` need the rest of `Inv`:

* `Numbered`: records are numbered by connection, in order, and the two flags
  `first_record` and `seen_record` tell the first record of a later connection;
* `Followed`: a book is not Valid from `recover()` until a connection has brought its
  first record, and otherwise it is what the last record made of it;
* `Logged`: there is a cut of the lifecycle events, so many before each record, with
  which the records and events give the books the feed had after each record, and the
  present one;
* `Approximated`: without the events the same recursion gives books with the same levels
  and the same validity, because what an event changes is the state of a book that the
  next connection's first record resets;
* `Current`: `ValidIsCurrent`, and the records it names exist.

A step of the feed extends the cut or the sequence of books by one (the lemmas on quiet,
recovering and recording steps), so the replay never has to be unfolded in the inductive
step. Only at the end is it shown that `Replayed`, a recursive function, is the one the
cut describes: its steps are determined one after the other, by induction on the number
of records, with `apply_lifecycle` consuming exactly the events up to the cut. Two CASE
expressions of the model with overlapping arms were found on the way; TLA+ leaves open
which arm counts, and they now have disjoint ones.

**A Coinbase capture.** `CoinbaseSessionProofs` proves every property of the run
`CoinbaseSession`: `[]LogDeterminesBook`, `[]PrefixReplayMatches`,
`[]LegacyReplayMatches` and `[]FinalizedReplays`, for logs of any length and any set of
messages the exchange may send; `SessionAssumption` says that the bounds are natural
numbers and the messages are messages. None of the four is inductive, since none says
what is true of the earlier records. `Inv` does:

* `Chained`: record by record the book follows from the one before, which is the
  previous record's if they share a connection and otherwise what a new connection
  finds; and no record follows an error on its connection. This is why records alone
  are enough;
* `Logged`: there is a cut of the lifecycle events, so many before each record, such that
  none falls between two records of one connection and the last one before the first
  record of another has opened it (`Separated`), and the present book is that of the
  last record or of the last event after it (`Present`). This is why events do no harm;
* `Indexed`, `Flags`, `Finalized`: events carry the index of the next record, in order,
  and only a refused envelope, after which the run is stopped for good and cannot be
  complete, has an index without a record.

Every action is one of five kinds of step (`SessionStep`), and each kind extends the
records or the cut by what it appends. The replays are taken up afterwards, in one state:
`apply_lifecycle` consumes the events up to the cut (`DueIs`, `LifecycleApplied`), a turn
of the loop takes the replay from one record to the next (`TurnReplays`), and induction
on the number of records does the rest (`RecordsReplayed`). The same lemmas serve the
replay with the events and the one without any (`LogPlaced`, `NothingPlaced`). For the
older pipeline the turn is compared with the processor case by case (`PipelinePasses`);
after a throwing heartbeat it is ahead of the live book until the connection ends, and
`Chained` says that it then has ended.

**The order book.** `OrderBookProofs` proves every property of the run `OrderBook`:
`[]TypeOK`, `[]SpanIsSequential` and `[]SnapshotForgets`, for spans of any length of
events that carry any number of levels. `OrderBookAssumption` is all it assumes: the
events have the shape of the C++ types, with prices and quantities any integers. The
inductive invariant is `BookIsSound`: the book is a record whose levels have a positive
price and quantity. The work is in the operators, not in the steps:

* `Committed(levels, changes)` is what one staging area makes of all changes at once.
  The last entry of a price in `s \o t` is that of `t` if it has one and else that of
  `s` (`LastEntryConcat`), so one staging area for two lots of changes and one for each
  leave the same levels (`CommittedConcat`), tombstones included. Induction over the
  changes then gives one change after the other (`ChangedIsCommitted`);
* with it each overload of `apply` is the reference's event (`SnapshotApplied`,
  `UpdateApplied`). A staged copy and the reference stay in step event by event until
  the first refusal, after which both yield the book before the span (`InStep`);
* a span of updates only is checked before anything is committed, the reference
  checks as it goes. They agree because an accepted update leaves a Valid book
  Valid, so the verdict on an event does not depend on the events before it
  (`Batched`);
* two books given the same span that begins with a snapshot are alike from the first
  event on (`SnapshotAlike`, `AlikeNext`).

**Induction.** The library's induction theorems take a predicate, which the provers
cannot instantiate. `SetInduction` states the same with a set: a set that holds 0
and with every number its successor holds them all. A property of all `n` is then proved
by applying it to the set of the numbers that have it. This covers recursive functions
over the naturals, as above. The lemma is proved, from the library's theorems about well
founded relations, in each of the modules that need it.

**Only model-checked.**

* Every liveness property: fairness and ENABLED are beyond this prover.
* `KrakenBook`: its operations cut a set of levels, put in order, to a depth, and its
  properties compare two such cuts.
* `Decimal` and `Timestamp`: powers of ten and of two with a variable exponent, and the
  value of a text as a fold; the provers' arithmetic is linear and knows neither.

## 5. Plan

Done in this order: order book, transport and feed, recording runtime, proof of the
feed's invariant, Kraken's book, abstract manager, session log and replay, session
directory, Kraken's feed and runtime, conversions, proof of the directory's properties,
of the refinement of the manager, of both runtimes, of Kraken's feed, of a Coinbase
capture and of the order book. What is left are proofs:

1. The uncrossed half of `ValidIsSound` and `OnlySnapshotRevives` of `KrakenBook`.

## 6. Not modelled

* The refusal of a Kraken level whose number and digits disagree about being zero
  (kraken_checksum.cpp): `process` takes both from one token, so it cannot be reached.
* JSON syntax, field types and the calendar of the parsers and the reader: a message is
  the class the parser gives it, and a record the recorder wrote has the fields it
  needs. Symbol tables.
* Configuration, precision, path and build fields of a manifest: the replay compares
  them with constants of the same build.
* Counters, transition lists and hashes of a replay result; metrics, stage timings, clocks.
* TLS and DNS beyond success and failure; argument parsing, the display, the benchmarks.
* `src/third_party` and `src/tests/vendor` are vendored.

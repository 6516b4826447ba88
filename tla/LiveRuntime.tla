---------------------------- MODULE LiveRuntime ----------------------------
(***************************************************************************)
(* run_live: the main, market-data and writer threads of a Coinbase run,   *)
(* the SharedRuntime they lock, the recording queue between them, and the  *)
(* manifest Capture::finalize publishes at the end.                        *)
(*                                                                         *)
(* One action is what a thread does while it holds a lock, together with   *)
(* the thread-local work around it.  CoinbaseConnectionManager appears as  *)
(* its promise (CoinbaseFeed): while started it hands over messages and    *)
(* may change the book at any time; after stop() it does nothing.  Record  *)
(* indexes are contiguous from 0, so an optional last index is the count   *)
(* of indexes.  The queue gauges and quotes in RuntimeStatus, the display  *)
(* and lifecycle events are left out.                                      *)
(***************************************************************************)
EXTENDS RawWriter

CONSTANT MaxMessages  \* bound: messages the exchange sends

ASSUME RuntimeAssumption == MaxMessages \in Nat

VARIABLES
    stop_requested,          \* the signal flag
    market_done,             \* SharedRuntime
    market, after, market_stopping,  \* market thread: step, step after publish
    current,                 \* tick's copy of fatal_error
    tick_armed,              \* the io_context's tick timer
    manager, book,           \* [stopping, terminal] and the book's state
    received, pushed,        \* handler: envelopes received, result of the last push
    main, manifest

ioVars == <<tick_armed, posted>>
feedVars == <<manager, book, received, pushed>>
marketVars == <<market, after, market_stopping, current, ioVars, feedVars>>
sharedVars == <<status, writer_ready, writer_done, market_done, post_registered>>
mainVars == <<main, manifest>>
vars == <<stop_requested, queue, sharedVars, writerVars, marketVars, mainVars>>

Init ==
    /\ stop_requested = FALSE
    /\ RawWriterInit /\ market_done = FALSE
    /\ market = "setup" /\ after = "io" /\ market_stopping = FALSE /\ current = NoError
    /\ tick_armed = FALSE
    /\ manager = [stopping |-> TRUE, terminal |-> FALSE] /\ book = "Disconnected"
    /\ received = 0 /\ pushed = "Accepted"
    /\ main = "wait" /\ manifest = "in_progress"

\* SIGINT or SIGTERM.
SignalStop == stop_requested' = TRUE /\ UNCHANGED <<queue, sharedVars, writerVars, marketVars, mainVars>>

-----------------------------------------------------------------------------
Writer ==
    /\ WriterThread
    /\ UNCHANGED <<stop_requested, market_done, market, after, market_stopping, current,
                   tick_armed, feedVars, mainVars>>

-----------------------------------------------------------------------------
(***************************************************************************)
(* The market-data thread.                                                 *)
(***************************************************************************)
MarketStep(from, to) == market = from /\ market' = to
MarketLocal == UNCHANGED <<stop_requested, writerVars, mainVars>>

\* Mutant of RegistersPost: a writer that failed to open is waited for.
WaitsForReadyOnly ==
    /\ MarketStep("setup", "initial")
    /\ writer_ready
    /\ post_registered' = TRUE
    /\ UNCHANGED <<queue, status, writer_ready, writer_done, market_done,
                   after, market_stopping, current, ioVars, feedVars>> /\ MarketLocal

\* Wait for the writer, then register the posting callback, under one lock.
RegistersPost ==
    /\ MarketStep("setup", "initial")
    /\ writer_ready \/ writer_done
    /\ post_registered' = TRUE
    /\ UNCHANGED <<queue, status, writer_ready, writer_done, market_done,
                   after, market_stopping, current, ioVars, feedVars>> /\ MarketLocal

\* stop(error), up to publish(); then the thread goes on at next.
StopCall(error, next) ==
    /\ manager' = [stopping |-> manager.stopping \/ error \/ ~market_stopping,
                   terminal |-> manager.terminal \/ error]
    /\ book' = IF error THEN "Invalid"
               ELSE IF ~market_stopping /\ ~manager.stopping THEN "Disconnected" ELSE book
    /\ market_stopping' = TRUE
    /\ IF market_stopping THEN UNCHANGED queue ELSE CloseQueue
    /\ market' = "publish" /\ after' = next

\* copy_status() and the choice between stop and start.
ReadsInitial ==
    /\ market = "initial"
    /\ IF status.fatal_error # NoError \/ stop_requested
       THEN StopCall(status.fatal_error # NoError, "tick")
       ELSE /\ market' = "set_running"
            /\ UNCHANGED <<queue, after, market_stopping, manager, book>>
    /\ UNCHANGED <<sharedVars, current, ioVars, received, pushed>> /\ MarketLocal

\* runtime_state = Running, then manager.start(), whose first attempt may fail.
SetsRunning ==
    /\ MarketStep("set_running", "tick")
    /\ status' = [status EXCEPT !.runtime_state = "Running"]
    /\ manager' = [manager EXCEPT !.stopping = FALSE]
    /\ book' \in {"Resyncing", "Disconnected"}
    /\ UNCHANGED <<queue, writer_ready, writer_done, market_done, post_registered,
                   after, market_stopping, current, ioVars, received, pushed>> /\ MarketLocal

\* tick: copy_status().
TickCopies ==
    /\ MarketStep("tick", "tick_decide")
    /\ current' = status.fatal_error
    /\ UNCHANGED <<queue, sharedVars, after, market_stopping, ioVars, feedVars>> /\ MarketLocal

TickDecides ==
    /\ market = "tick_decide"
    /\ IF stop_requested \/ current # NoError \/ manager.terminal
       THEN StopCall(current # NoError, "tick_check")
       ELSE market' = "tick_check" /\ UNCHANGED <<queue, after, market_stopping, manager, book>>
    /\ UNCHANGED <<sharedVars, current, ioVars, received, pushed>> /\ MarketLocal

\* tick, once stopping: return for good when the writer is done.
TickChecks ==
    /\ market = "tick_check"
    /\ IF market_stopping /\ writer_done
       THEN market' = "io" /\ UNCHANGED <<status, after, tick_armed>>
       ELSE /\ status' = IF market_stopping /\ status.fatal_error = NoError
                         THEN [status EXCEPT !.runtime_state = "Stopping"] ELSE status
            /\ market' = "publish" /\ after' = "io"
            /\ tick_armed' = TRUE
    /\ UNCHANGED <<queue, writer_ready, writer_done, market_done, post_registered,
                   market_stopping, current, posted, feedVars>> /\ MarketLocal

\* publish(): the book's state under the mutex.
Publishes ==
    /\ market = "publish" /\ market' = after
    /\ status' = [status EXCEPT !.book_state = book]
    /\ UNCHANGED <<queue, writer_ready, writer_done, market_done, post_registered,
                   after, market_stopping, current, ioVars, feedVars>> /\ MarketLocal

TickFires ==
    /\ MarketStep("io", "tick")
    /\ tick_armed
    /\ tick_armed' = FALSE
    /\ UNCHANGED <<queue, sharedVars, after, market_stopping, current, posted, feedVars>>
    /\ MarketLocal

\* The stop(error) call that recording_failed posted.
PostedStop ==
    /\ market = "io" /\ posted > 0
    /\ posted' = posted - 1
    /\ StopCall(TRUE, "io")
    /\ UNCHANGED <<sharedVars, current, tick_armed, received, pushed>> /\ MarketLocal

\* Anything the manager does that is not a message: recovery, reconnection, health.
FeedMoves ==
    /\ MarketStep("io", "io")
    /\ ~manager.stopping
    /\ book' \in {"Initializing", "Stale", "Resyncing", "Disconnected"}
    /\ UNCHANGED <<queue, sharedVars, after, market_stopping, current, ioVars, manager, received, pushed>>
    /\ MarketLocal

\* handle(): the envelope takes the next index and is pushed.
MessagePushed(size) ==
    /\ MarketStep("io", "handle")
    /\ ~manager.stopping
    /\ received < MaxMessages
    /\ received' = received + 1
    /\ pushed' = PushResult(size)
    /\ TryPush([index |-> received, size |-> size])
    /\ UNCHANGED <<sharedVars, after, market_stopping, current, ioVars, manager, book>> /\ MarketLocal

\* handle(): process, publish; then the manager's reaction.
MessageProcessed ==
    /\ MarketStep("handle", "io")
    /\ pushed = "Accepted"
    /\ book' \in {"Valid", "Invalid", book}
    /\ status' = [status EXCEPT !.book_state = book', !.received = received,
                                !.enqueued = received, !.processed = received]
    /\ UNCHANGED <<queue, writer_ready, writer_done, market_done, post_registered,
                   after, market_stopping, current, ioVars, manager, received, pushed>> /\ MarketLocal

\* handle(): the sink refused; published, then terminal_recording_failure().
MessageRefused ==
    /\ MarketStep("handle", "io")
    /\ pushed # "Accepted"
    /\ book' = "Invalid"
    /\ status' = WithFatal([status EXCEPT !.book_state = "Invalid", !.received = received],
                           pushed, IF pushed = "Full" THEN "StoppedQueueFull"
                                                      ELSE "StoppedRecordingError")
    /\ manager' = [stopping |-> TRUE, terminal |-> TRUE]
    /\ UNCHANGED <<queue, writer_ready, writer_done, market_done, post_registered,
                   after, market_stopping, current, ioVars, received, pushed>> /\ MarketLocal

\* io.run() returns when nothing is outstanding; publish() follows.
IoRunReturns ==
    /\ market = "io"
    /\ ~tick_armed /\ posted = 0 /\ manager.stopping
    /\ market' = "publish" /\ after' = "clear_post"
    /\ UNCHANGED <<queue, sharedVars, market_stopping, current, ioVars, feedVars>> /\ MarketLocal

\* ~ClearPost.
ClearsPost ==
    /\ MarketStep("clear_post", "close")
    /\ post_registered' = FALSE
    /\ UNCHANGED <<queue, status, writer_ready, writer_done, market_done,
                   after, market_stopping, current, ioVars, feedVars>> /\ MarketLocal

\* An exception leaves the try block, from any step of it that allocates or calls
\* the network: ~ClearPost, ~manager and the io_context, whose posted calls are
\* dropped, then queue.close().
MarketThrows ==
    /\ market \in {"setup", "initial", "tick", "tick_decide", "tick_check", "publish", "io", "handle"}
    /\ market' = "caught"
    /\ post_registered' = FALSE /\ posted' = 0 /\ tick_armed' = FALSE
    /\ manager' = [manager EXCEPT !.stopping = TRUE]
    /\ CloseQueue
    /\ UNCHANGED <<status, writer_ready, writer_done, market_done,
                   after, market_stopping, current, book, received, pushed>> /\ MarketLocal

CatchStores ==
    /\ MarketStep("caught", "close")
    /\ status' = [WithFatal(status, "ProcessingError", "StoppedProcessingError")
                     EXCEPT !.book_state = "Invalid"]
    /\ UNCHANGED <<queue, writer_ready, writer_done, market_done, post_registered,
                   after, market_stopping, current, ioVars, feedVars>> /\ MarketLocal

MarketClosesQueue ==
    /\ MarketStep("close", "finish")
    /\ CloseQueue
    /\ UNCHANGED <<sharedVars, after, market_stopping, current, ioVars, feedVars>> /\ MarketLocal

MarketDone ==
    /\ MarketStep("finish", "exited")
    /\ market_done' = TRUE
    /\ UNCHANGED <<queue, status, writer_ready, writer_done, post_registered,
                   after, market_stopping, current, ioVars, feedVars>> /\ MarketLocal

MarketProgress ==
    \/ RegistersPost \/ ReadsInitial \/ SetsRunning \/ TickCopies \/ TickDecides \/ TickChecks
    \/ Publishes \/ MessageProcessed \/ MessageRefused \/ IoRunReturns
    \/ ClearsPost \/ CatchStores \/ MarketClosesQueue \/ MarketDone

MarketEnvironment ==
    FeedMoves \/ MarketThrows \/ \E size \in Sizes : MessagePushed(size)

-----------------------------------------------------------------------------
(***************************************************************************)
(* The main thread: join, final state, Capture::finalize.                  *)
(***************************************************************************)
MainLocal == UNCHANGED <<stop_requested, queue, writerVars, marketVars,
                         writer_ready, writer_done, market_done, post_registered>>

\* Mutant of MainJoins: the writer is not joined.
JoinsMarketOnly ==
    /\ main = "wait" /\ main' = "finalize"
    /\ market_done /\ market = "exited"
    /\ status' = IF status.fatal_error = NoError
                 THEN [status EXCEPT !.runtime_state = "Stopped"] ELSE status
    /\ UNCHANGED manifest /\ MainLocal

MainJoins ==
    /\ main = "wait" /\ main' = "finalize"
    /\ market_done /\ market = "exited" /\ writer = "exited"
    /\ status' = IF status.fatal_error = NoError
                 THEN [status EXCEPT !.runtime_state = "Stopped"] ELSE status
    /\ UNCHANGED manifest /\ MainLocal

\* The market thread cannot be created: the queue is closed ...
MarketNotCreated ==
    /\ main = "wait" /\ main' = "unwind"
    /\ MarketStep("setup", "not_created")
    /\ CloseQueue
    /\ UNCHANGED <<stop_requested, sharedVars, writerVars, after, market_stopping, current, ioVars,
                   feedVars, manifest>>

\* ... the writer joined, and the exception leaves run_live.
Unwinds ==
    /\ main = "unwind" /\ main' = "unwound"
    /\ writer = "exited"
    /\ UNCHANGED <<status, manifest>> /\ MainLocal

\* finalize() throws while the runtime is not in a final state; otherwise the
\* manifest is published.
Finalizes ==
    /\ main = "finalize"
    /\ IF status.runtime_state \notin FinalStates
       THEN main' = "throws" /\ UNCHANGED manifest
       ELSE /\ main' = "exited"
            /\ manifest' = ManifestStatus
    /\ UNCHANGED status /\ MainLocal

Main == MainJoins \/ Finalizes \/ Unwinds

\* The process is gone.
Exited == main \in {"exited", "unwound", "throws"} /\ UNCHANGED vars

-----------------------------------------------------------------------------
Next == Writer \/ MarketProgress \/ TickFires \/ PostedStop \/ MarketEnvironment \/ Main
        \/ MarketNotCreated \/ SignalStop \/ Exited

Spec == Init /\ [][Next]_vars

(***************************************************************************)
(* Fairness: the three threads are scheduled, the io_context runs expired  *)
(* timers and posted calls.  Nothing is assumed of signals, messages or    *)
(* failures.                                                               *)
(***************************************************************************)
FairSpec ==
    /\ Spec
    /\ WF_vars(Writer) /\ WF_vars(MarketProgress) /\ WF_vars(Main)
    /\ WF_vars(TickFires) /\ WF_vars(PostedStop)

-----------------------------------------------------------------------------
(***************************************************************************)
(* Properties.                                                             *)
(***************************************************************************)
\* How many envelopes try_push has accepted.
Accepted == IF pushed = "Accepted" THEN received ELSE received - 1

\* What is on disk, in the writer's hand and in the queue is, in this order and
\* without a hole, every envelope accepted so far: the writer's check of the
\* record index never fires, and only a failing write loses envelopes.
RecordedInOrder ==
    /\ \A i \in 1 .. Len(messages) : messages[i].index = Accepted - Len(messages) + i - 1
    /\ writer = "append" => in_hand.index = file
    /\ writer \notin {"append", "failed", "failed_close", "finish", "exited"} =>
           file + Len(messages) = Accepted
    /\ writer = "append" => file + 1 + Len(messages) = Accepted

\* Between the threads nothing is lost, reordered or miscounted.
QueueIsExact == RecordedInOrder /\ BytesAreExact

\* A fatal error and the runtime state always agree, though three threads write
\* them: the unconditional store of Running and the store of Stopping never
\* overwrite an error, and nothing else claims to have stopped.
FatalMatchesState ==
    CASE status.fatal_error \in {"RecordingError", "Closed"} ->
            status.runtime_state = "StoppedRecordingError"
      [] status.fatal_error = "Full" -> status.runtime_state = "StoppedQueueFull"
      [] status.fatal_error = "ProcessingError" -> status.runtime_state = "StoppedProcessingError"
      [] OTHER -> status.runtime_state \in {"Starting", "Running", "Stopping", "Stopped"}

\* When the process ends, book and manifest say what happened: after any fatal
\* error the published book is Invalid and the session failed, after a requested
\* stop the book is Disconnected and the session complete.  A writer failure
\* during the final drain still reaches the market thread before it leaves, and
\* finalize() never downgrades or refuses a clean run.
ExitIsConsistent ==
    LET clean == status.fatal_error = NoError
    IN /\ main # "throws"
       /\ main \in {"finalize", "exited"} =>
              status.book_state = IF clean THEN "Disconnected" ELSE "Invalid"
       /\ main = "exited" => (clean <=> manifest = "complete")

\* The run implements RecordingLog: in particular a manifest says "complete"
\* only when the file holds everything the queue accepted.
Log == INSTANCE RecordingLog WITH
           accepted <- Accepted, durable <- file,
           verdict <- CASE manifest = "in_progress" -> "open"
                        [] manifest = "complete" -> "complete"
                        [] OTHER -> "failed"

RefinesLog == Log!Spec

\* A stop request or a fatal error ends the process, and so does a market thread
\* that cannot be created: no thread waits for ever on the queue, the writer's
\* readiness or another thread's flag.
StopTerminates ==
    (stop_requested \/ status.fatal_error # NoError \/ main = "unwind")
        ~> main \in {"exited", "unwound"}
=============================================================================

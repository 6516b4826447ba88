--------------------------- MODULE KrakenRuntime ---------------------------
(***************************************************************************)
(* run_kraken: the main, market-data and writer threads of a Kraken run.   *)
(* It shares the queue, the writer and finalize with run_live but has its  *)
(* own market thread: no callback is registered for a writer failure, the  *)
(* tick looks at the shared status instead, and does not wait for the      *)
(* writer once it is stopping.                                             *)
(*                                                                         *)
(* One action is what the thread does while it holds a lock, together with *)
(* the thread-local work around it.  The sessions, the retry timer and the *)
(* lifecycle events are KrakenFeed's; here the feed hands over messages    *)
(* and recovers at any time while not stopping.                            *)
(***************************************************************************)
EXTENDS RawWriter

CONSTANT MaxMessages  \* bound: messages the exchange sends

ASSUME RuntimeAssumption == MaxMessages \in Nat

VARIABLES
    kraken_stop,            \* the signal flag, or the duration has passed
    market_done,            \* SharedRuntime
    market, after,          \* market thread: step, step after publish
    stopping, tick_armed,   \* market thread's flag, the io_context's tick timer
    book, index, pushed,    \* book state, next record index, result of the last push
    main, manifest

marketVars == <<market, after, stopping, tick_armed, book, index, pushed>>
mainVars == <<main, manifest>>
vars == <<kraken_stop, queue, shared, market_done, writerVars, marketVars, mainVars>>

Init ==
    /\ kraken_stop = FALSE
    /\ RawWriterInit /\ market_done = FALSE
    /\ market = "setup" /\ after = "io" /\ stopping = FALSE /\ tick_armed = FALSE
    /\ book = "Initializing" /\ index = 0 /\ pushed = "Accepted"
    /\ main = "wait" /\ manifest = "in_progress"

\* SIGINT, SIGTERM or the end of --duration-seconds.
StopRequested ==
    /\ kraken_stop' = TRUE
    /\ UNCHANGED <<queue, shared, market_done, writerVars, marketVars, mainVars>>

Writer == WriterThread /\ UNCHANGED <<kraken_stop, market_done, marketVars, mainVars>>

-----------------------------------------------------------------------------
(***************************************************************************)
(* The market-data thread.                                                 *)
(***************************************************************************)
MarketStep(from, to) == market = from /\ market' = to

\* What no step of this thread changes.
MarketLocal ==
    UNCHANGED <<kraken_stop, writer_ready, writer_done, post_registered, posted, writerVars, mainVars>>

\* Mutant of AwaitsWriter: a writer that failed to open is waited for.
WaitsForReadyOnly ==
    /\ MarketStep("setup", "initial")
    /\ writer_ready
    /\ UNCHANGED <<queue, status, market_done, after, stopping, tick_armed, book, index, pushed>>
    /\ MarketLocal

AwaitsWriter ==
    /\ MarketStep("setup", "initial")
    /\ writer_ready \/ writer_done
    /\ UNCHANGED <<queue, status, market_done, after, stopping, tick_armed, book, index, pushed>>
    /\ MarketLocal

Stop == stopping' = TRUE /\ CloseQueue

\* copy_status() and the choice between stop and connect.
ReadsInitial ==
    /\ market = "initial"
    /\ IF status.fatal_error # NoError
       THEN market' = "tick" /\ Stop
       ELSE market' = "set_running" /\ UNCHANGED <<queue, stopping>>
    /\ UNCHANGED <<status, market_done, after, tick_armed, book, index, pushed>> /\ MarketLocal

\* runtime_state = Running, then connect(), which recovers (and publishes) if
\* the name does not resolve.
SetsRunning ==
    /\ market = "set_running"
    /\ status' = [status EXCEPT !.runtime_state = "Running"]
    /\ book' \in {book, "Disconnected"}
    /\ market' = IF book' = book THEN "tick" ELSE "publish"
    /\ after' = "tick"
    /\ UNCHANGED <<queue, market_done, stopping, tick_armed, index, pushed>> /\ MarketLocal

\* tick: the first copy_status() decides whether the book is invalidated ...
TickInvalidates ==
    /\ MarketStep("tick", "tick_decide")
    /\ book' = IF status.fatal_error # NoError THEN "Invalid" ELSE book
    /\ UNCHANGED <<queue, status, market_done, after, stopping, tick_armed, index, pushed>>
    /\ MarketLocal

\* ... the second one whether to stop.  A stopping tick publishes and is not
\* armed again; another one may recover: forced, silence or no snapshot.
TickDecides ==
    /\ market = "tick_decide" /\ market' = "publish" /\ after' = "io"
    /\ IF kraken_stop \/ status.fatal_error # NoError
       THEN Stop ELSE UNCHANGED <<queue, stopping>>
    /\ IF stopping' THEN UNCHANGED <<book, tick_armed>>
       ELSE book' \in {book, "Stale", "Disconnected"} /\ tick_armed' = TRUE
    /\ UNCHANGED <<status, market_done, index, pushed>> /\ MarketLocal

\* publish(): the book's state under the mutex.
Publishes ==
    /\ market = "publish" /\ market' = after
    /\ status' = [status EXCEPT !.book_state = book]
    /\ UNCHANGED <<queue, market_done, after, stopping, tick_armed, book, index, pushed>>
    /\ MarketLocal

TickFires ==
    /\ MarketStep("io", "tick")
    /\ tick_armed /\ tick_armed' = FALSE
    /\ UNCHANGED <<queue, status, market_done, after, stopping, book, index, pushed>> /\ MarketLocal

\* The message handler: the envelope takes the next index and is pushed.
MessagePushed(size) ==
    /\ MarketStep("io", "count")
    /\ ~stopping /\ index < MaxMessages
    /\ pushed' = PushResult(size)
    /\ TryPush([index |-> index, size |-> size])
    /\ UNCHANGED <<status, market_done, after, stopping, tick_armed, book, index>> /\ MarketLocal

\* The push is counted; an accepted envelope goes on to the processor.
MessageCounted ==
    /\ MarketStep("count", "process")
    /\ pushed = "Accepted"
    /\ status' = [status EXCEPT !.received = @ + 1, !.enqueued = @ + 1]
    /\ UNCHANGED <<queue, market_done, after, stopping, tick_armed, book, index, pushed>>
    /\ MarketLocal

\* Full and Closed are counted alike, then the book is invalidated and the run stops.
MessageRefused ==
    /\ market = "count" /\ market' = "publish" /\ after' = "io"
    /\ pushed # "Accepted"
    /\ status' = WithFatal([status EXCEPT !.received = @ + 1], "Full", "StoppedQueueFull")
    /\ book' = "Invalid" /\ Stop
    /\ UNCHANGED <<market_done, tick_armed, index, pushed>> /\ MarketLocal

\* The processor's verdict: an integrity failure invalidates, an update that
\* awaits a snapshot is refused without touching the book; both recover.
MessageProcessed ==
    /\ market = "process" /\ market' = "publish"
    /\ status' = [status EXCEPT !.processed = index + 1]
    /\ index' = index + 1
    /\ book' \in {book, "Initializing", "Valid", "Invalid"}
    /\ after' \in CASE book' = "Valid" -> {"io"} [] book' = "Invalid" -> {"recover"}
                    [] OTHER -> {"io", "recover"}
    /\ UNCHANGED <<queue, market_done, stopping, tick_armed, pushed>> /\ MarketLocal

\* recover(), from the message handler or a transport error.
Recovers ==
    /\ market = "recover" \/ (market = "io" /\ ~stopping)
    /\ market' = "publish" /\ after' = "io"
    /\ book' = "Disconnected"
    /\ UNCHANGED <<queue, status, market_done, stopping, tick_armed, index, pushed>> /\ MarketLocal

\* io.run() returns: no timer, and the aborted session has nothing outstanding.
IoRunReturns ==
    /\ market = "io" /\ market' = "publish" /\ after' = "close"
    /\ stopping /\ ~tick_armed
    /\ UNCHANGED <<queue, status, market_done, stopping, tick_armed, book, index, pushed>>
    /\ MarketLocal

\* An exception leaves the try block, from any step of it that allocates or calls
\* the network; the io_context and its timers are destroyed.
MarketThrows ==
    /\ \/ market \in {"setup", "initial", "tick", "tick_decide", "publish", "io", "process", "recover"}
       \/ market = "count" /\ pushed # "Accepted"
    /\ market' = "caught"
    /\ tick_armed' = FALSE
    /\ UNCHANGED <<queue, status, market_done, after, stopping, book, index, pushed>> /\ MarketLocal

\* The catch block overwrites an earlier error.
CatchStores ==
    /\ MarketStep("caught", "close")
    /\ status' = [status EXCEPT !.fatal_error = "ProcessingError",
                                !.runtime_state = "StoppedProcessingError", !.book_state = "Invalid"]
    /\ UNCHANGED <<queue, market_done, after, stopping, tick_armed, book, index, pushed>>
    /\ MarketLocal

MarketClosesQueue ==
    /\ MarketStep("close", "finish")
    /\ CloseQueue
    /\ UNCHANGED <<status, market_done, after, stopping, tick_armed, book, index, pushed>>
    /\ MarketLocal

MarketDone ==
    /\ MarketStep("finish", "exited")
    /\ market_done' = TRUE
    /\ UNCHANGED <<queue, status, after, stopping, tick_armed, book, index, pushed>> /\ MarketLocal

MarketProgress ==
    \/ AwaitsWriter \/ ReadsInitial \/ SetsRunning \/ TickInvalidates \/ TickDecides \/ Publishes
    \/ MessageCounted \/ MessageRefused \/ MessageProcessed \/ (market = "recover" /\ Recovers)
    \/ IoRunReturns \/ CatchStores \/ MarketClosesQueue \/ MarketDone

MarketEnvironment ==
    (market = "io" /\ Recovers) \/ MarketThrows \/ \E size \in Sizes : MessagePushed(size)

-----------------------------------------------------------------------------
(***************************************************************************)
(* The main thread: join both threads, Stopped unless there is an error,   *)
(* Capture::finalize.                                                      *)
(***************************************************************************)
MainLocal == UNCHANGED <<kraken_stop, queue, market_done, writer_ready, writer_done,
                         post_registered, posted, writerVars, marketVars>>

\* Mutant of MainJoins: the writer is not joined.
JoinsMarketOnly ==
    /\ main = "wait" /\ main' = "finalize"
    /\ market = "exited"
    /\ status' = IF status.fatal_error = NoError
                 THEN [status EXCEPT !.runtime_state = "Stopped"] ELSE status
    /\ UNCHANGED manifest /\ MainLocal

MainJoins ==
    /\ main = "wait" /\ main' = "finalize"
    /\ market_done /\ market = "exited" /\ writer = "exited"
    /\ status' = IF status.fatal_error = NoError
                 THEN [status EXCEPT !.runtime_state = "Stopped"] ELSE status
    /\ UNCHANGED manifest /\ MainLocal

\* The market thread cannot be created: the queue is closed ...
MarketNotCreated ==
    /\ main = "wait" /\ main' = "unwind"
    /\ MarketStep("setup", "not_created")
    /\ CloseQueue
    /\ UNCHANGED <<kraken_stop, shared, market_done, writerVars, after, stopping, tick_armed, book,
                   index, pushed, manifest>>

\* ... the writer joined, and the exception leaves run_kraken.
Unwinds ==
    /\ main = "unwind" /\ main' = "unwound"
    /\ writer = "exited"
    /\ UNCHANGED <<status, manifest>> /\ MainLocal

Finalizes ==
    /\ main = "finalize"
    /\ IF status.runtime_state \notin FinalStates
       THEN main' = "throws" /\ UNCHANGED manifest
       ELSE main' = "exited" /\ manifest' = ManifestStatus
    /\ UNCHANGED status /\ MainLocal

Main == MainJoins \/ Finalizes \/ Unwinds

\* The process is gone.
Exited == main \in {"exited", "unwound", "throws"} /\ UNCHANGED vars

-----------------------------------------------------------------------------
Next == Writer \/ MarketProgress \/ TickFires \/ MarketEnvironment \/ Main \/ MarketNotCreated
        \/ StopRequested \/ Exited

Spec == Init /\ [][Next]_vars

(***************************************************************************)
(* Fairness: the three threads are scheduled and the io_context runs the   *)
(* expired tick timer, even when messages keep arriving.                   *)
(***************************************************************************)
FairSpec ==
    /\ Spec
    /\ WF_vars(Writer) /\ WF_vars(MarketProgress) /\ WF_vars(Main)
    /\ SF_vars(TickFires)

-----------------------------------------------------------------------------
(***************************************************************************)
(* Properties.                                                             *)
(***************************************************************************)
\* A fatal error and the runtime state agree at every step of the three threads:
\* the unconditional store of Running after the wait for the writer never hides
\* an error, because a ready writer cannot fail before the first message.
FatalMatchesState ==
    CASE status.fatal_error = "RecordingError" -> status.runtime_state = "StoppedRecordingError"
      [] status.fatal_error = "Full" -> status.runtime_state = "StoppedQueueFull"
      [] status.fatal_error = "ProcessingError" -> status.runtime_state = "StoppedProcessingError"
      [] OTHER -> status.runtime_state \in {"Starting", "Running", "Stopped"}

\* A run reported as RAW_RECORDING_QUEUE_FULL did meet a full queue.  The message
\* handler stores that error for a closed queue too; it is never the one kept,
\* because a failing writer stores its own error before it closes the queue and
\* the handler does not push once it has closed the queue itself.
FullIsReportedTruly == status.fatal_error = "Full" => pushed = "Full"

\* finalize() finds a final state, and a run without a fatal error is published
\* as complete: every received message was written, none is downgraded.
CleanRunIsComplete ==
    /\ main # "throws"
    /\ main = "exited" => (status.fatal_error = NoError <=> manifest = "complete")

\* What a run reports of itself is true: its state, its error and its manifest.
ReportIsTrue == FatalMatchesState /\ FullIsReportedTruly /\ CleanRunIsComplete

\* How many envelopes try_push has accepted: those counted, and the one in flight.
Accepted == status.enqueued + (IF market = "count" /\ pushed = "Accepted" THEN 1 ELSE 0)

\* The run implements RecordingLog: in particular a manifest says "complete"
\* only when the file holds everything the queue accepted.
Log == INSTANCE RecordingLog WITH
           accepted <- Accepted, durable <- file,
           verdict <- CASE manifest = "in_progress" -> "open"
                        [] manifest = "complete" -> "complete"
                        [] OTHER -> "failed"

RefinesLog == Log!Spec

\* A stop request or a fatal error ends the process, although nothing is posted
\* to the market thread: it finds the error at a tick or at the next push, and
\* no thread waits for ever on the queue or on another one's flag.  Nor does the main
\* thread, when the market thread cannot be created, on the writer.
StopTerminates ==
    (kraken_stop \/ status.fatal_error # NoError \/ main = "unwind")
        ~> main \in {"exited", "unwound"}

\* What docs/architecture.md says of writer errors: they invalidate the book, so
\* that no run that failed to record ends with a book published as Valid.
WriterErrorInvalidates ==
    main = "exited" /\ status.fatal_error = "RecordingError" => status.book_state # "Valid"
=============================================================================

------------------------- MODULE LiveRuntimeProofs -------------------------
(***************************************************************************)
(* Proofs about LiveRuntime: what the three threads of a Coinbase run keep *)
(* true, and that the run implements RecordingLog.                         *)
(***************************************************************************)
EXTENDS LiveRuntime, RawWriterProofs

-----------------------------------------------------------------------------
(***************************************************************************)
(* The inductive invariant.                                                *)
(***************************************************************************)
MarketTypes ==
    /\ stop_requested \in BOOLEAN /\ market_done \in BOOLEAN
    /\ market_stopping \in BOOLEAN /\ tick_armed \in BOOLEAN
    /\ market \in {"setup", "initial", "set_running", "tick", "tick_decide", "tick_check", "publish",
                   "io", "handle", "clear_post", "caught", "close", "finish", "exited", "not_created"}
    /\ after \in {"tick", "tick_check", "io", "clear_post"}
    /\ current \in Failures \cup {NoError}
    /\ manager \in [stopping : BOOLEAN, terminal : BOOLEAN]
    /\ book \in BookStates
    /\ received \in Nat /\ pushed \in {"Accepted", "Full", "Closed"}

MainTypes ==
    /\ main \in {"wait", "finalize", "exited", "unwind", "unwound"}
    /\ manifest \in {"in_progress", "complete", "recording_failure", "queue_overflow",
                     "processing_failure"}

\* Accepted counts the envelopes of the writer's invariant.
Recorded == \E a \in Nat : a = Accepted /\ WriterLog(a)

\* Until the manager is started nothing has been pushed.
BeforeStart ==
    /\ market \in {"setup", "initial", "set_running"} =>
           received = 0 /\ ~market_stopping /\ manager = [stopping |-> TRUE, terminal |-> FALSE] /\ Idle
    /\ market = "initial" => writer_ready \/ writer_done
    /\ market = "set_running" => writer_ready /\ ~Failed

\* The market thread has left its try block, or has never entered it.
Left == market \in {"caught", "close", "finish", "exited", "not_created"}

\* stop() and terminal_recording_failure(): the flags agree with each other, with
\* the book and with the stored error.
Stopping ==
    /\ market_stopping => manager.stopping
    /\ manager.terminal => manager.stopping /\ book = "Invalid" /\ Failed
    /\ manager.stopping /\ ~manager.terminal /\ ~Left => book = "Disconnected"
    /\ market = "handle" => ~manager.stopping
    /\ pushed # "Accepted" =>
           /\ received > 0
           /\ market = "handle" \/ (manager.stopping /\ (Failed \/ market = "caught"))

\* An error has reached the manager or is on its way: posted, or to be read by
\* the market thread before it starts.
ErrorsArrive ==
    /\ post_registered <=> ~Left /\ market # "setup"
    /\ posted > 0 \/ current # NoError => Failed
    /\ Failed /\ ~Left /\ market \notin {"setup", "initial"} => manager.terminal \/ posted > 0

\* The market thread stays in io.run() while a tick is armed, and lets the last one
\* go only when the writer has left.
Ticking ==
    /\ market \in {"io", "handle"} \/ (market = "publish" /\ after = "io") =>
           tick_armed \/ (market_stopping /\ writer_done)
    /\ market = "clear_post" \/ (market = "publish" /\ after = "clear_post") =>
           manager.stopping /\ posted = 0 /\ writer_done

\* What the last publish() or the catch block has left in the status.
Reported ==
    /\ \/ status.received = IF market = "handle" THEN received - 1 ELSE received
       \/ Failed \/ market = "caught"
    /\ market = "clear_post" => status.book_state = book
    /\ market \in {"close", "finish", "exited"} =>
           IF Failed THEN status.book_state = "Invalid"
                     ELSE writer = "exited" /\ status.book_state = "Disconnected"

\* The main thread runs alone once it has joined the others, or with the writer when
\* there is no market thread.
Joined ==
    /\ main \in {"finalize", "exited"} => market = "exited" /\ writer = "exited"
    /\ main \in {"finalize", "exited"} /\ ~Failed => status.runtime_state = "Stopped"
    /\ main \in {"unwind", "unwound"} <=> market = "not_created"
    /\ main = "unwound" => writer = "exited"
    /\ manifest # "in_progress" <=> main = "exited"
    /\ main = "exited" => (~Failed <=> manifest = "complete")

Inv ==
    /\ Types /\ MarketTypes /\ MainTypes /\ Recorded /\ BeforeStart /\ Stopping /\ ErrorsArrive
    /\ Ticking /\ Reported /\ FatalMatchesState /\ Joined

-----------------------------------------------------------------------------
(***************************************************************************)
(* The steps, one by one.                                                  *)
(***************************************************************************)
\* The steps of the market and main threads that push nothing.
MarketQuiet ==
    \/ MarketProgress \/ TickFires \/ PostedStop \/ FeedMoves \/ MarketThrows \/ Main
    \/ MarketNotCreated \/ SignalStop

\* Every step but those of the main thread after the others have begun.
NextButMain ==
    \/ Writer \/ MarketProgress \/ TickFires \/ PostedStop \/ MarketEnvironment
    \/ MarketNotCreated \/ SignalStop

\* stop(error) always leaves a stopped manager.
LEMMA StopCallEffect ==
    ASSUME Types, MarketTypes, Stopping, NEW error \in BOOLEAN, NEW next, StopCall(error, next)
    PROVE  /\ manager' \in [stopping : BOOLEAN, terminal : BOOLEAN]
           /\ manager'.stopping /\ (manager'.terminal <=> manager.terminal \/ error)
           /\ book' = IF error THEN "Invalid" ELSE IF manager.stopping THEN book ELSE "Disconnected"
           /\ market_stopping' = TRUE /\ market' = "publish" /\ after' = next
           /\ UNCHANGED <<messages, bytes>> /\ closed' \in BOOLEAN /\ (closed => closed')
<1>1. /\ manager' \in [stopping : BOOLEAN, terminal : BOOLEAN]
      /\ manager'.stopping /\ (manager'.terminal <=> manager.terminal \/ error)
  BY DEF StopCall, Stopping, MarketTypes
<1>2. book' = IF error THEN "Invalid" ELSE IF manager.stopping THEN book ELSE "Disconnected"
  BY DEF StopCall, Stopping, MarketTypes
<1>3. UNCHANGED <<messages, bytes>> /\ closed' \in BOOLEAN /\ (closed => closed')
  BY DEF StopCall, CloseQueue, queue, queueVars, Types, QueueTypes
<1>. QED
  BY <1>1, <1>2, <1>3 DEF StopCall

\* The status after a refused push and after an exception.
LEMMA ErrorStored ==
    ASSUME Types, MarketTypes, MessageRefused \/ CatchStores
    PROVE  /\ status' \in Statuses /\ Failed' /\ status'.written = status.written
           /\ status'.book_state = "Invalid"
           /\ status'.received = IF MessageRefused THEN received ELSE status.received
           /\ Failed => UNCHANGED <<status.fatal_error, status.runtime_state>>
           /\ ~Failed => IF MessageRefused
                         THEN /\ status'.fatal_error = pushed
                              /\ status'.runtime_state = IF pushed = "Full" THEN "StoppedQueueFull"
                                                         ELSE "StoppedRecordingError"
                         ELSE /\ status'.fatal_error = "ProcessingError"
                              /\ status'.runtime_state = "StoppedProcessingError"
<1>0. status \in Statuses
  BY DEF Types, SharedTypes
<1>1. CASE MessageRefused
  <2>. DEFINE s == [status EXCEPT !.book_state = "Invalid", !.received = received]
              final == IF pushed = "Full" THEN "StoppedQueueFull" ELSE "StoppedRecordingError"
  <2>1. /\ s \in Statuses /\ s.fatal_error = status.fatal_error /\ s.written = status.written
        /\ s.book_state = "Invalid" /\ s.received = received
        /\ s.runtime_state = status.runtime_state
    BY <1>0 DEF MarketTypes, Statuses, BookStates
  <2>2. pushed \in Failures /\ final \in FinalStates
    BY <1>1 DEF MessageRefused, MarketTypes, Failures, FinalStates
  <2>3. status' = WithFatal(s, pushed, final)
    BY <1>1 DEF MessageRefused
  <2>. HIDE DEF s, final
  <2>4. /\ status' \in Statuses /\ status'.fatal_error # NoError
        /\ s.fatal_error # NoError => status' = s
        /\ s.fatal_error = NoError => status'.fatal_error = pushed /\ status'.runtime_state = final
        /\ status'.book_state = s.book_state /\ status'.received = s.received
        /\ status'.written = s.written
    BY <2>1, <2>2, <2>3, WithFatalKeeps
  <2>. QED
    BY <1>1, <2>1, <2>4 DEF Failed, final
<1>2. CASE CatchStores
  <2>. DEFINE s == WithFatal(status, "ProcessingError", "StoppedProcessingError")
  <2>1. ~MessageRefused
    BY <1>2 DEF MessageRefused, CatchStores, MarketStep
  <2>2. /\ s \in Statuses /\ s.fatal_error # NoError /\ (Failed => s = status)
        /\ ~Failed => s.fatal_error = "ProcessingError" /\ s.runtime_state = "StoppedProcessingError"
        /\ s.received = status.received /\ s.written = status.written
    BY <1>0, WithFatalKeeps DEF Failures, FinalStates, Failed
  <2>3. status' = [s EXCEPT !.book_state = "Invalid"]
    BY <1>2 DEF CatchStores
  <2>. HIDE DEF s
  <2>4. /\ status' \in Statuses /\ status'.fatal_error = s.fatal_error
        /\ status'.runtime_state = s.runtime_state /\ status'.book_state = "Invalid"
        /\ status'.received = s.received /\ status'.written = s.written
    BY <2>2, <2>3 DEF Statuses, BookStates
  <2>. QED
    BY <2>1, <2>2, <2>4 DEF Failed
<1>. QED
  BY <1>1, <1>2

\* The plain stores into the status.
LEMMA StatusStored ==
    ASSUME Types, MarketTypes, MarketTypes',
           SetsRunning \/ TickChecks \/ Publishes \/ MessageProcessed \/ MainJoins
    PROVE  /\ status' \in Statuses
           /\ status'.fatal_error = status.fatal_error /\ status'.written = status.written
           /\ status'.received = IF MessageProcessed THEN received ELSE status.received
           /\ status'.book_state = IF MessageProcessed THEN book' ELSE IF Publishes THEN book
                                   ELSE status.book_state
           /\ status'.runtime_state = IF SetsRunning THEN "Running"
                                      ELSE IF TickChecks THEN
                                           IF market_stopping /\ ~writer_done /\ ~Failed
                                           THEN "Stopping" ELSE status.runtime_state
                                      ELSE IF MainJoins /\ ~Failed THEN "Stopped"
                                      ELSE status.runtime_state
<1>. USE DEF Types, SharedTypes, MarketTypes, Statuses, FinalStates, Failed, MarketStep
<1>1. CASE SetsRunning
  BY <1>1 DEF SetsRunning, TickChecks, Publishes, MessageProcessed, MainJoins
<1>2. CASE TickChecks
  BY <1>2 DEF SetsRunning, TickChecks, Publishes, MessageProcessed, MainJoins
<1>3. CASE Publishes
  BY <1>3 DEF SetsRunning, TickChecks, Publishes, MessageProcessed, MainJoins
<1>4. CASE MessageProcessed
  BY <1>4 DEF SetsRunning, TickChecks, Publishes, MessageProcessed, MainJoins
<1>5. CASE MainJoins
  BY <1>5 DEF SetsRunning, TickChecks, Publishes, MessageProcessed, MainJoins
<1>. QED
  BY <1>1, <1>2, <1>3, <1>4, <1>5

\* The market thread keeps its types.
LEMMA MarketTyped ==
    ASSUME Types, MarketTypes, Stopping, NextButMain
    PROVE  MarketTypes'
<1>. USE DEF MarketStep, MarketLocal
<1>1. CASE RegistersPost \/ ClearsPost \/ MarketClosesQueue \/ MarketDone \/ IoRunReturns \/ TickFires
  BY <1>1 DEF RegistersPost, ClearsPost, MarketClosesQueue, MarketDone, IoRunReturns, TickFires,
              ioVars, feedVars, sharedVars, MarketTypes
<1>2. CASE SetsRunning
  BY <1>2 DEF SetsRunning, ioVars, MarketTypes, BookStates
<1>3. CASE TickCopies
  BY <1>3 DEF TickCopies, ioVars, feedVars, sharedVars, MarketTypes, Types, SharedTypes, Statuses
<1>4. CASE TickChecks
  BY <1>4 DEF TickChecks, feedVars, MarketTypes
<1>5. CASE Publishes
  BY <1>5 DEF Publishes, ioVars, feedVars, MarketTypes
<1>6. CASE MessageProcessed
  BY <1>6 DEF MessageProcessed, ioVars, MarketTypes, BookStates
<1>7. CASE MessageRefused
  BY <1>7 DEF MessageRefused, ioVars, MarketTypes, BookStates
<1>8. CASE MarketThrows \/ CatchStores \/ MarketNotCreated
  BY <1>8 DEF MarketThrows, CatchStores, MarketNotCreated, ioVars, feedVars, sharedVars, MarketTypes
<1>9. CASE FeedMoves
  BY <1>9 DEF FeedMoves, ioVars, sharedVars, MarketTypes, BookStates
<1>10. ASSUME NEW size \in Sizes, MessagePushed(size) PROVE MarketTypes'
  BY <1>10 DEF MessagePushed, PushResult, ioVars, sharedVars, MarketTypes
<1>11. ASSUME NEW error \in BOOLEAN, NEW next \in {"tick", "tick_check", "io"}, StopCall(error, next),
              UNCHANGED <<stop_requested, market_done, tick_armed, current, received, pushed>>
       PROVE  MarketTypes'
  BY <1>11, StopCallEffect DEF MarketTypes, BookStates
<1>12. CASE ReadsInitial
  <2>1. CASE Failed \/ stop_requested
    <3>1. StopCall(Failed, "tick") /\ Failed \in BOOLEAN
      BY <1>12, <2>1 DEF ReadsInitial, Failed
    <3>. QED
      BY <1>11, <1>12, <3>1 DEF ReadsInitial, ioVars, sharedVars
  <2>2. CASE ~(Failed \/ stop_requested)
    BY <1>12, <2>2 DEF ReadsInitial, Failed, ioVars, sharedVars, MarketTypes
  <2>. QED
    BY <2>1, <2>2
<1>13. CASE TickDecides
  <2>1. CASE stop_requested \/ current # NoError \/ manager.terminal
    <3>1. StopCall(current # NoError, "tick_check")
      BY <1>13, <2>1 DEF TickDecides
    <3>. QED
      BY <1>11, <1>13, <3>1 DEF TickDecides, ioVars, sharedVars
  <2>2. CASE ~(stop_requested \/ current # NoError \/ manager.terminal)
    BY <1>13, <2>2 DEF TickDecides, ioVars, sharedVars, MarketTypes
  <2>. QED
    BY <2>1, <2>2
<1>14. CASE PostedStop
  BY <1>11, <1>14 DEF PostedStop, sharedVars
<1>15. CASE Writer
  BY <1>15 DEF Writer, feedVars, MarketTypes
<1>16. CASE SignalStop
  BY <1>16 DEF SignalStop, feedVars, marketVars, ioVars, sharedVars, MarketTypes
<1>. QED
  BY <1>1, <1>2, <1>3, <1>4, <1>5, <1>6, <1>7, <1>8, <1>9, <1>10, <1>12, <1>13, <1>14, <1>15, <1>16
     DEF NextButMain, MarketProgress, MarketEnvironment

\* The main thread changes nothing the others own.
LEMMA MainFrame ==
    ASSUME Main
    PROVE  UNCHANGED <<stop_requested, market_done, market, after, market_stopping, current, tick_armed,
                       posted, manager, book, received, pushed, messages, bytes, closed,
                       writer_ready, writer_done, post_registered, writer, in_hand, file, damage>>
  BY DEF Main, MainJoins, Finalizes, Unwinds, MainLocal, queue, queueVars, writerVars, marketVars, ioVars, feedVars

\* To the writer, every step of the other threads but a push is quiet.
LEMMA MarketIsQuiet ==
    ASSUME Types, MarketTypes, Stopping, MarketTypes', MarketQuiet
    PROVE  Quiet
<1>. USE DEF MarketLocal
<1>1. ASSUME status' \in Statuses, post_registered' \in BOOLEAN, posted' \in Nat,
             UNCHANGED <<messages, bytes, writer_ready, writer_done, writerVars>>,
             closed' \in BOOLEAN, closed => closed',
             status'.written = status.written, Failed => Failed'
      PROVE  Quiet
  BY <1>1 DEF Quiet, Types, SharedTypes
<1>2. ASSUME UNCHANGED <<status, post_registered, messages, bytes, closed, writer_ready, writer_done>>,
             UNCHANGED writerVars, posted' \in Nat
      PROVE  Quiet
  BY <1>1, <1>2 DEF Types, SharedTypes, QueueTypes, Failed
<1>3. CASE TickCopies \/ IoRunReturns \/ MarketDone \/ TickFires \/ FeedMoves
  <2>1. UNCHANGED <<status, post_registered, messages, bytes, closed, writer_ready, writer_done,
                    writerVars, posted>>
    BY <1>3 DEF TickCopies, IoRunReturns, MarketDone, TickFires, FeedMoves, sharedVars, ioVars, queue, queueVars
  <2>. QED
    BY <1>2, <2>1 DEF Types, SharedTypes
<1>4. CASE RegistersPost \/ ClearsPost
  <2>1. UNCHANGED <<status, messages, bytes, closed, writer_ready, writer_done, writerVars, posted>>
        /\ post_registered' \in BOOLEAN
    BY <1>4 DEF RegistersPost, ClearsPost, ioVars, queue, queueVars
  <2>. QED
    BY <1>1, <2>1 DEF Types, SharedTypes, QueueTypes, Failed
<1>5. CASE SetsRunning \/ TickChecks \/ Publishes \/ MessageProcessed
  <2>1. UNCHANGED <<post_registered, messages, bytes, closed, writer_ready, writer_done, writerVars, posted>>
    BY <1>5 DEF SetsRunning, TickChecks, Publishes, MessageProcessed, ioVars, queue, queueVars
  <2>2. /\ status' \in Statuses
        /\ status'.fatal_error = status.fatal_error /\ status'.written = status.written
    BY <1>5, StatusStored
  <2>. QED
    BY <1>1, <2>1, <2>2 DEF Types, SharedTypes, QueueTypes, Failed
<1>6. CASE MessageRefused \/ CatchStores
  <2>1. UNCHANGED <<post_registered, messages, bytes, closed, writer_ready, writer_done, writerVars, posted>>
    BY <1>6 DEF MessageRefused, CatchStores, ioVars, queue, queueVars
  <2>2. status' \in Statuses /\ Failed' /\ status'.written = status.written
    BY <1>6, ErrorStored
  <2>. QED
    BY <1>1, <2>1, <2>2 DEF Types, SharedTypes, QueueTypes
<1>7. CASE MarketClosesQueue \/ MarketThrows \/ MarketNotCreated
  <2>1. UNCHANGED <<status, messages, bytes, writer_ready, writer_done, writerVars>>
        /\ closed' = TRUE
    BY <1>7 DEF MarketClosesQueue, MarketThrows, MarketNotCreated, CloseQueue, sharedVars
  <2>2. posted' \in Nat
    BY <1>7 DEF MarketClosesQueue, MarketThrows, MarketNotCreated, ioVars, Types, SharedTypes
  <2>3. post_registered' = FALSE \/ post_registered' = post_registered
    BY <1>7 DEF MarketClosesQueue, MarketThrows, MarketNotCreated, sharedVars
  <2>4. post_registered' \in BOOLEAN
    BY <2>3 DEF Types, SharedTypes
  <2>. QED
    BY <1>1, <2>1, <2>2, <2>4 DEF Types, SharedTypes, Failed
<1>8. CASE ReadsInitial \/ TickDecides \/ PostedStop
  <2>1. UNCHANGED <<status, post_registered, writer_ready, writer_done, writerVars>>
    BY <1>8 DEF ReadsInitial, TickDecides, PostedStop, sharedVars
  <2>2. posted' \in Nat
    <3>1. posted' = posted \/ (posted > 0 /\ posted' = posted - 1)
      BY <1>8 DEF ReadsInitial, TickDecides, PostedStop, ioVars
    <3>. QED
      BY <3>1 DEF Types, SharedTypes
  <2>3. \/ \E error \in BOOLEAN, next \in {"tick", "tick_check", "io"} : StopCall(error, next)
        \/ UNCHANGED <<messages, bytes, closed>>
    BY <1>8 DEF ReadsInitial, TickDecides, PostedStop, queue, queueVars
  <2>4. UNCHANGED <<messages, bytes>> /\ closed' \in BOOLEAN /\ (closed => closed')
    BY <2>3, StopCallEffect DEF Types, QueueTypes
  <2>. QED
    BY <1>1, <2>1, <2>2, <2>4 DEF Types, SharedTypes, Failed
<1>9. CASE Main
  <2>1. status' \in Statuses /\ status'.written = status.written /\ (Failed => Failed')
    <3>1. CASE MainJoins
      BY <3>1, StatusStored DEF Failed
    <3>2. CASE Finalizes \/ Unwinds
      BY <3>2 DEF Finalizes, Unwinds, Types, SharedTypes, Failed
    <3>. QED
      BY <1>9, <3>1, <3>2 DEF Main
  <2>. QED
    BY <1>1, <1>9, <2>1, MainFrame DEF Types, SharedTypes, QueueTypes, writerVars
<1>10. CASE SignalStop
  BY <1>2, <1>10 DEF SignalStop, queue, queueVars, sharedVars, marketVars, ioVars, Types, SharedTypes
<1>. QED
  BY <1>3, <1>4, <1>5, <1>6, <1>7, <1>8, <1>9, <1>10 DEF MarketQuiet, MarketProgress

\* No other step counts an envelope as accepted.
LEMMA AcceptedKept ==
    ASSUME MarketQuiet \/ Writer
    PROVE  UNCHANGED <<received, pushed, Accepted>>
<1>1. UNCHANGED <<received, pushed>>
  <2>1. CASE Writer \/ TickFires \/ PostedStop \/ FeedMoves \/ MarketThrows \/ MarketNotCreated
              \/ SignalStop
    BY <2>1 DEF Writer, TickFires, PostedStop, FeedMoves, MarketThrows, MarketNotCreated, SignalStop, feedVars,
                marketVars
  <2>2. CASE Main
    BY <2>2, MainFrame
  <2>3. CASE MarketProgress
    BY <2>3 DEF MarketProgress, RegistersPost, ReadsInitial, SetsRunning, TickCopies, TickDecides,
                TickChecks, Publishes, MessageProcessed, MessageRefused, IoRunReturns, ClearsPost,
                CatchStores, MarketClosesQueue, MarketDone, feedVars
  <2>. QED
    BY <2>1, <2>2, <2>3 DEF MarketQuiet
<1>. QED
  BY <1>1 DEF Accepted

\* The three callers of stop(error): they stop with an error that has been stored,
\* stop without one, or go on.
LEMMA StopCalled ==
    ASSUME Types, MarketTypes, Stopping, ErrorsArrive, ReadsInitial \/ TickDecides \/ PostedStop
    PROVE  /\ \/ /\ market' = "publish" /\ market_stopping' = TRUE /\ manager'.stopping
                 /\ after' = IF ReadsInitial THEN "tick" ELSE IF TickDecides THEN "tick_check" ELSE "io"
                 /\ \/ manager'.terminal /\ book' = "Invalid" /\ Failed
                    \/ /\ ~PostedStop /\ (ReadsInitial => ~Failed)
                       /\ manager'.terminal <=> manager.terminal
                       /\ book' = IF manager.stopping THEN book ELSE "Disconnected"
              \/ /\ ~PostedStop /\ (ReadsInitial => ~Failed)
                 /\ market' = IF ReadsInitial THEN "set_running" ELSE "tick_check"
                 /\ UNCHANGED <<after, market_stopping, manager, book, closed>>
           /\ UNCHANGED <<status, writer_ready, writer_done, market_done, post_registered, writer,
                          current, tick_armed, received, pushed, messages, main, manifest>>
           /\ market = IF ReadsInitial THEN "initial" ELSE IF TickDecides THEN "tick_decide" ELSE "io"
           /\ IF PostedStop THEN posted > 0 /\ posted' = posted - 1 ELSE posted' = posted
<1>1. /\ market = IF ReadsInitial THEN "initial" ELSE IF TickDecides THEN "tick_decide" ELSE "io"
      /\ IF PostedStop THEN posted > 0 /\ posted' = posted - 1 ELSE posted' = posted
  BY DEF ReadsInitial, TickDecides, PostedStop, ioVars
<1>2. UNCHANGED <<status, writer_ready, writer_done, market_done, post_registered, writer,
                  current, tick_armed, received, pushed, main, manifest>>
  BY DEF ReadsInitial, TickDecides, PostedStop, ioVars, sharedVars, MarketLocal, writerVars, mainVars
<1>3. ASSUME NEW error \in BOOLEAN, NEW next, StopCall(error, next), error => Failed
      PROVE  /\ market' = "publish" /\ market_stopping' = TRUE /\ manager'.stopping /\ after' = next
             /\ messages' = messages
             /\ \/ error /\ manager'.terminal /\ book' = "Invalid" /\ Failed
                \/ /\ ~error
                   /\ manager'.terminal <=> manager.terminal
                   /\ book' = IF manager.stopping THEN book ELSE "Disconnected"
  BY <1>3, StopCallEffect
<1>4. CASE ReadsInitial
  <2>0. ~TickDecides /\ ~PostedStop
    BY <1>4 DEF ReadsInitial, TickDecides, PostedStop
  <2>1. CASE Failed \/ stop_requested
    <3>1. StopCall(Failed, "tick") /\ Failed \in BOOLEAN
      BY <1>4, <2>1 DEF ReadsInitial, Failed
    <3>. QED
      BY <1>1, <1>2, <1>3, <1>4, <2>0, <3>1
  <2>2. CASE ~(Failed \/ stop_requested)
    <3>1. market' = "set_running" /\ UNCHANGED <<messages, closed, after, market_stopping, manager, book>>
      BY <1>4, <2>2 DEF ReadsInitial, Failed, queue, queueVars
    <3>. QED
      BY <1>1, <1>2, <1>4, <2>0, <2>2, <3>1
  <2>. QED
    BY <2>1, <2>2
<1>5. CASE TickDecides
  <2>0. ~ReadsInitial /\ ~PostedStop
    BY <1>5 DEF ReadsInitial, TickDecides, PostedStop
  <2>1. CASE stop_requested \/ current # NoError \/ manager.terminal
    <3>1. StopCall(current # NoError, "tick_check") /\ (current # NoError) \in BOOLEAN
      BY <1>5, <2>1 DEF TickDecides
    <3>2. (current # NoError) => Failed
      BY DEF ErrorsArrive
    <3>. QED
      BY <1>1, <1>2, <1>3, <1>5, <2>0, <3>1, <3>2
  <2>2. CASE ~(stop_requested \/ current # NoError \/ manager.terminal)
    <3>1. market' = "tick_check" /\ UNCHANGED <<messages, closed, after, market_stopping, manager, book>>
      BY <1>5, <2>2 DEF TickDecides, queue, queueVars
    <3>. QED
      BY <1>1, <1>2, <1>5, <2>0, <3>1
  <2>. QED
    BY <2>1, <2>2
<1>6. CASE PostedStop
  <2>0. ~ReadsInitial /\ ~TickDecides
    BY <1>6 DEF ReadsInitial, TickDecides, PostedStop
  <2>1. StopCall(TRUE, "io") /\ Failed
    BY <1>6 DEF PostedStop, ErrorsArrive
  <2>. QED
    BY <1>1, <1>2, <1>3, <1>6, <2>0, <2>1
<1>. QED
  BY <1>4, <1>5, <1>6

\* The queue, the writer and the types.
LEMMA RecordedStep ==
    ASSUME Types, MarketTypes, Stopping, Recorded, [Next]_vars
    PROVE  Types' /\ MarketTypes' /\ Recorded'
<1>1. PICK a \in Nat : a = Accepted /\ WriterLog(a)
  BY DEF Recorded
<1>2. MarketTypes'
  <2>1. CASE Main \/ UNCHANGED vars
    <3>1. UNCHANGED <<stop_requested, market_done, market, after, market_stopping, current, tick_armed,
                      manager, book, received, pushed>>
      BY <2>1, MainFrame DEF vars, sharedVars, marketVars, ioVars, feedVars
    <3>. QED
      BY <3>1 DEF MarketTypes
  <2>2. CASE NextButMain
    BY <2>2, MarketTyped
  <2>. QED
    BY <2>1, <2>2 DEF Next, NextButMain, Exited
<1>3. CASE Writer
  <2>1. WriterThread
    BY <1>3 DEF Writer
  <2>2. Types' /\ WriterLog(a)'
    BY <1>1, <2>1, WriterTyped, WriterKeeps
  <2>. QED
    BY <1>1, <1>2, <1>3, <2>2, AcceptedKept DEF Recorded
<1>4. CASE MarketQuiet
  <2>1. Types' /\ WriterLog(a)'
    BY <1>1, <1>2, <1>4, MarketIsQuiet, FrameKeeps
  <2>. QED
    BY <1>1, <1>2, <1>4, <2>1, AcceptedKept DEF Recorded
<1>5. ASSUME NEW size \in Sizes, MessagePushed(size) PROVE Types' /\ Recorded'
  <2>1. pushed = "Accepted" /\ a = received
    BY <1>1, <1>5 DEF MessagePushed, MarketStep, Stopping, Accepted
  <2>2. PICK b \in Nat : b = IF PushResult(size) = "Accepted" THEN a + 1 ELSE a
    OBVIOUS
  <2>3. TryPush([index |-> a, size |-> size]) /\ UNCHANGED <<shared, writerVars>>
    BY <1>5, <2>1 DEF MessagePushed, MarketLocal, sharedVars, ioVars, shared
  <2>4. Types' /\ WriterLog(b)'
    BY <1>1, <2>2, <2>3, PushKeeps
  <2>5. b = Accepted'
    BY <1>5, <2>1, <2>2 DEF MessagePushed, Accepted
  <2>. QED
    BY <2>4, <2>5 DEF Recorded
<1>6. CASE UNCHANGED vars
  <2>1. Quiet
    BY <1>6 DEF vars, queue, queueVars, sharedVars, marketVars, ioVars, Quiet, Types, SharedTypes, QueueTypes, Failed
  <2>2. Types' /\ WriterLog(a)'
    BY <1>1, <2>1, FrameKeeps
  <2>3. a = Accepted'
    BY <1>1, <1>6 DEF vars, marketVars, feedVars, Accepted
  <2>. QED
    BY <1>2, <2>2, <2>3 DEF Recorded
<1>. QED
  BY <1>2, <1>3, <1>4, <1>5, <1>6 DEF Next, MarketQuiet, MarketEnvironment, Exited

\* What a step of the writer means to the other parts.
LEMMA WriterEffect ==
    ASSUME Types, Recorded, Writer
    PROVE  /\ UNCHANGED <<stop_requested, market_done, market, after, market_stopping, current,
                          tick_armed, manager, book, received, pushed, main, manifest>>
           /\ writer # "exited" /\ (writer_ready => writer_ready') /\ ~writer_done
           /\ post_registered' = post_registered
           /\ status'.book_state = status.book_state /\ status'.received = status.received
           /\ \/ UNCHANGED <<status.fatal_error, status.runtime_state>>
              \/ /\ ~Failed /\ writer = "failed" /\ status'.fatal_error = "RecordingError"
                 /\ status'.runtime_state = "StoppedRecordingError"
           /\ \/ posted' = posted /\ (post_registered => UNCHANGED status.fatal_error)
              \/ post_registered /\ posted' = posted + 1 /\ Failed'
           /\ Failed => Failed'
<1>1. PICK a \in Nat : WriterLog(a)
  BY DEF Recorded
<1>2. WriterThread
  BY DEF Writer
<1>3. Failed => Failed'
  BY <1>1, <1>2, WriterKeeps
<1>4. ~writer_done <=> writer # "exited"
  BY <1>1 DEF WriterLog, Flags
<1>5. UNCHANGED <<stop_requested, market_done, market, after, market_stopping, current,
                  tick_armed, manager, book, received, pushed, main, manifest>>
  BY DEF Writer, feedVars, mainVars
<1>. QED
  BY <1>1, <1>2, <1>3, <1>4, <1>5, WriterReports

\* Nothing happens between the writer's readiness and the start of the manager.
LEMMA BeforeStartStep ==
    ASSUME Inv, Types', MarketTypes', Next
    PROVE  BeforeStart'
<1>. DEFINE Early == market \in {"setup", "initial", "set_running"}
<1>0. PICK a \in Nat : WriterLog(a)
  BY DEF Inv, Recorded
<1>1. CASE Writer
  <2>1. /\ market' = market /\ received' = received /\ market_stopping' = market_stopping
        /\ manager' = manager /\ (writer_ready => writer_ready') /\ ~writer_done /\ WriterThread
    BY <1>1, WriterEffect DEF Inv, Writer
  <2>2. CASE ~Early
    BY <2>1, <2>2 DEF BeforeStart
  <2>3. CASE Early
    <3>1. Idle'
      BY <1>0, <2>1, <2>3, IdleKeeps DEF Inv, BeforeStart
    <3>2. market # "set_running"
      BY <1>0, <2>1, <2>3, IdleWaits DEF Inv, BeforeStart
    <3>. QED
      BY <2>1, <2>3, <3>1, <3>2 DEF Inv, BeforeStart
  <2>. QED
    BY <2>2, <2>3
<1>2. CASE RegistersPost
  BY <1>2 DEF RegistersPost, MarketStep, MarketLocal, writerVars, feedVars, queue, queueVars, Inv, BeforeStart,
              Idle, Failed
<1>3. CASE ReadsInitial
  <2>1. CASE market' = "set_running"
    <3>1. /\ UNCHANGED <<market_stopping, manager, closed, status, writer, writer_ready, writer_done,
                         received, messages>>
          /\ ~Failed /\ market = "initial"
      BY <1>3, <2>1, StopCalled DEF Inv
    <3>2. writer = "pop"
      BY <1>0, <3>1, IdleWaits DEF Inv, BeforeStart
    <3>3. writer_ready
      BY <1>0, <3>1, <3>2 DEF Inv, BeforeStart, WriterLog, Flags
    <3>. QED
      BY <2>1, <3>1, <3>3 DEF Inv, BeforeStart, Idle, Failed
  <2>2. CASE market' # "set_running"
    <3>1. market' = "publish"
      BY <1>3, <2>2, StopCalled DEF Inv
    <3>. QED
      BY <3>1 DEF BeforeStart
  <2>. QED
    BY <2>1, <2>2
<1>4. CASE market' \notin {"setup", "initial", "set_running"}
  BY <1>4 DEF BeforeStart
<1>5. CASE Main \/ SignalStop \/ Exited
  <2>1. /\ UNCHANGED <<market, received, messages, market_stopping, manager, writer, writer_ready,
                       writer_done, closed>>
        /\ SignalStop \/ Exited => status' = status
    BY <1>5, MainFrame DEF SignalStop, Exited, vars, queue, queueVars, sharedVars, writerVars, marketVars, feedVars
  <2>2. Main => market \in {"exited", "not_created"}
    BY DEF Main, MainJoins, Finalizes, Unwinds, Inv, Joined
  <2>. QED
    BY <1>4, <1>5, <2>1, <2>2 DEF Inv, BeforeStart, Idle, Failed
<1>6. ASSUME ~Writer, ~RegistersPost, ~ReadsInitial, ~Main, ~SignalStop, ~Exited
      PROVE  market' \notin {"setup", "initial", "set_running"}
  <2>1. CASE TickDecides \/ PostedStop
    BY <1>6, <2>1, StopCalled DEF Inv
  <2>2. CASE Publishes
    BY <2>2 DEF Publishes, MarketTypes, Inv
  <2>3. CASE ~(TickDecides \/ PostedStop \/ Publishes)
    BY <1>6, <2>3 DEF Next, MarketProgress, MarketEnvironment, SetsRunning, TickCopies, TickChecks,
        MessageProcessed, MessageRefused, IoRunReturns, ClearsPost, CatchStores, MarketClosesQueue,
        MarketDone, TickFires, FeedMoves, MarketThrows, MarketNotCreated, MessagePushed, MarketStep
  <2>. QED
    BY <2>1, <2>2, <2>3
<1>. QED
  BY <1>1, <1>2, <1>3, <1>4, <1>5, <1>6

-----------------------------------------------------------------------------
(***************************************************************************)
(* From an error to the book that is published last.                       *)
(***************************************************************************)
Ending == Stopping /\ ErrorsArrive /\ Ticking /\ Reported

\* The writer only adds its error, and posts it while it is listened to.
LEMMA EndingWriter ==
    ASSUME Inv, Types', MarketTypes', Writer
    PROVE  Ending'
<1>1. /\ UNCHANGED <<market, after, market_stopping, current, tick_armed, manager, book, received, pushed,
                     post_registered>>
      /\ writer # "exited" /\ ~writer_done /\ (Failed => Failed')
      /\ status'.book_state = status.book_state /\ status'.received = status.received
  BY WriterEffect DEF Inv
<1>2. Stopping' /\ Reported'
  BY <1>1 DEF Inv, Stopping, Reported, Left, Types, WriterTypes
<1>3. ErrorsArrive'
  <2>1. \/ posted' = posted /\ (post_registered => status'.fatal_error = status.fatal_error)
        \/ post_registered /\ posted' = posted + 1 /\ Failed'
    BY WriterEffect DEF Inv
  <2>2. posted \in Nat
    BY DEF Inv, Types, SharedTypes
  <2>. QED
    BY <1>1, <2>1, <2>2 DEF Inv, ErrorsArrive, Left, Failed
<1>4. Ticking'
  BY <1>1 DEF Inv, Ticking
<1>. QED
  BY <1>2, <1>3, <1>4 DEF Ending

\* stop(error).
LEMMA EndingStopCall ==
    ASSUME Inv, Types', MarketTypes', ReadsInitial \/ TickDecides \/ PostedStop
    PROVE  Ending'
<1>1. /\ \/ /\ market' = "publish" /\ market_stopping' = TRUE /\ manager'.stopping
            /\ after' = IF ReadsInitial THEN "tick" ELSE IF TickDecides THEN "tick_check" ELSE "io"
            /\ \/ manager'.terminal /\ book' = "Invalid" /\ Failed
               \/ /\ ~PostedStop /\ (ReadsInitial => ~Failed)
                  /\ manager'.terminal <=> manager.terminal
                  /\ book' = IF manager.stopping THEN book ELSE "Disconnected"
         \/ /\ ~PostedStop /\ (ReadsInitial => ~Failed)
            /\ market' = IF ReadsInitial THEN "set_running" ELSE "tick_check"
            /\ UNCHANGED <<after, market_stopping, manager, book, closed>>
      /\ UNCHANGED <<status, writer_ready, writer_done, market_done, post_registered, writer,
                     current, tick_armed, received, pushed, messages, main, manifest>>
      /\ market = IF ReadsInitial THEN "initial" ELSE IF TickDecides THEN "tick_decide" ELSE "io"
      /\ IF PostedStop THEN posted > 0 /\ posted' = posted - 1 ELSE posted' = posted
  BY StopCalled DEF Inv
<1>2. Failed' <=> Failed
  BY <1>1 DEF Failed
<1>3. Stopping'
  BY <1>1, <1>2 DEF Inv, Stopping, Left, MarketTypes
<1>4. ErrorsArrive'
  BY <1>1, <1>2 DEF Inv, ErrorsArrive, Left, Types, SharedTypes
<1>5. Ticking'
  BY <1>1 DEF Inv, Ticking
<1>6. Reported'
  BY <1>1, <1>2 DEF Inv, Reported
<1>. QED
  BY <1>3, <1>4, <1>5, <1>6 DEF Ending

\* The steps that store into the status without an error.
LEMMA EndingStores ==
    ASSUME Inv, Types', MarketTypes', SetsRunning \/ TickChecks \/ Publishes \/ MessageProcessed
    PROVE  Ending'
<1>1. /\ status'.fatal_error = status.fatal_error
      /\ status'.received = IF MessageProcessed THEN received ELSE status.received
      /\ status'.book_state = IF MessageProcessed THEN book' ELSE IF Publishes THEN book
                              ELSE status.book_state
  BY StatusStored DEF Inv
<1>2. UNCHANGED <<market_stopping, current, posted, received, pushed, post_registered, writer_done, writer>>
  BY DEF SetsRunning, TickChecks, Publishes, MessageProcessed, ioVars, feedVars, MarketLocal, writerVars
<1>3. Failed' <=> Failed
  BY <1>1 DEF Failed
<1>4. CASE SetsRunning
  <2>1. /\ market = "set_running" /\ market' = "tick" /\ manager'.stopping = FALSE
        /\ manager'.terminal = FALSE
    BY <1>4 DEF SetsRunning, MarketStep, Inv, BeforeStart
  <2>2. ~MessageProcessed /\ ~Publishes
    BY <2>1 DEF MessageProcessed, Publishes, MarketStep
  <2>. QED
    BY <1>1, <1>2, <1>3, <2>1, <2>2 DEF Ending, Inv, BeforeStart, Stopping, ErrorsArrive, Ticking, Reported, Left
<1>5. CASE TickChecks
  <2>1. /\ market = "tick_check" /\ UNCHANGED <<manager, book>>
        /\ \/ market' = "io" /\ market_stopping /\ writer_done
           \/ market' = "publish" /\ after' = "io" /\ tick_armed' = TRUE
    BY <1>5 DEF TickChecks, feedVars
  <2>2. ~MessageProcessed /\ ~Publishes
    BY <2>1 DEF MessageProcessed, Publishes, MarketStep
  <2>. QED
    BY <1>1, <1>2, <1>3, <2>1, <2>2 DEF Ending, Inv, Stopping, ErrorsArrive, Ticking, Reported, Left
<1>6. CASE Publishes
  <2>1. market = "publish" /\ market' = after /\ UNCHANGED <<manager, book, after, tick_armed>>
    BY <1>6 DEF Publishes, feedVars, ioVars
  <2>2. ~MessageProcessed
    BY <2>1 DEF MessageProcessed, MarketStep
  <2>. QED
    BY <1>1, <1>2, <1>3, <1>6, <2>1, <2>2
       DEF Ending, Inv, MarketTypes, Stopping, ErrorsArrive, Ticking, Reported, Left
<1>7. CASE MessageProcessed
  <2>1. market = "handle" /\ market' = "io" /\ pushed = "Accepted" /\ UNCHANGED <<manager, tick_armed>>
    BY <1>7 DEF MessageProcessed, MarketStep, ioVars
  <2>. QED
    BY <1>1, <1>2, <1>3, <1>7, <2>1 DEF Ending, Inv, Stopping, ErrorsArrive, Ticking, Reported, Left
<1>. QED
  BY <1>4, <1>5, <1>6, <1>7

\* The steps that store an error.
LEMMA EndingErrors ==
    ASSUME Inv, Types', MarketTypes', MessageRefused \/ CatchStores
    PROVE  Ending'
<1>1. /\ Failed' /\ status'.book_state = "Invalid"
      /\ status'.received = IF MessageRefused THEN received ELSE status.received
  BY ErrorStored DEF Inv
<1>2. UNCHANGED <<market_stopping, current, posted, received, pushed, post_registered, writer_done,
                  writer, tick_armed>>
  BY DEF MessageRefused, CatchStores, ioVars, feedVars, MarketLocal, writerVars
<1>3. CASE MessageRefused
  <2>1. /\ market = "handle" /\ market' = "io" /\ manager'.stopping /\ manager'.terminal
        /\ book' = "Invalid"
    BY <1>3 DEF MessageRefused, MarketStep
  <2>. QED
    BY <1>1, <1>2, <1>3, <2>1 DEF Ending, Inv, Stopping, ErrorsArrive, Ticking, Reported, Left
<1>4. CASE CatchStores
  <2>1. market = "caught" /\ market' = "close" /\ UNCHANGED <<manager, book>>
    BY <1>4 DEF CatchStores, MarketStep, feedVars
  <2>2. ~MessageRefused
    BY <2>1 DEF MessageRefused, MarketStep
  <2>. QED
    BY <1>1, <1>2, <2>1, <2>2 DEF Ending, Inv, Stopping, ErrorsArrive, Ticking, Reported, Left
<1>. QED
  BY <1>3, <1>4

\* The other steps leave the status alone.
LEMMA EndingOthers ==
    ASSUME Inv, Types', MarketTypes',
           \/ RegistersPost \/ TickCopies \/ IoRunReturns \/ ClearsPost \/ MarketClosesQueue \/ MarketDone
           \/ TickFires \/ FeedMoves \/ MarketThrows \/ MarketNotCreated
           \/ \E size \in Sizes : MessagePushed(size)
    PROVE  Ending'
<1>. USE DEF MarketStep, MarketLocal
<1>1. UNCHANGED <<status, writer_done, writer>>
  BY DEF RegistersPost, TickCopies, IoRunReturns, ClearsPost, MarketClosesQueue, MarketDone, TickFires,
         FeedMoves, MarketThrows, MarketNotCreated, MessagePushed, sharedVars, writerVars
<1>2. Failed' <=> Failed
  BY <1>1 DEF Failed
<1>. USE DEF Ending, Inv, Stopping, ErrorsArrive, Ticking, Reported, Left
<1>3. CASE RegistersPost \/ TickCopies \/ TickFires
  BY <1>1, <1>2, <1>3 DEF RegistersPost, TickCopies, TickFires, feedVars, ioVars, sharedVars, Failed
<1>4. CASE IoRunReturns
  BY <1>1, <1>2, <1>4 DEF IoRunReturns, feedVars, ioVars, sharedVars
<1>5. CASE ClearsPost
  <2>1. /\ market = "clear_post" /\ market' = "close" /\ post_registered' = FALSE
        /\ UNCHANGED <<after, market_stopping, current, tick_armed, posted, manager, book, received, pushed>>
    BY <1>5 DEF ClearsPost, feedVars, ioVars
  <2>2. writer = "exited"
    <3>1. PICK a \in Nat : WriterLog(a)
      BY DEF Recorded
    <3>. QED
      BY <2>1, <3>1 DEF WriterLog, Flags
  <2>3. manager.stopping /\ posted = 0 /\ status.book_state = book
    BY <2>1
  <2>4. IF Failed THEN book = "Invalid" ELSE book = "Disconnected"
    BY <2>1, <2>3
  <2>. QED
    BY <1>1, <1>2, <2>1, <2>2, <2>3, <2>4
<1>6. CASE MarketClosesQueue \/ MarketDone
  BY <1>1, <1>2, <1>6 DEF MarketClosesQueue, MarketDone, feedVars, ioVars, sharedVars
<1>7. CASE FeedMoves
  BY <1>1, <1>2, <1>7 DEF FeedMoves, ioVars, sharedVars
<1>8. CASE MarketThrows
  <2>1. manager'.stopping = TRUE /\ manager'.terminal = manager.terminal
    BY <1>8 DEF MarketThrows, MarketTypes
  <2>. QED
    BY <1>1, <1>2, <1>8, <2>1 DEF MarketThrows
<1>9. ASSUME NEW size \in Sizes, MessagePushed(size) PROVE Ending'
  <2>1. received \in Nat
    BY DEF MarketTypes
  <2>. QED
    BY <1>1, <1>2, <1>9, <2>1 DEF MessagePushed, ioVars, sharedVars
<1>10. CASE MarketNotCreated
  BY <1>1, <1>2, <1>10 DEF MarketNotCreated, feedVars, ioVars, sharedVars
<1>. QED
  BY <1>3, <1>4, <1>5, <1>6, <1>7, <1>8, <1>9, <1>10

\* Every step.
LEMMA EndingStep ==
    ASSUME Inv, Types', MarketTypes', Next
    PROVE  Ending'
<1>1. CASE SignalStop \/ Exited
  <2>1. UNCHANGED <<status, writer, writer_done, market, after, market_stopping, current, tick_armed,
                    posted, post_registered, manager, book, received, pushed>>
    BY <1>1 DEF SignalStop, Exited, vars, sharedVars, writerVars, marketVars, ioVars, feedVars
  <2>. QED
    BY <2>1 DEF Inv, Ending, Stopping, ErrorsArrive, Ticking, Reported, Left, Failed
<1>2. CASE Main
  <2>1. UNCHANGED <<writer, writer_done, market, after, market_stopping, current, tick_armed,
                    posted, post_registered, manager, book, received, pushed>>
    BY <1>2, MainFrame
  <2>2. /\ status'.fatal_error = status.fatal_error /\ status'.received = status.received
        /\ status'.book_state = status.book_state
    <3>1. CASE MainJoins
      <4>1. ~MessageProcessed /\ ~Publishes
        BY <3>1 DEF MainJoins, MessageProcessed, Publishes, MarketStep
      <4>. QED
        BY <3>1, <4>1, StatusStored DEF Inv
    <3>2. CASE Finalizes \/ Unwinds
      BY <3>2 DEF Finalizes, Unwinds
    <3>. QED
      BY <1>2, <3>1, <3>2 DEF Main
  <2>. QED
    BY <2>1, <2>2 DEF Inv, Ending, Stopping, ErrorsArrive, Ticking, Reported, Left, Failed
<1>. QED
  BY <1>1, <1>2, EndingWriter, EndingStopCall, EndingStores, EndingErrors, EndingOthers
     DEF Next, MarketProgress, MarketEnvironment

-----------------------------------------------------------------------------
(***************************************************************************)
(* The runtime state and the main thread.                                  *)
(***************************************************************************)
\* FatalMatchesState as implications.
StateAgrees(s) ==
    /\ s.fatal_error \in {"RecordingError", "Closed"} => s.runtime_state = "StoppedRecordingError"
    /\ s.fatal_error = "Full" => s.runtime_state = "StoppedQueueFull"
    /\ s.fatal_error = "ProcessingError" => s.runtime_state = "StoppedProcessingError"
    /\ s.fatal_error = NoError => s.runtime_state \in {"Starting", "Running", "Stopping", "Stopped"}

\* The cases of FatalMatchesState are those of StateAgrees.
LEMMA FatalCases ==
    ASSUME NEW s \in Statuses
    PROVE  (CASE s.fatal_error \in {"RecordingError", "Closed"} -> s.runtime_state = "StoppedRecordingError"
              [] s.fatal_error = "Full" -> s.runtime_state = "StoppedQueueFull"
              [] s.fatal_error = "ProcessingError" -> s.runtime_state = "StoppedProcessingError"
              [] OTHER -> s.runtime_state \in {"Starting", "Running", "Stopping", "Stopped"})
           <=> StateAgrees(s)
  BY DEF Statuses, Failures, NoError, StateAgrees

\* Running and Stopping are stored only while there is no error.
LEMMA FatalStep ==
    ASSUME Inv, Types', MarketTypes', Next
    PROVE  FatalMatchesState'
<1>0. status \in Statuses /\ status' \in Statuses
  BY DEF Inv, Types, SharedTypes
<1>1. StateAgrees(status)
  BY <1>0, FatalCases DEF Inv, FatalMatchesState
<1>2. SUFFICES StateAgrees(status')
  BY <1>0, FatalCases DEF FatalMatchesState
<1>3. CASE UNCHANGED <<status.fatal_error, status.runtime_state>>
  BY <1>1, <1>3 DEF StateAgrees
<1>4. CASE Writer
  <2>1. \/ UNCHANGED <<status.fatal_error, status.runtime_state>>
        \/ status'.fatal_error = "RecordingError" /\ status'.runtime_state = "StoppedRecordingError"
    BY <1>4, WriterEffect DEF Inv
  <2>. QED
    BY <1>3, <2>1 DEF StateAgrees, NoError
<1>5. CASE SetsRunning \/ TickChecks \/ Publishes \/ MessageProcessed \/ MainJoins
  <2>1. SetsRunning => ~Failed
    BY DEF SetsRunning, MarketStep, Inv, BeforeStart
  <2>2. \/ UNCHANGED <<status.fatal_error, status.runtime_state>>
        \/ /\ ~Failed /\ status'.fatal_error = status.fatal_error
           /\ status'.runtime_state \in {"Running", "Stopping", "Stopped"}
    BY <1>5, <2>1, StatusStored DEF Inv
  <2>. QED
    BY <1>3, <2>2 DEF StateAgrees, Failed, NoError
<1>6. CASE MessageRefused
  <2>1. pushed \in {"Full", "Closed"}
    BY <1>6 DEF MessageRefused, Inv, MarketTypes
  <2>2. \/ UNCHANGED <<status.fatal_error, status.runtime_state>>
        \/ /\ status'.fatal_error = pushed
           /\ status'.runtime_state = IF pushed = "Full" THEN "StoppedQueueFull" ELSE "StoppedRecordingError"
    BY <1>6, ErrorStored DEF Inv
  <2>. QED
    BY <1>3, <2>1, <2>2 DEF StateAgrees, NoError
<1>7. CASE CatchStores
  <2>1. ~MessageRefused
    BY <1>7 DEF CatchStores, MessageRefused, MarketStep
  <2>2. \/ UNCHANGED <<status.fatal_error, status.runtime_state>>
        \/ /\ status'.fatal_error = "ProcessingError"
           /\ status'.runtime_state = "StoppedProcessingError"
    BY <1>7, <2>1, ErrorStored DEF Inv
  <2>. QED
    BY <1>3, <2>2 DEF StateAgrees, NoError
<1>8. CASE ReadsInitial \/ TickDecides \/ PostedStop
  BY <1>3, <1>8, StopCalled DEF Inv
<1>9. ASSUME ~Writer, ~SetsRunning, ~TickChecks, ~Publishes, ~MessageProcessed, ~MainJoins, ~MessageRefused,
             ~CatchStores, ~ReadsInitial, ~TickDecides, ~PostedStop
      PROVE  status' = status
  BY <1>9 DEF Next, MarketProgress, MarketEnvironment, Main, RegistersPost, TickCopies, IoRunReturns, ClearsPost,
         MarketClosesQueue, MarketDone, TickFires, FeedMoves, MarketThrows, MarketNotCreated, MessagePushed, Finalizes,
         Unwinds, SignalStop, Exited, vars, sharedVars
<1>. QED
  BY <1>3, <1>4, <1>5, <1>6, <1>7, <1>8, <1>9

\* Finalizing: a run without an error has written everything it received.
LEMMA FinalizesTruly ==
    ASSUME Inv, Finalizes
    PROVE  /\ main' = "exited" /\ manifest' = ManifestStatus
           /\ ManifestStatus \in {"complete", "recording_failure", "queue_overflow", "processing_failure"}
           /\ ~Failed <=> ManifestStatus = "complete"
           /\ ~Failed => file = Accepted
<1>0. PICK a \in Nat : a = Accepted /\ WriterLog(a)
  BY DEF Inv, Recorded
<1>1. status \in Statuses /\ StateAgrees(status)
  BY FatalCases DEF Inv, Types, SharedTypes, FatalMatchesState
<1>2. writer = "exited" /\ market = "exited" /\ (~Failed => status.runtime_state = "Stopped")
  BY DEF Inv, Joined, Finalizes
<1>3. status.runtime_state \in FinalStates /\ (Failed => status.runtime_state # "Stopped")
  BY <1>1, <1>2 DEF StateAgrees, FinalStates, Failed, Statuses, Failures
<1>4. ManifestStatus \in {"complete", "recording_failure", "queue_overflow", "processing_failure"}
  BY <1>3 DEF ManifestStatus, FinalStatus, FinalStates
<1>5. ASSUME Failed PROVE ManifestStatus # "complete"
  BY <1>3, <1>5 DEF ManifestStatus, FinalStatus, FinalStates
<1>6. ASSUME ~Failed PROVE ManifestStatus = "complete" /\ file = Accepted
  <2>1. file = a /\ damage = "none" /\ status.written = file
    BY <1>0, <1>2, <1>6 DEF WriterLog, LeavesCleanly, Counted, Inv, Types, WriterTypes
  <2>2. pushed = "Accepted" /\ status.received = received
    BY <1>2, <1>6 DEF Inv, Stopping, Reported
  <2>3. ScanAgrees
    BY <2>1 DEF ScanAgrees, Inv, Types, WriterTypes
  <2>4. status.received = status.written
    BY <1>0, <2>1, <2>2 DEF Accepted
  <2>. QED
    BY <1>0, <1>2, <1>6, <2>1, <2>3, <2>4 DEF ManifestStatus, FinalStatus, Failed
<1>. QED
  BY <1>3, <1>4, <1>5, <1>6 DEF Finalizes

\* The main thread.
LEMMA JoinedStep ==
    ASSUME Inv, Types', MarketTypes', Next
    PROVE  MainTypes' /\ Joined'
<1>1. CASE MainJoins
  <2>1. status'.fatal_error = status.fatal_error /\ (~Failed => status'.runtime_state = "Stopped")
    <3>1. ~SetsRunning /\ ~TickChecks
      BY <1>1 DEF MainJoins, SetsRunning, TickChecks, MarketStep
    <3>. QED
      BY <1>1, <3>1, StatusStored DEF Inv
  <2>. QED
    BY <1>1, <2>1, MainFrame DEF Main, MainJoins, Inv, MainTypes, Joined, Failed
<1>2. CASE Finalizes
  <2>1. UNCHANGED <<market, writer, status>>
    BY <1>2, MainFrame DEF Main, Finalizes
  <2>. QED
    BY <1>2, <2>1, FinalizesTruly DEF Inv, Finalizes, MainTypes, Joined, Failed
<1>3. CASE Unwinds
  <2>1. UNCHANGED <<market, writer, status, manifest>>
    BY <1>3, MainFrame DEF Main, Unwinds
  <2>. QED
    BY <1>3, <2>1 DEF Inv, Unwinds, MainTypes, Joined, Failed
<1>4. CASE MarketNotCreated
  BY <1>4 DEF MarketNotCreated, MarketStep, sharedVars, writerVars, Inv, MainTypes, Joined, Failed
<1>5. ASSUME ~Main, ~MarketNotCreated PROVE main' = main /\ manifest' = manifest
  <2>1. CASE MarketProgress
    BY <2>1 DEF MarketProgress, RegistersPost, ReadsInitial, SetsRunning, TickCopies, TickDecides,
                TickChecks, Publishes, MessageProcessed, MessageRefused, IoRunReturns, ClearsPost,
                CatchStores, MarketClosesQueue, MarketDone, MarketLocal, mainVars
  <2>2. CASE ~MarketProgress
    BY <1>5, <2>2 DEF Next, Writer, MarketEnvironment, TickFires, PostedStop, FeedMoves, MarketThrows, MessagePushed,
                SignalStop, Exited, vars, MarketLocal, mainVars
  <2>. QED
    BY <2>1, <2>2
<1>6. ASSUME ~Main, ~MarketNotCreated, main # "wait"
      PROVE  market' = market /\ (writer = "exited" => UNCHANGED <<writer, status>>)
  <2>0. market \in {"exited", "not_created"}
    BY <1>6 DEF Inv, Joined, MainTypes
  <2>1. Writer => market' = market /\ writer # "exited"
    BY WriterEffect DEF Inv
  <2>2. ~MarketProgress
    BY <2>0 DEF MarketProgress, RegistersPost, ReadsInitial, SetsRunning, TickCopies, TickDecides,
                TickChecks, Publishes, MessageProcessed, MessageRefused, IoRunReturns, ClearsPost,
                CatchStores, MarketClosesQueue, MarketDone, MarketStep
  <2>3. ~(TickFires \/ PostedStop \/ MarketEnvironment)
    BY <2>0 DEF TickFires, PostedStop, MarketEnvironment, FeedMoves, MarketThrows, MessagePushed, MarketStep
  <2>. QED
    BY <1>6, <2>1, <2>2, <2>3 DEF Next, SignalStop, Exited, vars, sharedVars, writerVars, marketVars
<1>7. CASE ~Main /\ ~MarketNotCreated
  <2>1. main = "wait" => market' # "not_created"
    <3>1. market # "not_created" \/ main # "wait"
      BY DEF Inv, Joined
    <3>2. CASE Writer \/ SignalStop \/ Exited
      BY <3>1, <3>2, WriterEffect DEF Inv, SignalStop, Exited, vars, marketVars
    <3>3. CASE ReadsInitial \/ TickDecides \/ PostedStop
      BY <3>3, StopCalled DEF Inv
    <3>4. CASE ~(Writer \/ SignalStop \/ Exited \/ ReadsInitial \/ TickDecides \/ PostedStop)
      BY <1>7, <3>4 DEF Next, MarketProgress, MarketEnvironment, RegistersPost, SetsRunning, TickCopies,
          TickChecks, Publishes, MessageProcessed, MessageRefused, IoRunReturns, ClearsPost, CatchStores,
          MarketClosesQueue, MarketDone, TickFires, FeedMoves, MarketThrows, MessagePushed, MarketStep,
          Inv, MarketTypes
    <3>. QED
      BY <3>2, <3>3, <3>4
  <2>. QED
    BY <1>5, <1>6, <1>7, <2>1 DEF Inv, MainTypes, Joined, Failed
<1>. QED
  BY <1>1, <1>2, <1>3, <1>4, <1>7 DEF Main

-----------------------------------------------------------------------------
(***************************************************************************)
(* Theorems.                                                               *)
(***************************************************************************)
\* Inv holds in every reachable state, for every size of the queue and any
\* number of messages.
THEOREM RuntimeInvariant == Spec => []Inv
<1>1. Init => Inv
  <2>. SUFFICES ASSUME Init PROVE Inv
    OBVIOUS
  <2>. USE DEF Init, RawWriterInit, QueueInit
  <2>1. Types /\ WriterLog(0)
    BY WriterStarts
  <2>2. MarketTypes /\ MainTypes /\ Accepted = 0
    BY DEF MarketTypes, MainTypes, BookStates, Accepted
  <2>3. BeforeStart /\ Stopping /\ ErrorsArrive /\ Ticking /\ Reported
    BY DEF BeforeStart, Idle, Stopping, ErrorsArrive, Ticking, Reported, Left, Failed
  <2>4. FatalMatchesState /\ Joined
    BY DEF FatalMatchesState, Joined, NoError
  <2>. QED
    BY <2>1, <2>2, <2>3, <2>4 DEF Inv, Recorded
<1>2. Inv /\ [Next]_vars => Inv'
  <2>. SUFFICES ASSUME Inv, [Next]_vars PROVE Inv'
    OBVIOUS
  <2>1. Types' /\ MarketTypes' /\ Recorded'
    BY RecordedStep DEF Inv
  <2>2. CASE Next
    BY <2>1, <2>2, BeforeStartStep, EndingStep, FatalStep, JoinedStep DEF Inv, Ending
  <2>3. CASE UNCHANGED vars
    BY <2>1, <2>3 DEF vars, queue, queueVars, sharedVars, writerVars, marketVars, ioVars, feedVars, mainVars,
         Inv, MainTypes, BeforeStart, Stopping, ErrorsArrive, Ticking, Reported, FatalMatchesState, Joined,
         Left, Idle, Failed
  <2>. QED
    BY <2>2, <2>3
<1>. QED
  BY <1>1, <1>2, PTL DEF Spec

\* Nothing is lost, reordered or miscounted between the threads.
THEOREM QueueExact == Spec => []QueueIsExact
<1>1. Inv => QueueIsExact
  <2>. SUFFICES ASSUME Inv PROVE QueueIsExact
    OBVIOUS
  <2>1. PICK a \in Nat : a = Accepted /\ WriterLog(a)
    BY DEF Inv, Recorded
  <2>. QED
    BY <2>1 DEF WriterLog, InOrder, QueueIsExact, RecordedInOrder
<1>. QED
  BY <1>1, RuntimeInvariant, PTL

\* The runtime state never contradicts the stored error.
THEOREM FatalAgrees == Spec => []FatalMatchesState
<1>1. Inv => FatalMatchesState
  BY DEF Inv
<1>. QED
  BY <1>1, RuntimeInvariant, PTL

\* Book and manifest say how the run ended.
THEOREM ExitConsistent == Spec => []ExitIsConsistent
<1>1. Inv => ExitIsConsistent
  BY DEF Inv, ExitIsConsistent, MainTypes, Joined, Reported, Failed
<1>. QED
  BY <1>1, RuntimeInvariant, PTL

-----------------------------------------------------------------------------
(***************************************************************************)
(* LiveRuntime implements RecordingLog.                                    *)
(***************************************************************************)
\* A step accepts one envelope, makes one durable, gives the verdict, or changes
\* nothing that the log shows.
LEMMA StepLogs ==
    ASSUME Inv, Next
    PROVE  [Log!Next]_(Log!vars)
<1>. USE DEF Log!vars, Log!Next
<1>0. PICK a \in Nat : a = Accepted /\ WriterLog(a)
  BY DEF Inv, Recorded
<1>1. main # "exited" => manifest = "in_progress"
  BY DEF Inv, Joined
<1>2. ASSUME UNCHANGED <<Accepted, file, manifest>> PROVE [Log!Next]_(Log!vars)
  BY <1>2
<1>3. CASE Writer
  <2>1. UNCHANGED <<Accepted, main, manifest>> /\ main # "exited"
    BY <1>3, AcceptedKept, WriterEffect DEF Inv, Joined
  <2>2. CASE WriterAppends
    <3>1. writer = "append" /\ file' = file + 1
      BY <2>2 DEF WriterAppends, WriterStep
    <3>2. file < Accepted
      BY <1>0, <3>1 DEF WriterLog, InOrder, Inv, Types, QueueTypes, WriterTypes
    <3>3. Log!Persist
      BY <1>1, <2>1, <3>1, <3>2 DEF Log!Persist
    <3>. QED
      BY <3>3
  <2>3. CASE ~WriterAppends
    <3>1. file' = file
      BY <1>3, <2>3 DEF Writer, WriterThread, WriterOpens, WriterReady, WriterPops, AppendFails,
                  WriterCounts, WriterDrained, WriterCloses, RecordingFailed, WriterClosesQueue, WriterDone
    <3>. QED
      BY <1>2, <2>1, <3>1
  <2>. QED
    BY <2>2, <2>3
<1>4. ASSUME NEW size \in Sizes, MessagePushed(size) PROVE [Log!Next]_(Log!vars)
  <2>1. /\ market = "io" /\ ~manager.stopping /\ received \in Nat /\ received' = received + 1
        /\ UNCHANGED <<file, main, manifest>> /\ pushed' = PushResult(size)
    BY <1>4 DEF MessagePushed, MarketStep, MarketLocal, writerVars, mainVars, Inv, MarketTypes
  <2>2. pushed = "Accepted" /\ main = "wait"
    BY <2>1 DEF Inv, Stopping, Joined, MainTypes
  <2>3. CASE pushed' = "Accepted"
    <3>1. Log!Accept
      BY <1>1, <2>1, <2>2, <2>3 DEF Log!Accept, Accepted
    <3>. QED
      BY <3>1
  <2>4. CASE pushed' # "Accepted"
    BY <1>2, <2>1, <2>2, <2>4 DEF Accepted
  <2>. QED
    BY <2>3, <2>4
<1>5. CASE Finalizes
  <2>1. UNCHANGED <<Accepted, file>> /\ main = "finalize"
    BY <1>5, MainFrame DEF Main, Finalizes, Accepted
  <2>2. /\ manifest' \in {"complete", "recording_failure", "queue_overflow", "processing_failure"}
        /\ manifest' = "complete" => file = Accepted
    BY <1>5, FinalizesTruly
  <2>3. CASE manifest' = "complete"
    <3>1. Log!Complete
      BY <1>1, <2>1, <2>2, <2>3 DEF Log!Complete
    <3>. QED
      BY <3>1
  <2>4. CASE manifest' # "complete"
    <3>1. Log!Fail
      BY <1>1, <2>1, <2>2, <2>4 DEF Log!Fail
    <3>. QED
      BY <3>1
  <2>. QED
    BY <2>3, <2>4
<1>6. CASE MarketQuiet /\ ~Finalizes
  <2>1. UNCHANGED <<Accepted, file>>
    <3>1. MarketTypes'
      BY <1>6, RecordedStep DEF Inv, Next
    <3>. QED
      BY <1>6, <3>1, AcceptedKept, MarketIsQuiet DEF Inv, Quiet, writerVars
  <2>2. manifest' = manifest
    BY <1>6 DEF MarketQuiet, MarketProgress, RegistersPost, ReadsInitial, SetsRunning, TickCopies, TickDecides,
                TickChecks, Publishes, MessageProcessed, MessageRefused, IoRunReturns, ClearsPost,
                CatchStores, MarketClosesQueue, MarketDone, TickFires, PostedStop, FeedMoves, MarketThrows,
                Main, MainJoins, Unwinds, MarketNotCreated, SignalStop, MarketLocal, mainVars
  <2>. QED
    BY <1>2, <2>1, <2>2
<1>7. CASE Exited
  BY <1>2, <1>7 DEF Exited, vars, writerVars, marketVars, feedVars, mainVars, Accepted
<1>. QED
  BY <1>3, <1>4, <1>5, <1>6, <1>7 DEF Next, MarketQuiet, MarketEnvironment

\* The run is a recording: what is accepted becomes durable in order, and the
\* manifest says complete only when all of it is durable.
THEOREM RuntimeRefinesLog == Spec => RefinesLog
<1>1. Init => Log!Init
  BY DEF Init, RawWriterInit, Log!Init, Accepted
<1>2. Inv /\ [Next]_vars => [Log!Next]_(Log!vars)
  <2>1. ASSUME Inv, UNCHANGED vars PROVE UNCHANGED Log!vars
    BY <2>1 DEF vars, writerVars, marketVars, feedVars, mainVars, Accepted, Log!vars
  <2>. QED
    BY <2>1, StepLogs
<1>. QED
  BY <1>1, <1>2, RuntimeInvariant, PTL DEF Spec, RefinesLog, Log!Spec
=============================================================================

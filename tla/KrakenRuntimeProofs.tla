------------------------ MODULE KrakenRuntimeProofs ------------------------
(***************************************************************************)
(* Proofs about KrakenRuntime: what a Kraken run reports of itself is      *)
(* true, and the run implements RecordingLog.                              *)
(***************************************************************************)
EXTENDS KrakenRuntime, RawWriterProofs

-----------------------------------------------------------------------------
(***************************************************************************)
(* The inductive invariant.                                                *)
(***************************************************************************)
MarketTypes ==
    /\ kraken_stop \in BOOLEAN /\ market_done \in BOOLEAN
    /\ stopping \in BOOLEAN /\ tick_armed \in BOOLEAN
    /\ market \in {"setup", "initial", "set_running", "tick", "tick_decide", "publish", "io", "count",
                   "process", "recover", "caught", "close", "finish", "exited", "not_created"}
    /\ after \in {"tick", "io", "recover", "close"}
    /\ book \in BookStates
    /\ index \in Nat /\ pushed \in {"Accepted", "Full", "Closed"}

MainTypes ==
    /\ main \in {"wait", "finalize", "exited", "unwind", "unwound"}
    /\ manifest \in {"in_progress", "complete", "recording_failure", "queue_overflow",
                     "processing_failure"}

\* Accepted counts the envelopes of the writer's invariant.
Recorded == \E a \in Nat : a = Accepted /\ WriterLog(a)

\* Until the first connection nothing has been pushed.
BeforeStart ==
    /\ market \in {"setup", "initial", "set_running"} => Idle
    /\ market = "initial" => writer_ready \/ writer_done
    /\ market = "set_running" => writer_ready /\ ~Failed

\* The next record index is the count of accepted envelopes, and nothing else has
\* been received unless there is an error.
Indexed ==
    /\ market \notin {"process", "caught", "close", "finish", "exited"} => index = status.enqueued
    /\ market = "process" => index + 1 = status.enqueued
    /\ ~Failed => status.received = status.enqueued

\* The queue is closed by a failed writer, by stop(), or at the end: a refusal that
\* is not for lack of room comes after an error.
ClosedLast ==
    /\ closed => stopping \/ Failed \/ market \in {"finish", "exited", "not_created"}
    /\ market = "count" /\ pushed = "Closed" => Failed
    /\ status.fatal_error = "Full" => pushed = "Full" /\ stopping
    /\ status.fatal_error # "Closed"

\* The main thread runs alone once it has joined the others, or with the writer when
\* there is no market thread.
Joined ==
    /\ main \in {"finalize", "exited"} => market = "exited" /\ writer = "exited"
    /\ main \in {"finalize", "exited"} /\ ~Failed => status.runtime_state = "Stopped"
    /\ main \in {"unwind", "unwound"} <=> market = "not_created"
    /\ main = "unwound" => writer = "exited"
    /\ manifest # "in_progress" <=> main = "exited"
    /\ main = "exited" => (~Failed <=> manifest = "complete")

Inv ==
    /\ Types /\ MarketTypes /\ MainTypes /\ Recorded /\ BeforeStart /\ Indexed /\ ClosedLast
    /\ FatalMatchesState /\ Joined

-----------------------------------------------------------------------------
(***************************************************************************)
(* The steps, one by one.                                                  *)
(***************************************************************************)
\* The steps of the market and main threads that push nothing.
MarketQuiet ==
    \/ MarketProgress \/ TickFires \/ Recovers \/ MarketThrows \/ Main
    \/ MarketNotCreated \/ StopRequested

\* The main thread changes nothing the others own but the runtime state.
LEMMA MainFrame ==
    ASSUME Main
    PROVE  UNCHANGED <<kraken_stop, market_done, market, after, stopping, tick_armed, book, index, pushed,
                       messages, bytes, closed, writer_ready, writer_done, post_registered, posted,
                       writer, in_hand, file, damage>>
  BY DEF Main, MainJoins, Finalizes, Unwinds, MainLocal, queue, queueVars, writerVars, marketVars

\* The market thread keeps its types.
LEMMA MarketTyped ==
    ASSUME Types, MarketTypes, [Next]_vars
    PROVE  MarketTypes'
<1>. USE DEF MarketStep, MarketLocal, MarketTypes
<1>1. CASE AwaitsWriter \/ ReadsInitial \/ MarketClosesQueue \/ MarketDone \/ CatchStores
  BY <1>1 DEF AwaitsWriter, ReadsInitial, Stop, MarketClosesQueue, MarketDone, CatchStores
<1>2. CASE SetsRunning
  BY <1>2 DEF SetsRunning, BookStates
<1>3. CASE TickInvalidates
  BY <1>3 DEF TickInvalidates, BookStates
<1>4. CASE TickDecides
  BY <1>4 DEF TickDecides, Stop, BookStates
<1>5. CASE Publishes
  BY <1>5 DEF Publishes
<1>6. CASE MessageCounted \/ IoRunReturns \/ MarketThrows \/ TickFires \/ MarketNotCreated
  BY <1>6 DEF MessageCounted, IoRunReturns, MarketThrows, TickFires, MarketNotCreated
<1>7. CASE MessageRefused
  BY <1>7 DEF MessageRefused, Stop, BookStates
<1>8. CASE MessageProcessed
  BY <1>8 DEF MessageProcessed, BookStates
<1>9. CASE Recovers
  BY <1>9 DEF Recovers, BookStates
<1>10. ASSUME NEW size \in Sizes, MessagePushed(size) PROVE MarketTypes'
  BY <1>10 DEF MessagePushed, PushResult
<1>11. CASE Writer
  BY <1>11 DEF Writer, marketVars
<1>12. CASE StopRequested
  BY <1>12 DEF StopRequested, marketVars
<1>13. CASE Main
  <2>. USE <1>13, MainFrame
  <2>. QED
    OBVIOUS
<1>14. CASE UNCHANGED vars
  BY <1>14 DEF vars, marketVars
<1>. QED
  BY <1>1, <1>2, <1>3, <1>4, <1>5, <1>6, <1>7, <1>8, <1>9, <1>10, <1>11, <1>12, <1>13, <1>14
     DEF Next, MarketProgress, MarketEnvironment, Exited

\* What the market and main threads store into the status.
LEMMA StatusStored ==
    ASSUME Types, MarketTypes, MarketTypes', MarketQuiet
    PROVE  /\ status' \in Statuses /\ status'.written = status.written
           /\ status'.enqueued = IF MessageCounted THEN status.enqueued + 1 ELSE status.enqueued
           /\ status'.received = IF MessageCounted \/ MessageRefused THEN status.received + 1
                                                                     ELSE status.received
           /\ \/ /\ status'.fatal_error = status.fatal_error
                 /\ \/ status'.runtime_state = status.runtime_state /\ ~SetsRunning
                       /\ (MainJoins => Failed) /\ (MessageRefused => Failed)
                    \/ SetsRunning /\ status'.runtime_state = "Running"
                    \/ MainJoins /\ ~Failed /\ status'.runtime_state = "Stopped"
              \/ /\ MessageRefused /\ ~Failed /\ status'.fatal_error = "Full"
                 /\ status'.runtime_state = "StoppedQueueFull"
              \/ /\ CatchStores /\ status'.fatal_error = "ProcessingError"
                 /\ status'.runtime_state = "StoppedProcessingError"
<1>0. status \in Statuses
  BY DEF Types, SharedTypes
<1>. USE DEF MarketStep
<1>1. CASE SetsRunning
  <2>1. ~MessageCounted /\ ~MessageRefused
    BY <1>1 DEF SetsRunning, MessageCounted, MessageRefused
  <2>. QED
    BY <1>0, <1>1, <2>1 DEF SetsRunning, Statuses
<1>2. CASE Publishes
  <2>1. ~MessageCounted /\ ~MessageRefused /\ ~SetsRunning /\ ~MainJoins
    BY <1>2 DEF SetsRunning, MessageCounted, MessageRefused, Publishes, MainJoins
  <2>. QED
    BY <1>0, <1>2, <2>1 DEF Publishes, Statuses, MarketTypes
<1>3. CASE MessageCounted
  <2>1. ~MessageRefused /\ ~SetsRunning /\ ~MainJoins
    BY <1>3 DEF SetsRunning, MessageCounted, MessageRefused, MainJoins
  <2>2. status' \in Statuses
    <3>1. status.received + 1 \in Nat /\ status.enqueued + 1 \in Nat
      BY <1>0 DEF Statuses
    <3>2. status' = [status EXCEPT !.received = status.received + 1, !.enqueued = status.enqueued + 1]
      BY <1>3 DEF MessageCounted
    <3>. QED
      BY <1>0, <3>1, <3>2 DEF Statuses
  <2>3. /\ status'.received = status.received + 1 /\ status'.enqueued = status.enqueued + 1
        /\ status'.written = status.written /\ status'.fatal_error = status.fatal_error
        /\ status'.runtime_state = status.runtime_state
    BY <1>0, <1>3 DEF MessageCounted, Statuses
  <2>. QED
    BY <1>3, <2>1, <2>2, <2>3
<1>4. CASE MessageProcessed
  <2>1. ~MessageCounted /\ ~MessageRefused /\ ~SetsRunning /\ ~MainJoins
    BY <1>4 DEF SetsRunning, MessageCounted, MessageRefused, MessageProcessed, MainJoins
  <2>. QED
    BY <1>0, <1>4, <2>1 DEF MessageProcessed, Statuses, MarketTypes
<1>5. CASE MessageRefused
  <2>. DEFINE s == [status EXCEPT !.received = @ + 1]
  <2>1. /\ s \in Statuses /\ s.fatal_error = status.fatal_error /\ s.written = status.written
        /\ s.received = status.received + 1 /\ s.enqueued = status.enqueued
        /\ s.runtime_state = status.runtime_state
    BY <1>0 DEF Statuses
  <2>2. status' = WithFatal(s, "Full", "StoppedQueueFull")
    BY <1>5 DEF MessageRefused
  <2>. HIDE DEF s
  <2>3. /\ status' \in Statuses
        /\ s.fatal_error # NoError => status' = s
        /\ s.fatal_error = NoError => status'.fatal_error = "Full" /\ status'.runtime_state = "StoppedQueueFull"
        /\ status'.received = s.received /\ status'.written = s.written /\ status'.enqueued = s.enqueued
    BY <2>1, <2>2, WithFatalKeeps DEF Failures, FinalStates
  <2>4. ~MessageCounted /\ ~SetsRunning /\ ~MainJoins
    BY <1>5 DEF SetsRunning, MessageCounted, MessageRefused, MainJoins
  <2>. QED
    BY <1>5, <2>1, <2>3, <2>4 DEF Failed
<1>6. CASE CatchStores
  <2>1. ~MessageCounted /\ ~MessageRefused
    BY <1>6 DEF CatchStores, MessageCounted, MessageRefused
  <2>. QED
    BY <1>0, <1>6, <2>1 DEF CatchStores, Statuses, Failures, FinalStates, BookStates
<1>7. CASE MainJoins
  <2>1. ~MessageCounted /\ ~MessageRefused /\ ~SetsRunning
    BY <1>7 DEF SetsRunning, MessageCounted, MessageRefused, MainJoins
  <2>. QED
    BY <1>0, <1>7, <2>1 DEF MainJoins, Statuses, FinalStates, Failed
<1>8. ASSUME ~SetsRunning, ~Publishes, ~MessageCounted, ~MessageProcessed, ~MessageRefused, ~CatchStores, ~MainJoins
      PROVE  status' = status
  BY <1>8 DEF MarketQuiet, MarketProgress, AwaitsWriter, ReadsInitial, TickInvalidates, TickDecides, Recovers,
              IoRunReturns, MarketClosesQueue, MarketDone, TickFires, MarketThrows, Main, Finalizes,
              Unwinds, MarketNotCreated, StopRequested, shared
<1>. QED
  BY <1>0, <1>1, <1>2, <1>3, <1>4, <1>5, <1>6, <1>7, <1>8

\* To the writer, every step of the other threads but a push is quiet.
LEMMA MarketIsQuiet ==
    ASSUME Types, MarketTypes, MarketTypes', MarketQuiet
    PROVE  Quiet
<1>1. /\ status' \in Statuses /\ status'.written = status.written /\ (Failed => Failed')
  BY StatusStored DEF Failed, NoError
<1>2. UNCHANGED <<messages, bytes, writer_ready, writer_done, post_registered, posted, writer, in_hand, file, damage>>
      /\ (closed' = closed \/ closed' = TRUE)
  <2>1. CASE Main
    BY <2>1, MainFrame
  <2>2. CASE StopRequested
    BY <2>2 DEF StopRequested, queue, queueVars, shared, writerVars
  <2>3. CASE MarketNotCreated
    BY <2>3 DEF MarketNotCreated, CloseQueue, shared, writerVars
  <2>4. CASE ~Main /\ ~StopRequested /\ ~MarketNotCreated
    <3>1. MarketLocal
      BY <2>4 DEF MarketQuiet, MarketProgress, AwaitsWriter, ReadsInitial, SetsRunning, TickInvalidates, TickDecides,
           Publishes, MessageCounted, MessageRefused, MessageProcessed, Recovers, IoRunReturns, CatchStores,
           MarketClosesQueue, MarketDone, TickFires, MarketThrows
    <3>2. UNCHANGED queue \/ CloseQueue
      BY <2>4 DEF MarketQuiet, MarketProgress, AwaitsWriter, ReadsInitial, SetsRunning, TickInvalidates, TickDecides,
           Publishes, MessageCounted, MessageRefused, MessageProcessed, Recovers, IoRunReturns, CatchStores,
           MarketClosesQueue, MarketDone, TickFires, MarketThrows, Stop
    <3>. QED
      BY <3>1, <3>2 DEF MarketLocal, CloseQueue, queue, queueVars, writerVars
  <2>. QED
    BY <2>1, <2>2, <2>3, <2>4
<1>3. closed' \in BOOLEAN /\ (closed => closed')
  BY <1>2 DEF Types, QueueTypes
<1>. QED
  BY <1>1, <1>2, <1>3 DEF Quiet, Types, SharedTypes, writerVars

\* MessageCounted moves an envelope from in flight to enqueued; no other quiet step
\* changes how many have been accepted.
LEMMA AcceptedKept ==
    ASSUME Types, MarketTypes, MarketTypes', MarketQuiet
    PROVE  UNCHANGED <<Accepted, pushed>>
<1>1. pushed' = pushed
  BY MainFrame DEF MarketQuiet, MarketProgress, AwaitsWriter, ReadsInitial, SetsRunning, TickInvalidates, TickDecides,
     Publishes, MessageCounted, MessageRefused, MessageProcessed, Recovers, IoRunReturns, CatchStores,
     MarketClosesQueue, MarketDone, TickFires, MarketThrows, MarketNotCreated, StopRequested, marketVars
<1>2. status'.enqueued = IF MessageCounted THEN status.enqueued + 1 ELSE status.enqueued
  BY StatusStored
<1>3. status.enqueued \in Nat
  BY DEF Types, SharedTypes, Statuses
<1>4. CASE MessageCounted
  BY <1>1, <1>2, <1>3, <1>4 DEF MessageCounted, MarketStep, Accepted
<1>5. CASE MessageRefused
  <2>1. ~MessageCounted
    BY <1>5 DEF MessageRefused, MessageCounted
  <2>. QED
    BY <1>1, <1>2, <1>5, <2>1 DEF MessageRefused, Accepted
<1>6. CASE ~MessageCounted /\ ~MessageRefused
  <2>1. market' = market \/ (~(market = "count" /\ pushed = "Accepted") /\ market' # "count")
    <3>1. CASE Publishes
      BY <3>1 DEF Publishes, MarketTypes
    <3>2. CASE ~Publishes
      BY <1>6, <3>2, MainFrame DEF MarketQuiet, MarketProgress, AwaitsWriter, ReadsInitial, SetsRunning, TickInvalidates,
         TickDecides, MessageProcessed, Recovers, IoRunReturns, CatchStores,
         MarketClosesQueue, MarketDone, TickFires, MarketThrows, MarketNotCreated, StopRequested, marketVars, MarketStep
    <3>. QED
      BY <3>1, <3>2
  <2>. QED
    BY <1>1, <1>2, <1>6, <2>1 DEF Accepted
<1>. QED
  BY <1>4, <1>5, <1>6, <1>1

\* What a step of the writer means to the other parts.
LEMMA WriterEffect ==
    ASSUME Types, Recorded, Writer
    PROVE  /\ WriterThread
           /\ UNCHANGED <<kraken_stop, market_done, market, after, stopping, tick_armed, book, index, pushed,
                          main, manifest, Accepted>>
           /\ writer # "exited" /\ (writer_ready => writer_ready') /\ ~writer_done
           /\ status'.received = status.received /\ status'.enqueued = status.enqueued
           /\ \/ UNCHANGED <<status.fatal_error, status.runtime_state>>
              \/ /\ ~Failed /\ status'.fatal_error = "RecordingError"
                 /\ status'.runtime_state = "StoppedRecordingError"
           /\ Failed => Failed'
           /\ closed' => closed \/ Failed'
<1>1. PICK a \in Nat : WriterLog(a)
  BY DEF Recorded
<1>2. WriterThread
  BY DEF Writer
<1>3. Failed => Failed'
  BY <1>1, <1>2, WriterKeeps
<1>4. ~writer_done <=> writer # "exited"
  BY <1>1 DEF WriterLog, Flags
<1>5. UNCHANGED <<kraken_stop, market_done, market, after, stopping, tick_armed, book, index, pushed,
                  main, manifest>>
  BY DEF Writer, marketVars, mainVars
<1>6. status'.enqueued = status.enqueued
  BY <1>1, <1>2, WriterReports
<1>7. closed' => closed \/ Failed'
  <2>1. CASE WriterClosesQueue
    BY <1>1, <1>3, <2>1 DEF WriterClosesQueue, WriterStep, WriterLog, LeavesCleanly
  <2>2. CASE ~WriterClosesQueue
    BY <1>2, <2>2 DEF WriterThread, WriterOpens, WriterReady, WriterPops, WriterAppends, AppendFails, WriterCounts,
       WriterDrained, WriterCloses, RecordingFailed, WriterDone, Pop, queue, queueVars
  <2>. QED
    BY <2>1, <2>2
<1>8. Accepted' = Accepted
  BY <1>5, <1>6 DEF Accepted
<1>. QED
  BY <1>1, <1>2, <1>3, <1>4, <1>5, <1>6, <1>7, <1>8, WriterReports

\* The queue, the writer and the types.
LEMMA RecordedStep ==
    ASSUME Types, MarketTypes, Recorded, Indexed, [Next]_vars
    PROVE  Types' /\ MarketTypes' /\ Recorded'
<1>1. PICK a \in Nat : a = Accepted /\ WriterLog(a)
  BY DEF Recorded
<1>2. MarketTypes'
  BY MarketTyped
<1>3. CASE Writer
  <2>1. Types' /\ WriterLog(a)' /\ a = Accepted'
    BY <1>1, <1>3, WriterEffect, WriterTyped, WriterKeeps
  <2>. QED
    BY <1>2, <2>1 DEF Recorded
<1>4. CASE MarketQuiet
  <2>1. Types' /\ WriterLog(a)' /\ a = Accepted'
    BY <1>1, <1>2, <1>4, MarketIsQuiet, FrameKeeps, AcceptedKept
  <2>. QED
    BY <1>2, <2>1 DEF Recorded
<1>5. ASSUME NEW size \in Sizes, MessagePushed(size) PROVE Types' /\ Recorded'
  <2>1. a = index /\ a = status.enqueued
    BY <1>1, <1>5 DEF MessagePushed, MarketStep, Indexed, Accepted, Types, SharedTypes, Statuses
  <2>2. PICK b \in Nat : b = IF PushResult(size) = "Accepted" THEN a + 1 ELSE a
    OBVIOUS
  <2>3. TryPush([index |-> a, size |-> size]) /\ UNCHANGED <<shared, writerVars>>
    BY <1>5, <2>1 DEF MessagePushed, MarketLocal, shared
  <2>4. Types' /\ WriterLog(b)'
    BY <1>1, <2>2, <2>3, PushKeeps
  <2>5. b = Accepted'
    BY <1>5, <2>1, <2>2 DEF MessagePushed, MarketStep, Accepted
  <2>. QED
    BY <2>4, <2>5 DEF Recorded
<1>6. CASE UNCHANGED vars
  <2>1. Quiet
    BY <1>6 DEF vars, queue, queueVars, shared, Quiet, Types, SharedTypes, QueueTypes, Failed
  <2>2. Types' /\ WriterLog(a)'
    BY <1>1, <2>1, FrameKeeps
  <2>3. a = Accepted'
    BY <1>1, <1>6 DEF vars, shared, marketVars, Accepted
  <2>. QED
    BY <1>2, <2>2, <2>3 DEF Recorded
<1>. QED
  BY <1>2, <1>3, <1>4, <1>5, <1>6 DEF Next, MarketQuiet, MarketEnvironment, Exited

\* Nothing happens between the writer's readiness and the first connection.
LEMMA BeforeStartStep ==
    ASSUME Inv, Types', MarketTypes', Next
    PROVE  BeforeStart'
<1>. DEFINE Early == market \in {"setup", "initial", "set_running"}
<1>0. PICK a \in Nat : WriterLog(a)
  BY DEF Inv, Recorded
<1>1. CASE Writer
  <2>1. market' = market /\ (writer_ready => writer_ready') /\ ~writer_done /\ WriterThread
    BY <1>1, WriterEffect DEF Inv
  <2>2. CASE ~Early
    BY <2>1, <2>2 DEF BeforeStart
  <2>3. CASE Early
    <3>1. Idle'
      BY <1>0, <2>1, <2>3, IdleKeeps DEF Inv, BeforeStart
    <3>2. market # "set_running"
      BY <1>0, <2>1, <2>3, IdleWaits DEF Inv, BeforeStart
    <3>. QED
      BY <2>1, <2>3, <3>1, <3>2 DEF Inv, BeforeStart
  <2>. QED
    BY <2>2, <2>3
<1>2. CASE AwaitsWriter
  BY <1>2 DEF AwaitsWriter, MarketStep, MarketLocal, writerVars, queue, queueVars, Inv, BeforeStart, Idle, Failed
<1>3. CASE ReadsInitial
  <2>1. CASE Failed
    BY <1>3, <2>1 DEF ReadsInitial, BeforeStart, Failed
  <2>2. CASE ~Failed
    <3>1. /\ market = "initial" /\ market' = "set_running"
          /\ UNCHANGED <<status, messages, closed, writer, writer_ready, writer_done>>
      BY <1>3, <2>2 DEF ReadsInitial, Failed, MarketLocal, queue, queueVars, writerVars
    <3>2. writer_ready
      BY <1>0, <2>2, <3>1, IdleWaits DEF Inv, BeforeStart, WriterLog, Flags
    <3>. QED
      BY <2>2, <3>1, <3>2 DEF Inv, BeforeStart, Idle, Failed
  <2>. QED
    BY <2>1, <2>2
<1>4. CASE market' \notin {"setup", "initial", "set_running"}
  BY <1>4 DEF BeforeStart
<1>5. CASE Main \/ StopRequested \/ Exited
  <2>1. /\ UNCHANGED <<market, messages, writer, writer_ready, writer_done, closed>>
        /\ StopRequested \/ Exited => status' = status
    BY <1>5, MainFrame DEF StopRequested, Exited, vars, queue, queueVars, shared, writerVars, marketVars
  <2>2. Main => market \in {"exited", "not_created"}
    BY DEF Main, MainJoins, Finalizes, Unwinds, Inv, Joined
  <2>. QED
    BY <1>4, <1>5, <2>1, <2>2 DEF Inv, BeforeStart, Idle, Failed
<1>6. ASSUME ~Writer, ~AwaitsWriter, ~ReadsInitial, ~Main, ~StopRequested, ~Exited
      PROVE  market' \notin {"setup", "initial", "set_running"}
  <2>1. CASE Publishes
    BY <2>1 DEF Publishes, MarketTypes, Inv
  <2>2. CASE ~Publishes
    BY <1>6, <2>2 DEF Next, MarketProgress, MarketEnvironment, SetsRunning, TickInvalidates, TickDecides,
        MessageCounted, MessageProcessed, MessageRefused, Recovers, IoRunReturns, CatchStores, MarketClosesQueue,
        MarketDone, TickFires, MarketThrows, MarketNotCreated, MessagePushed, MarketStep
  <2>. QED
    BY <2>1, <2>2
<1>. QED
  BY <1>1, <1>2, <1>3, <1>4, <1>5, <1>6

\* Indexes are given out one per accepted envelope.
LEMMA IndexedStep ==
    ASSUME Inv, Types', MarketTypes', Next
    PROVE  Indexed'
<1>0. status.enqueued \in Nat /\ status.received \in Nat /\ index \in Nat
  BY DEF Inv, Types, SharedTypes, Statuses, MarketTypes
<1>1. CASE Writer
  BY <1>1, WriterEffect DEF Inv, Indexed
<1>2. ASSUME NEW size \in Sizes, MessagePushed(size) PROVE Indexed'
  BY <1>2 DEF MessagePushed, MarketStep, Inv, Indexed, Failed
<1>3. CASE MarketQuiet
  <2>1. /\ status'.enqueued = IF MessageCounted THEN status.enqueued + 1 ELSE status.enqueued
        /\ status'.received = IF MessageCounted \/ MessageRefused THEN status.received + 1
                                                                  ELSE status.received
        /\ MessageRefused => Failed'
        /\ Failed => Failed'
    <3>1. MessageRefused => ~SetsRunning /\ ~MainJoins
      BY DEF MessageRefused, SetsRunning, MainJoins
    <3>. QED
      BY <1>3, <3>1, StatusStored DEF Inv, Failed, NoError
  <2>2. CASE MessageCounted
    BY <1>0, <2>1, <2>2 DEF MessageCounted, MarketStep, Inv, Indexed
  <2>3. CASE MessageRefused
    <3>1. ~MessageCounted
      BY <2>3 DEF MessageCounted, MessageRefused
    <3>. QED
      BY <2>1, <2>3, <3>1 DEF MessageRefused, Inv, Indexed
  <2>4. CASE MessageProcessed
    <3>1. ~MessageCounted /\ ~MessageRefused
      BY <2>4 DEF MessageCounted, MessageRefused, MessageProcessed, MarketStep
    <3>. QED
      BY <1>0, <2>1, <2>4, <3>1 DEF MessageProcessed, Inv, Indexed
  <2>5. CASE Publishes
    <3>1. ~MessageCounted /\ ~MessageRefused
      BY <2>5 DEF MessageCounted, MessageRefused, Publishes, MarketStep
    <3>. QED
      BY <2>1, <2>5, <3>1 DEF Publishes, Inv, Indexed, MarketTypes
  <2>6. CASE Main \/ StopRequested
    <3>1. ~MessageCounted /\ ~MessageRefused /\ UNCHANGED <<market, index>>
      <4>1. UNCHANGED <<market, index>>
        BY <2>6, MainFrame DEF StopRequested, marketVars
      <4>. QED
        BY <4>1 DEF MessageCounted, MessageRefused, MarketStep
    <3>. QED
      BY <2>1, <3>1 DEF Inv, Indexed
  <2>7. CASE ~MessageCounted /\ ~MessageRefused /\ ~MessageProcessed /\ ~Publishes /\ ~Main /\ ~StopRequested
    <3>1. /\ index' = index /\ market' # "process"
          /\ market' \in {"caught", "close", "finish", "exited"}
             \/ market \notin {"process", "caught", "close", "finish", "exited"}
      BY <1>3, <2>7 DEF MarketQuiet, MarketProgress, AwaitsWriter, ReadsInitial, SetsRunning, TickInvalidates,
         TickDecides, Recovers, IoRunReturns, CatchStores, MarketClosesQueue, MarketDone, TickFires,
         MarketThrows, MarketNotCreated, MarketStep
    <3>. QED
      BY <2>1, <2>7, <3>1 DEF Inv, Indexed
  <2>. QED
    BY <2>2, <2>3, <2>4, <2>5, <2>6, <2>7
<1>4. CASE Exited
  BY <1>4 DEF Exited, vars, shared, marketVars, Inv, Indexed, Failed
<1>. QED
  BY <1>1, <1>2, <1>3, <1>4 DEF Next, MarketQuiet, MarketEnvironment

\* A refused push means a full queue unless there is an error already.
LEMMA ClosedLastStep ==
    ASSUME Inv, Types', MarketTypes', Next
    PROVE  ClosedLast'
<1>1. CASE Writer
  BY <1>1, WriterEffect DEF Inv, ClosedLast
<1>2. ASSUME NEW size \in Sizes, MessagePushed(size) PROVE ClosedLast'
  <2>1. /\ market = "io" /\ market' = "count" /\ ~stopping /\ pushed' = PushResult(size)
        /\ UNCHANGED <<status, stopping>>
    BY <1>2 DEF MessagePushed, MarketStep
  <2>2. closed' = closed
    BY <1>2 DEF MessagePushed, TryPush, queueVars
  <2>3. pushed' = "Closed" => closed
    BY <2>1 DEF PushResult
  <2>. QED
    BY <2>1, <2>2, <2>3 DEF Inv, ClosedLast, Failed
<1>3. CASE MarketQuiet
  <2>1. pushed' = pushed
    BY <1>3, AcceptedKept DEF Inv
  <2>2. /\ Failed => Failed'
        /\ \/ status'.fatal_error = status.fatal_error
           \/ MessageRefused /\ ~Failed /\ status'.fatal_error = "Full"
           \/ status'.fatal_error = "ProcessingError"
    BY <1>3, StatusStored DEF Inv, Failed, NoError
  <2>3. /\ closed' => closed \/ stopping' \/ market' \in {"finish", "exited", "not_created"}
        /\ stopping => stopping'
        /\ market \in {"finish", "exited", "not_created"} => market' \in {"finish", "exited", "not_created"}
        /\ market' = "count" => market = "count"
    <3>1. CASE Main \/ StopRequested
      BY <3>1, MainFrame DEF StopRequested, queue, queueVars, marketVars
    <3>2. CASE Publishes
      BY <3>2 DEF Publishes, queue, queueVars, Inv, MarketTypes
    <3>3. CASE ~Main /\ ~StopRequested /\ ~Publishes
      BY <1>3, <3>3 DEF MarketQuiet, MarketProgress, AwaitsWriter, ReadsInitial, SetsRunning, TickInvalidates,
         TickDecides, MessageCounted, MessageRefused, MessageProcessed, Recovers, IoRunReturns, CatchStores,
         MarketClosesQueue, MarketDone, TickFires, MarketThrows, MarketNotCreated, MarketStep, Stop, queue, queueVars
    <3>. QED
      BY <3>1, <3>2, <3>3
  <2>4. MessageRefused /\ ~Failed => pushed = "Full" /\ stopping'
    BY DEF MessageRefused, Stop, Inv, ClosedLast, MarketTypes
  <2>. QED
    BY <2>1, <2>2, <2>3, <2>4 DEF Inv, ClosedLast
<1>4. CASE Exited
  BY <1>4 DEF Exited, vars, shared, queue, queueVars, marketVars, Inv, ClosedLast, Failed
<1>. QED
  BY <1>1, <1>2, <1>3, <1>4 DEF Next, MarketQuiet, MarketEnvironment

-----------------------------------------------------------------------------
(***************************************************************************)
(* The runtime state and the main thread.                                  *)
(***************************************************************************)
\* FatalMatchesState as implications.
StateAgrees(s) ==
    /\ s.fatal_error = "RecordingError" => s.runtime_state = "StoppedRecordingError"
    /\ s.fatal_error = "Full" => s.runtime_state = "StoppedQueueFull"
    /\ s.fatal_error = "ProcessingError" => s.runtime_state = "StoppedProcessingError"
    /\ s.fatal_error = NoError => s.runtime_state \in {"Starting", "Running", "Stopped"}

\* The cases of FatalMatchesState are those of StateAgrees: no run reports Closed.
LEMMA FatalCases ==
    ASSUME NEW s \in Statuses, s.fatal_error # "Closed"
    PROVE  (CASE s.fatal_error = "RecordingError" -> s.runtime_state = "StoppedRecordingError"
              [] s.fatal_error = "Full" -> s.runtime_state = "StoppedQueueFull"
              [] s.fatal_error = "ProcessingError" -> s.runtime_state = "StoppedProcessingError"
              [] OTHER -> s.runtime_state \in {"Starting", "Running", "Stopped"})
           <=> StateAgrees(s)
  BY DEF Statuses, Failures, NoError, StateAgrees

\* Running is stored only while there is no error.
LEMMA FatalStep ==
    ASSUME Inv, Types', MarketTypes', ClosedLast', Next
    PROVE  FatalMatchesState'
<1>0. status \in Statuses /\ status' \in Statuses
  BY DEF Inv, Types, SharedTypes
<1>1. StateAgrees(status)
  BY <1>0, FatalCases DEF Inv, ClosedLast, FatalMatchesState
<1>2. SUFFICES StateAgrees(status')
  BY <1>0, FatalCases DEF ClosedLast, FatalMatchesState
<1>3. CASE UNCHANGED <<status.fatal_error, status.runtime_state>>
  BY <1>1, <1>3 DEF StateAgrees
<1>4. CASE Writer
  <2>1. \/ UNCHANGED <<status.fatal_error, status.runtime_state>>
        \/ status'.fatal_error = "RecordingError" /\ status'.runtime_state = "StoppedRecordingError"
    BY <1>4, WriterEffect DEF Inv
  <2>. QED
    BY <1>3, <2>1 DEF StateAgrees, NoError
<1>5. CASE MarketQuiet
  <2>1. SetsRunning => ~Failed
    BY DEF SetsRunning, Inv, BeforeStart
  <2>2. \/ UNCHANGED <<status.fatal_error, status.runtime_state>>
        \/ /\ ~Failed /\ status'.fatal_error = status.fatal_error
           /\ status'.runtime_state \in {"Running", "Stopped"}
        \/ status'.fatal_error = "Full" /\ status'.runtime_state = "StoppedQueueFull"
        \/ status'.fatal_error = "ProcessingError" /\ status'.runtime_state = "StoppedProcessingError"
    BY <1>5, <2>1, StatusStored DEF Inv
  <2>. QED
    BY <1>3, <2>2 DEF StateAgrees, Failed, NoError
<1>6. ASSUME ~Writer, ~MarketQuiet PROVE status' = status
  BY <1>6 DEF Next, MarketQuiet, MarketEnvironment, MessagePushed, Exited, vars, shared
<1>. QED
  BY <1>3, <1>4, <1>5, <1>6

\* Finalizing: a run without an error has written everything it received.
LEMMA FinalizesTruly ==
    ASSUME Inv, Finalizes
    PROVE  /\ main' = "exited" /\ manifest' = ManifestStatus
           /\ ManifestStatus \in {"complete", "recording_failure", "queue_overflow", "processing_failure"}
           /\ ~Failed <=> ManifestStatus = "complete"
           /\ ~Failed => file = Accepted
<1>0. PICK a \in Nat : a = Accepted /\ WriterLog(a)
  BY DEF Inv, Recorded
<1>1. status \in Statuses /\ StateAgrees(status) /\ status.fatal_error # "Closed"
  BY FatalCases DEF Inv, Types, SharedTypes, ClosedLast, FatalMatchesState
<1>2. writer = "exited" /\ market = "exited" /\ (~Failed => status.runtime_state = "Stopped")
  BY DEF Inv, Joined, Finalizes
<1>3. status.runtime_state \in FinalStates /\ (Failed => status.runtime_state # "Stopped")
  BY <1>1, <1>2 DEF StateAgrees, FinalStates, Failed, Statuses, Failures
<1>4. ManifestStatus \in {"complete", "recording_failure", "queue_overflow", "processing_failure"}
  BY <1>3 DEF ManifestStatus, FinalStatus, FinalStates
<1>5. ASSUME Failed PROVE ManifestStatus # "complete"
  BY <1>3, <1>5 DEF ManifestStatus, FinalStatus, FinalStates
<1>6. ASSUME ~Failed PROVE ManifestStatus = "complete" /\ file = Accepted
  <2>1. file = a /\ damage = "none" /\ status.written = file
    BY <1>0, <1>2, <1>6 DEF WriterLog, LeavesCleanly, Counted, Inv, Types, WriterTypes
  <2>2. status.received = status.enqueued /\ Accepted = status.enqueued
    BY <1>1, <1>2, <1>6 DEF Inv, Indexed, Accepted, Statuses
  <2>3. ScanAgrees
    BY <2>1 DEF ScanAgrees, Inv, Types, WriterTypes
  <2>. QED
    BY <1>0, <1>2, <1>6, <2>1, <2>2, <2>3 DEF ManifestStatus, FinalStatus, Failed
<1>. QED
  BY <1>3, <1>4, <1>5, <1>6 DEF Finalizes

\* The main thread.
LEMMA JoinedStep ==
    ASSUME Inv, Types', MarketTypes', Next
    PROVE  MainTypes' /\ Joined'
<1>1. CASE MainJoins
  <2>1. status'.fatal_error = status.fatal_error /\ (~Failed => status'.runtime_state = "Stopped")
    BY <1>1 DEF MainJoins, Failed, Inv, Types, SharedTypes, Statuses
  <2>. QED
    BY <1>1, <2>1, MainFrame DEF Main, MainJoins, Inv, MainTypes, Joined, Failed
<1>2. CASE Finalizes
  <2>1. UNCHANGED <<market, writer, status>>
    BY <1>2, MainFrame DEF Main, Finalizes
  <2>. QED
    BY <1>2, <2>1, FinalizesTruly DEF Inv, Finalizes, MainTypes, Joined, Failed
<1>3. CASE Unwinds
  <2>1. UNCHANGED <<market, writer, status, manifest>>
    BY <1>3, MainFrame DEF Main, Unwinds
  <2>. QED
    BY <1>3, <2>1 DEF Inv, Unwinds, MainTypes, Joined, Failed
<1>4. CASE MarketNotCreated
  BY <1>4 DEF MarketNotCreated, MarketStep, shared, writerVars, Inv, MainTypes, Joined, Failed
<1>5. ASSUME ~Main, ~MarketNotCreated PROVE main' = main /\ manifest' = manifest
  BY <1>5 DEF Next, MarketProgress, MarketEnvironment, AwaitsWriter, ReadsInitial, SetsRunning, TickInvalidates,
     TickDecides, Publishes, MessageCounted, MessageRefused, MessageProcessed, Recovers, IoRunReturns,
     CatchStores, MarketClosesQueue, MarketDone, TickFires, MarketThrows, MessagePushed, Writer, StopRequested,
     Exited, vars, MarketLocal, mainVars
<1>6. ASSUME ~Main, ~MarketNotCreated, main # "wait"
      PROVE  market' = market /\ (writer = "exited" => UNCHANGED <<writer, status>>)
  <2>0. market \in {"exited", "not_created"}
    BY <1>6 DEF Inv, Joined, MainTypes
  <2>1. Writer => market' = market /\ writer # "exited"
    BY WriterEffect DEF Inv
  <2>2. ~MarketProgress
    BY <2>0 DEF MarketProgress, AwaitsWriter, ReadsInitial, SetsRunning, TickInvalidates,
     TickDecides, Publishes, MessageCounted, MessageRefused, MessageProcessed, IoRunReturns,
     CatchStores, MarketClosesQueue, MarketDone, MarketStep
  <2>3. ~(TickFires \/ MarketEnvironment)
    BY <2>0 DEF TickFires, MarketEnvironment, MarketThrows, MessagePushed, MarketStep
  <2>. QED
    BY <1>6, <2>1, <2>2, <2>3 DEF Next, StopRequested, Exited, vars, shared, writerVars, marketVars
<1>7. CASE ~Main /\ ~MarketNotCreated
  <2>1. main = "wait" => market' # "not_created"
    <3>1. market # "not_created" \/ main # "wait"
      BY DEF Inv, Joined
    <3>2. CASE Writer \/ StopRequested \/ Exited
      BY <3>1, <3>2, WriterEffect DEF Inv, StopRequested, Exited, vars, marketVars
    <3>3. CASE ~(Writer \/ StopRequested \/ Exited)
      BY <1>7, <3>3 DEF Next, MarketProgress, MarketEnvironment, AwaitsWriter, ReadsInitial, SetsRunning,
         TickInvalidates, TickDecides, Publishes, MessageCounted, MessageRefused, MessageProcessed, Recovers,
         IoRunReturns, CatchStores, MarketClosesQueue, MarketDone, TickFires, MarketThrows, MessagePushed,
         MarketStep, Inv, MarketTypes
    <3>. QED
      BY <3>2, <3>3
  <2>. QED
    BY <1>5, <1>6, <1>7, <2>1 DEF Inv, MainTypes, Joined, Failed
<1>. QED
  BY <1>1, <1>2, <1>3, <1>4, <1>7 DEF Main

-----------------------------------------------------------------------------
(***************************************************************************)
(* Theorems.                                                               *)
(***************************************************************************)
\* Inv holds in every reachable state, for every size of the queue and any
\* number of messages.
THEOREM RuntimeInvariant == Spec => []Inv
<1>1. Init => Inv
  <2>. SUFFICES ASSUME Init PROVE Inv
    OBVIOUS
  <2>. USE DEF Init, RawWriterInit, QueueInit
  <2>1. Types /\ WriterLog(0)
    BY WriterStarts
  <2>2. MarketTypes
    BY DEF MarketTypes, BookStates
  <2>3. BeforeStart /\ Indexed /\ ClosedLast
    BY DEF BeforeStart, Idle, Indexed, ClosedLast, NoError
  <2>4. FatalMatchesState /\ Joined
    BY DEF FatalMatchesState, Joined, NoError
  <2>5. MainTypes /\ Accepted = 0
    BY DEF MainTypes, Accepted
  <2>. QED
    BY <2>1, <2>2, <2>3, <2>4, <2>5 DEF Inv, Recorded
<1>2. Inv /\ [Next]_vars => Inv'
  <2>. SUFFICES ASSUME Inv, [Next]_vars PROVE Inv'
    OBVIOUS
  <2>1. Types' /\ MarketTypes' /\ Recorded'
    BY RecordedStep DEF Inv
  <2>2. CASE Next
    BY <2>1, <2>2, BeforeStartStep, IndexedStep, ClosedLastStep, FatalStep, JoinedStep DEF Inv
  <2>3. CASE UNCHANGED vars
    BY <2>1, <2>3 DEF vars, queue, queueVars, shared, writerVars, marketVars, mainVars,
         Inv, MainTypes, BeforeStart, Indexed, ClosedLast, FatalMatchesState, Joined, Idle, Failed
  <2>. QED
    BY <2>2, <2>3
<1>. QED
  BY <1>1, <1>2, PTL DEF Spec

\* What a run reports of itself is true.
THEOREM ReportTrue == Spec => []ReportIsTrue
<1>1. Inv => ReportIsTrue
  BY DEF Inv, ReportIsTrue, FullIsReportedTruly, CleanRunIsComplete, ClosedLast, MainTypes, Joined, Failed
<1>. QED
  BY <1>1, RuntimeInvariant, PTL

-----------------------------------------------------------------------------
(***************************************************************************)
(* KrakenRuntime implements RecordingLog.                                  *)
(***************************************************************************)
\* A step accepts one envelope, makes one durable, gives the verdict, or changes
\* nothing that the log shows.
LEMMA StepLogs ==
    ASSUME Inv, Next
    PROVE  [Log!Next]_(Log!vars)
<1>. USE DEF Log!vars, Log!Next
<1>0. PICK a \in Nat : a = Accepted /\ WriterLog(a)
  BY DEF Inv, Recorded
<1>1. main # "exited" => manifest = "in_progress"
  BY DEF Inv, Joined
<1>2. ASSUME UNCHANGED <<Accepted, file, manifest>> PROVE [Log!Next]_(Log!vars)
  BY <1>2
<1>3. CASE Writer
  <2>1. UNCHANGED <<Accepted, main, manifest>> /\ main # "exited"
    BY <1>3, WriterEffect DEF Inv, Joined
  <2>2. CASE WriterAppends
    <3>1. writer = "append" /\ file' = file + 1
      BY <2>2 DEF WriterAppends, WriterStep
    <3>2. file < Accepted
      BY <1>0, <3>1 DEF WriterLog, InOrder, Inv, Types, QueueTypes, WriterTypes
    <3>3. Log!Persist
      BY <1>1, <2>1, <3>1, <3>2 DEF Log!Persist
    <3>. QED
      BY <3>3
  <2>3. CASE ~WriterAppends
    <3>1. file' = file
      BY <1>3, <2>3 DEF Writer, WriterThread, WriterOpens, WriterReady, WriterPops, AppendFails,
                  WriterCounts, WriterDrained, WriterCloses, RecordingFailed, WriterClosesQueue, WriterDone
    <3>. QED
      BY <1>2, <2>1, <3>1
  <2>. QED
    BY <2>2, <2>3
<1>4. ASSUME NEW size \in Sizes, MessagePushed(size) PROVE [Log!Next]_(Log!vars)
  <2>1. /\ market = "io" /\ market' = "count" /\ status' = status /\ status.enqueued \in Nat
        /\ UNCHANGED <<file, main, manifest>>
    BY <1>4 DEF MessagePushed, MarketStep, MarketLocal, writerVars, mainVars, Inv, Types, SharedTypes, Statuses
  <2>2. main = "wait"
    BY <2>1 DEF Inv, Joined, MainTypes
  <2>3. CASE pushed' = "Accepted"
    <3>1. Log!Accept
      BY <1>1, <2>1, <2>2, <2>3 DEF Log!Accept, Accepted
    <3>. QED
      BY <3>1
  <2>4. CASE pushed' # "Accepted"
    BY <1>2, <2>1, <2>4 DEF Accepted
  <2>. QED
    BY <2>3, <2>4
<1>5. CASE Finalizes
  <2>1. UNCHANGED <<Accepted, file>> /\ main = "finalize"
    BY <1>5, MainFrame DEF Main, Finalizes, Accepted
  <2>2. /\ manifest' \in {"complete", "recording_failure", "queue_overflow", "processing_failure"}
        /\ manifest' = "complete" => file = Accepted
    BY <1>5, FinalizesTruly
  <2>3. CASE manifest' = "complete"
    <3>1. Log!Complete
      BY <1>1, <2>1, <2>2, <2>3 DEF Log!Complete
    <3>. QED
      BY <3>1
  <2>4. CASE manifest' # "complete"
    <3>1. Log!Fail
      BY <1>1, <2>1, <2>2, <2>4 DEF Log!Fail
    <3>. QED
      BY <3>1
  <2>. QED
    BY <2>3, <2>4
<1>6. CASE MarketQuiet /\ ~Finalizes
  <2>1. UNCHANGED <<Accepted, file>>
    <3>1. MarketTypes'
      BY MarketTyped DEF Inv
    <3>. QED
      BY <1>6, <3>1, AcceptedKept, MarketIsQuiet DEF Inv, Quiet, writerVars
  <2>2. manifest' = manifest
    BY <1>6 DEF MarketQuiet, MarketProgress, AwaitsWriter, ReadsInitial, SetsRunning, TickInvalidates,
     TickDecides, Publishes, MessageCounted, MessageRefused, MessageProcessed, Recovers, IoRunReturns,
     CatchStores, MarketClosesQueue, MarketDone, TickFires, MarketThrows, Main, MainJoins, Unwinds,
     MarketNotCreated, StopRequested, MarketLocal, mainVars
  <2>. QED
    BY <1>2, <2>1, <2>2
<1>7. CASE Exited
  BY <1>2, <1>7 DEF Exited, vars, shared, writerVars, marketVars, mainVars, Accepted
<1>. QED
  BY <1>3, <1>4, <1>5, <1>6, <1>7 DEF Next, MarketQuiet, MarketEnvironment

\* The run is a recording: what is accepted becomes durable in order, and the
\* manifest says complete only when all of it is durable.
THEOREM RuntimeRefinesLog == Spec => RefinesLog
<1>1. Init => Log!Init
  BY DEF Init, RawWriterInit, Log!Init, Accepted
<1>2. Inv /\ [Next]_vars => [Log!Next]_(Log!vars)
  <2>1. ASSUME Inv, UNCHANGED vars PROVE UNCHANGED Log!vars
    BY <2>1 DEF vars, shared, writerVars, marketVars, mainVars, Accepted, Log!vars
  <2>. QED
    BY <2>1, StepLogs
<1>. QED
  BY <1>1, <1>2, RuntimeInvariant, PTL DEF Spec, RefinesLog, Log!Spec
=============================================================================

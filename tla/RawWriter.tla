----------------------------- MODULE RawWriter -----------------------------
(***************************************************************************)
(* What both runtimes share: the recording queue, the SharedRuntime with   *)
(* its status, the writer thread (write_raw) and the verdict of            *)
(* Capture::finalize.                                                      *)
(*                                                                         *)
(* One action is what the thread does while it holds a lock, together with *)
(* the thread-local work around it.  Record indexes are contiguous from 0, *)
(* so an optional last index is the count of indexes.  The queue gauges    *)
(* and quotes in RuntimeStatus are left out.                               *)
(***************************************************************************)
EXTENDS RawRecordingQueue

VARIABLES
    status,                                      \* RuntimeStatus
    writer_ready, writer_done, post_registered,  \* SharedRuntime
    posted,                          \* stop(error) calls recording_failed has posted
    writer, in_hand, file, damage    \* write_raw: step, popped envelope, records
                                     \* on disk, what a failed append left behind

queue == queueVars
shared == <<status, writer_ready, writer_done, post_registered, posted>>
writerVars == <<writer, in_hand, file, damage>>

NoError == "None"
FinalStates == {"Stopped", "StoppedRecordingError", "StoppedQueueFull", "StoppedProcessingError"}
NoEnvelope == [index |-> -1, size |-> 0]

RawWriterInit ==
    /\ QueueInit
    /\ status = [runtime_state |-> "Starting", fatal_error |-> NoError, book_state |-> "Initializing",
                 received |-> 0, enqueued |-> 0, processed |-> 0, written |-> 0]
    /\ writer_ready = FALSE /\ writer_done = FALSE
    /\ post_registered = FALSE /\ posted = 0
    /\ writer = "open" /\ in_hand = NoEnvelope /\ file = 0 /\ damage = "none"

\* Mutant of WithFatal: the last failure overwrites the runtime state.
LastStateWins(s, error, state) ==
    [s EXCEPT !.fatal_error = IF @ = NoError THEN error ELSE @, !.runtime_state = state]

\* The first fatal error is kept, with the runtime state that goes with it.
WithFatal(s, error, state) ==
    IF s.fatal_error = NoError
    THEN [s EXCEPT !.fatal_error = error, !.runtime_state = state] ELSE s

-----------------------------------------------------------------------------
(***************************************************************************)
(* The writer thread: write_raw.                                           *)
(***************************************************************************)
WriterStep(from, to) == writer = from /\ writer' = to

WriterOpens ==
    /\ writer = "open" /\ writer' \in {"ready", "failed"}
    /\ UNCHANGED <<queue, shared, in_hand, file, damage>>

WriterReady ==
    /\ WriterStep("ready", "pop")
    /\ writer_ready' = TRUE
    /\ UNCHANGED <<queue, status, writer_done, post_registered, posted, in_hand, file, damage>>

WriterPops ==
    /\ WriterStep("pop", "append")
    /\ Pop
    /\ in_hand' = Head(messages)
    /\ UNCHANGED <<shared, file, damage>>

WriterAppends ==
    /\ WriterStep("append", "count")
    /\ in_hand.index = file
    /\ file' = file + 1
    /\ UNCHANGED <<queue, shared, in_hand, damage>>

\* A wrong index, or a write or flush that fails and leaves nothing, part of
\* the line or all of it in the file.
AppendFails ==
    /\ WriterStep("append", "failed")
    /\ damage' \in IF in_hand.index = file THEN {"none", "torn", "extra"} ELSE {"none"}
    /\ UNCHANGED <<queue, shared, in_hand, file>>

WriterCounts ==
    /\ WriterStep("count", "pop")
    /\ status' = [status EXCEPT !.written = in_hand.index + 1]
    /\ in_hand' = NoEnvelope
    /\ UNCHANGED <<queue, writer_ready, writer_done, post_registered, posted, file, damage>>

WriterDrained ==
    /\ WriterStep("pop", "close")
    /\ Drained
    /\ UNCHANGED <<queue, shared, in_hand, file, damage>>

WriterCloses ==
    /\ writer = "close" /\ writer' \in {"finish", "failed"}
    /\ UNCHANGED <<queue, shared, in_hand, file, damage>>

\* Mutant of RecordingFailed: nothing is posted to the market thread.
FailsSilently ==
    /\ WriterStep("failed", "failed_close")
    /\ status' = WithFatal(status, "RecordingError", "StoppedRecordingError")
    /\ UNCHANGED <<queue, writer_ready, writer_done, post_registered, posted, in_hand, file, damage>>

\* Mutant of RecordingFailed: the queue is closed before the error is stored.
ClosesQueueFirst ==
    \/ /\ writer = "failed" /\ ~closed
       /\ CloseQueue
       /\ UNCHANGED <<shared, writerVars>>
    \/ /\ WriterStep("failed", "failed_close") /\ closed
       /\ status' = WithFatal(status, "RecordingError", "StoppedRecordingError")
       /\ posted' = IF post_registered THEN posted + 1 ELSE posted
       /\ UNCHANGED <<queue, writer_ready, writer_done, post_registered, in_hand, file, damage>>

\* SharedRuntime::recording_failed, under the mutex.
RecordingFailed ==
    /\ WriterStep("failed", "failed_close")
    /\ status' = WithFatal(status, "RecordingError", "StoppedRecordingError")
    /\ posted' = IF post_registered THEN posted + 1 ELSE posted
    /\ UNCHANGED <<queue, writer_ready, writer_done, post_registered, in_hand, file, damage>>

WriterClosesQueue ==
    /\ WriterStep("failed_close", "finish")
    /\ CloseQueue
    /\ UNCHANGED <<shared, in_hand, file, damage>>

WriterDone ==
    /\ WriterStep("finish", "exited")
    /\ writer_done' = TRUE
    /\ UNCHANGED <<queue, status, writer_ready, post_registered, posted, in_hand, file, damage>>

WriterThread ==
    \/ WriterOpens \/ WriterReady \/ WriterPops \/ WriterAppends \/ AppendFails \/ WriterCounts
    \/ WriterDrained \/ WriterCloses \/ RecordingFailed \/ WriterClosesQueue \/ WriterDone

-----------------------------------------------------------------------------
(***************************************************************************)
(* Capture::finalize.                                                      *)
(***************************************************************************)
\* What scan() finds in the raw file agrees with the written count.
ScanAgrees == damage # "torn" /\ file + (IF damage = "extra" THEN 1 ELSE 0) = status.written

FinalStatus ==
    CASE status.runtime_state = "Stopped" -> "complete"
      [] status.runtime_state = "StoppedRecordingError" -> "recording_failure"
      [] status.runtime_state = "StoppedQueueFull" -> "queue_overflow"
      [] OTHER -> "processing_failure"

\* The status the manifest is published with.
ManifestStatus ==
    IF \/ ~ScanAgrees
       \/ /\ FinalStatus = "complete"
          /\ status.fatal_error # NoError \/ status.received # status.written
    THEN "recording_failure" ELSE FinalStatus
=============================================================================

------------------------- MODULE RawRecordingQueue -------------------------
(***************************************************************************)
(* recording::RawRecordingQueue, the bounded queue between the market-data *)
(* thread and the writer.  Each operation holds mutex_ throughout, so each *)
(* is one atomic action of the thread that calls it; wait_pop is the       *)
(* predicate its condition variable waits for.  An envelope is its record  *)
(* index and the size of its payload.                                      *)
(***************************************************************************)
EXTENDS Integers, Sequences

CONSTANTS MaximumMessages, MaximumBytes,  \* RawQueueConfig
          Sizes                           \* payload sizes that occur

ASSUME QueueAssumption ==
    /\ MaximumMessages \in Nat /\ MaximumBytes \in Nat
    /\ Sizes \subseteq Nat

VARIABLES messages, bytes, closed

queueVars == <<messages, bytes, closed>>

QueueInit == messages = <<>> /\ bytes = 0 /\ closed = FALSE

Full(size) == Len(messages) >= MaximumMessages \/ size > MaximumBytes - bytes

PushResult(size) == IF closed THEN "Closed" ELSE IF Full(size) THEN "Full" ELSE "Accepted"

TryPush(envelope) ==
    IF PushResult(envelope.size) = "Accepted"
    THEN /\ messages' = Append(messages, envelope)
         /\ bytes' = bytes + envelope.size
         /\ UNCHANGED closed
    ELSE UNCHANGED queueVars

\* Mutant of Pop: bytes_ is not reduced.
PopForgetsBytes == messages # <<>> /\ messages' = Tail(messages) /\ UNCHANGED <<bytes, closed>>

\* wait_pop returns the first envelope ...
Pop ==
    /\ messages # <<>>
    /\ messages' = Tail(messages)
    /\ bytes' = bytes - Head(messages).size
    /\ UNCHANGED closed

\* ... or nullopt, only when it is closed and drained.
Drained == messages = <<>> /\ closed

CloseQueue == closed' = TRUE /\ UNCHANGED <<messages, bytes>>

-----------------------------------------------------------------------------
\* How many payload bytes the first i envelopes have.
Totals(envelopes) ==
    LET total[i \in 0 .. Len(envelopes)] ==
            IF i = 0 THEN 0 ELSE total[i - 1] + envelopes[i].size
    IN total

\* The queue's byte counter is the sum of what it holds: it never wraps below 0,
\* and maximum_bytes - bytes_ never does either.
BytesAreExact ==
    /\ bytes = Totals(messages)[Len(messages)] /\ bytes <= MaximumBytes
    /\ Len(messages) <= MaximumMessages
=============================================================================

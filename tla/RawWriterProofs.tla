-------------------------- MODULE RawWriterProofs --------------------------
(***************************************************************************)
(* What the queue and the writer thread keep true, for the proofs about    *)
(* both runtimes.                                                          *)
(***************************************************************************)
EXTENDS RawWriter, TLAPS, WellFoundedInduction

-----------------------------------------------------------------------------
(***************************************************************************)
(* Induction over the natural numbers.                                     *)
(***************************************************************************)
\* Induction with a set in the place of a predicate, on the library's theorems about
\* well founded relations: a set that holds 0 and with every number its successor
\* holds them all.
LEMMA SetInduction ==
    ASSUME NEW S, 0 \in S, \A n \in Nat : n \in S => n + 1 \in S
    PROVE  \A n \in Nat : n \in S
<1>. DEFINE T == {n \in Nat : n \notin S}
<1>1. SUFFICES ASSUME T # {} PROVE FALSE
  OBVIOUS
<1>2. PICK less : less = OpToRel(<, Nat)
  OBVIOUS
<1>3. PICK m \in T : \A k \in T : ~ (<<k, m>> \in less)
  <2>1. T \subseteq Nat
    OBVIOUS
  <2>. HIDE DEF T
  <2>. QED
    BY <1>1, <1>2, <2>1, NatLessThanWellFounded, WFMin
<1>4. m - 1 \in T
  <2>1. m # 0 /\ m - 1 \in Nat /\ (m - 1) + 1 = m
    OBVIOUS
  <2>. QED
    BY <2>1
<1>5. <<m - 1, m>> \in less
  BY <1>2, <1>4 DEF OpToRel
<1>. QED
  BY <1>3, <1>4, <1>5

Envelopes == [index : Nat, size : Nat]

-----------------------------------------------------------------------------
(***************************************************************************)
(* Sums of payload sizes.                                                  *)
(***************************************************************************)
\* total adds up the sizes of s.
AddsUp(total, s) ==
    total = [i \in 0 .. Len(s) |-> IF i = 0 THEN 0 ELSE total[i - 1] + s[i].size]

\* The recursive definition of Totals defines a function.
LEMMA TotalsExist ==
    ASSUME NEW s \in Seq(Envelopes)
    PROVE  AddsUp(Totals(s), s)
<1>. DEFINE Upto(g, n) == g = [i \in 0 .. n |-> IF i = 0 THEN 0 ELSE g[i - 1] + s[i].size]
            S == {n \in Nat : \E g : Upto(g, n)}
<1>1. 0 \in S
  <2>1. Upto([i \in 0 .. 0 |-> 0], 0)
    OBVIOUS
  <2>. QED
    BY <2>1
<1>2. ASSUME NEW n \in Nat, n \in S PROVE n + 1 \in S
  <2>1. PICK g : Upto(g, n)
    BY <1>2
  <2>. DEFINE h == [i \in 0 .. n + 1 |-> IF i <= n THEN g[i] ELSE g[n] + s[n + 1].size]
  <2>2. Upto(h, n + 1)
    <3>1. ASSUME NEW i \in 0 .. n + 1
          PROVE  h[i] = IF i = 0 THEN 0 ELSE h[i - 1] + s[i].size
      <4>1. CASE i <= n
        BY <2>1, <4>1
      <4>2. CASE i = n + 1
        BY <2>1, <4>2
      <4>. QED
        BY <4>1, <4>2
    <3>. QED
      BY <3>1
  <2>. HIDE DEF Upto, h
  <2>. QED
    BY <2>2
<1>3. \A n \in Nat : n \in S
  <2>. HIDE DEF S
  <2>. QED
    BY <1>1, <1>2, SetInduction
<1>4. \E g : AddsUp(g, s)
  <2>1. Len(s) \in S
    BY <1>3
  <2>. QED
    BY <2>1 DEF AddsUp
<1>. DEFINE total[i \in 0 .. Len(s)] == IF i = 0 THEN 0 ELSE total[i - 1] + s[i].size
<1>5. AddsUp(total, s)
  BY <1>4 DEF AddsUp, total
<1>6. Totals(s) = total
  BY DEF Totals, total
<1>. QED
  BY <1>5, <1>6

\* An envelope in the queue has a size.
LEMMA SizeIsNat ==
    ASSUME NEW s \in Seq(Envelopes), NEW i \in 1 .. Len(s)
    PROVE  s[i].size \in Nat
<1>1. s[i] \in Envelopes
  OBVIOUS
<1>. QED
  BY <1>1 DEF Envelopes

\* The totals, one by one.
LEMMA TotalsStep ==
    ASSUME NEW s \in Seq(Envelopes)
    PROVE  /\ Totals(s)[0] = 0
           /\ \A i \in 1 .. Len(s) : Totals(s)[i] = Totals(s)[i - 1] + s[i].size
<1>. DEFINE t == Totals(s)
<1>1. t = [i \in 0 .. Len(s) |-> IF i = 0 THEN 0 ELSE t[i - 1] + s[i].size]
  BY TotalsExist DEF AddsUp
<1>. HIDE DEF t
<1>2. t[0] = 0 /\ \A i \in 1 .. Len(s) : t[i] = t[i - 1] + s[i].size
  BY <1>1
<1>. QED
  BY <1>2 DEF t

\* A total is a natural number.
LEMMA TotalsAreNat ==
    ASSUME NEW s \in Seq(Envelopes)
    PROVE  \A i \in 0 .. Len(s) : Totals(s)[i] \in Nat
<1>. DEFINE S == {n \in Nat : n <= Len(s) => Totals(s)[n] \in Nat}
<1>1. 0 \in S
  BY TotalsStep
<1>2. ASSUME NEW n \in Nat, n \in S PROVE n + 1 \in S
  <2>. SUFFICES ASSUME n + 1 <= Len(s) PROVE Totals(s)[n + 1] \in Nat
    OBVIOUS
  <2>1. Totals(s)[n + 1] = Totals(s)[(n + 1) - 1] + s[n + 1].size
    BY TotalsStep
  <2>2. (n + 1) - 1 = n /\ s[n + 1].size \in Nat
    BY SizeIsNat
  <2>. QED
    BY <1>2, <2>1, <2>2
<1>3. \A n \in Nat : n \in S
  <2>. HIDE DEF S
  <2>. QED
    BY <1>1, <1>2, SetInduction
<1>. QED
  BY <1>3

\* An envelope at the end adds its size to the sum.
LEMMA TotalsAppend ==
    ASSUME NEW s \in Seq(Envelopes), NEW e \in Envelopes
    PROVE  Totals(Append(s, e))[Len(s) + 1] = Totals(s)[Len(s)] + e.size
<1>. DEFINE t == Append(s, e)
            S == {n \in Nat : n <= Len(s) => Totals(t)[n] = Totals(s)[n]}
<1>0. /\ t \in Seq(Envelopes) /\ Len(t) = Len(s) + 1 /\ t[Len(s) + 1] = e
      /\ \A i \in 1 .. Len(s) : t[i] = s[i]
  OBVIOUS
<1>. HIDE DEF t
<1>1. 0 \in S
  BY <1>0, TotalsStep
<1>2. ASSUME NEW n \in Nat, n \in S PROVE n + 1 \in S
  <2>. SUFFICES ASSUME n + 1 <= Len(s) PROVE Totals(t)[n + 1] = Totals(s)[n + 1]
    OBVIOUS
  <2>0. n + 1 \in 1 .. Len(s) /\ n + 1 \in 1 .. Len(t)
    BY <1>0
  <2>1. Totals(s)[n + 1] = Totals(s)[(n + 1) - 1] + s[n + 1].size
    BY <2>0, TotalsStep
  <2>2. Totals(t)[n + 1] = Totals(t)[(n + 1) - 1] + t[n + 1].size
    BY <1>0, <2>0, TotalsStep
  <2>3. (n + 1) - 1 = n
    OBVIOUS
  <2>. QED
    BY <1>0, <1>2, <2>0, <2>1, <2>2, <2>3
<1>3. \A n \in Nat : n \in S
  <2>. HIDE DEF S
  <2>. QED
    BY <1>1, <1>2, SetInduction
<1>4. Totals(t)[Len(s)] = Totals(s)[Len(s)]
  BY <1>3
<1>5. Totals(t)[Len(s) + 1] = Totals(t)[(Len(s) + 1) - 1] + t[Len(s) + 1].size
  <2>1. Len(s) + 1 \in 1 .. Len(t)
    BY <1>0
  <2>. QED
    BY <1>0, <2>1, TotalsStep
<1>6. (Len(s) + 1) - 1 = Len(s)
  OBVIOUS
<1>7. Totals(t)[Len(s) + 1] = Totals(s)[Len(s)] + e.size
  BY <1>0, <1>4, <1>5, <1>6
<1>. QED
  BY <1>7 DEF t

\* Removing the first envelope takes its size from the sum.
LEMMA TotalsTail ==
    ASSUME NEW s \in Seq(Envelopes), s # <<>>
    PROVE  Totals(s)[Len(s)] = s[1].size + Totals(Tail(s))[Len(s) - 1]
<1>. DEFINE t == Tail(s)
            S == {n \in Nat : n < Len(s) => Totals(s)[n + 1] = s[1].size + Totals(t)[n]}
<1>0. /\ t \in Seq(Envelopes) /\ Len(t) = Len(s) - 1 /\ Len(s) \in Nat /\ Len(s) > 0
      /\ s[1].size \in Nat
      /\ \A i \in 1 .. Len(t) : t[i] = s[i + 1]
  BY SizeIsNat
<1>. HIDE DEF t
<1>1. 0 \in S
  <2>1. Totals(s)[1] = Totals(s)[1 - 1] + s[1].size
    BY <1>0, TotalsStep
  <2>2. Totals(s)[0] = 0 /\ Totals(t)[0] = 0 /\ 1 - 1 = 0
    BY <1>0, TotalsStep
  <2>. QED
    BY <1>0, <2>1, <2>2
<1>2. ASSUME NEW n \in Nat, n \in S PROVE n + 1 \in S
  <2>. SUFFICES ASSUME n + 1 < Len(s) PROVE Totals(s)[(n + 1) + 1] = s[1].size + Totals(t)[n + 1]
    OBVIOUS
  <2>0. (n + 1) + 1 \in 1 .. Len(s) /\ n + 1 \in 1 .. Len(t)
    BY <1>0
  <2>1. Totals(s)[(n + 1) + 1] = Totals(s)[((n + 1) + 1) - 1] + s[(n + 1) + 1].size
    BY <2>0, TotalsStep
  <2>2. Totals(t)[n + 1] = Totals(t)[(n + 1) - 1] + t[n + 1].size
    BY <1>0, <2>0, TotalsStep
  <2>3. (n + 1) - 1 = n /\ ((n + 1) + 1) - 1 = n + 1
    OBVIOUS
  <2>4. t[n + 1] = s[(n + 1) + 1]
    BY <1>0, <2>0
  <2>5. Totals(t)[n] \in Nat /\ t[n + 1].size \in Nat
    BY <1>0, <2>0, TotalsAreNat, SizeIsNat
  <2>6. Totals(s)[n + 1] = s[1].size + Totals(t)[n]
    BY <1>2
  <2>. QED
    BY <1>0, <2>1, <2>2, <2>3, <2>4, <2>5, <2>6
<1>3. \A n \in Nat : n \in S
  <2>. HIDE DEF S
  <2>. QED
    BY <1>1, <1>2, SetInduction
<1>4. Len(s) - 1 \in S /\ Len(s) - 1 < Len(s) /\ (Len(s) - 1) + 1 = Len(s)
  BY <1>0, <1>3
<1>5. Totals(s)[Len(s)] = s[1].size + Totals(t)[Len(s) - 1]
  BY <1>4
<1>. QED
  BY <1>5 DEF t

-----------------------------------------------------------------------------
(***************************************************************************)
(* The invariant of the queue and the writer.  a is how many envelopes     *)
(* try_push has accepted, which each runtime counts in its own way.        *)
(***************************************************************************)
Failures == {"RecordingError", "Closed", "Full", "ProcessingError"}
BookStates == {"Initializing", "Valid", "Stale", "Resyncing", "Disconnected", "Invalid"}
Statuses ==
    [runtime_state : FinalStates \cup {"Starting", "Running", "Stopping"},
     fatal_error : Failures \cup {NoError}, book_state : BookStates,
     received : Nat, enqueued : Nat, processed : Nat, written : Nat]

QueueTypes == messages \in Seq(Envelopes) /\ bytes \in Int /\ closed \in BOOLEAN

SharedTypes ==
    /\ status \in Statuses
    /\ writer_ready \in BOOLEAN /\ writer_done \in BOOLEAN /\ post_registered \in BOOLEAN
    /\ posted \in Nat

WriterTypes ==
    /\ writer \in {"open", "ready", "pop", "append", "count", "close", "failed", "failed_close",
                   "finish", "exited"}
    /\ in_hand \in [index : Int, size : Nat]
    /\ file \in Nat /\ damage \in {"none", "torn", "extra"}

Types == QueueTypes /\ SharedTypes /\ WriterTypes

Failed == status.fatal_error # NoError

\* File, hand and queue are the accepted envelopes, in order.
InOrder(a) ==
    /\ \A i \in 1 .. Len(messages) : messages[i].index = a - Len(messages) + i - 1
    /\ writer = "append" => in_hand.index = file
    /\ writer \notin {"append", "failed", "failed_close", "finish", "exited"} =>
           file + Len(messages) = a
    /\ writer = "append" => file + 1 + Len(messages) = a

\* The written count lags the file by the record the writer is about to count.
Counted ==
    IF writer = "count" THEN in_hand.index + 1 = file /\ status.written + 1 = file
                        ELSE status.written = file

\* A writer that leaves has either stored an error or drained a closed queue.
LeavesCleanly(a) ==
    /\ damage # "none" => writer = "failed" \/ Failed
    /\ writer = "failed_close" => Failed
    /\ writer \in {"close", "finish", "exited"} => Failed \/ (Drained /\ file = a)

Flags ==
    /\ writer_done <=> writer = "exited"
    /\ writer_ready => writer \notin {"open", "ready"}

WriterLog(a) == InOrder(a) /\ BytesAreExact /\ Counted /\ LeavesCleanly(a) /\ Flags

-----------------------------------------------------------------------------
\* WithFatal returns a status with an error and never replaces one.
LEMMA WithFatalKeeps ==
    ASSUME NEW s \in Statuses, NEW error \in Failures, NEW state \in FinalStates
    PROVE  /\ WithFatal(s, error, state) \in Statuses
           /\ WithFatal(s, error, state).fatal_error # NoError
           /\ s.fatal_error # NoError => WithFatal(s, error, state) = s
           /\ s.fatal_error = NoError => /\ WithFatal(s, error, state).fatal_error = error
                                         /\ WithFatal(s, error, state).runtime_state = state
           /\ WithFatal(s, error, state).book_state = s.book_state
           /\ WithFatal(s, error, state).received = s.received
           /\ WithFatal(s, error, state).enqueued = s.enqueued
           /\ WithFatal(s, error, state).written = s.written
  BY DEF WithFatal, Statuses, Failures, NoError, FinalStates

\* The first envelope leaves the queue, the others move up.
LEMMA PopKeeps ==
    ASSUME QueueTypes, BytesAreExact, Pop
    PROVE  /\ QueueTypes' /\ BytesAreExact'
           /\ Head(messages) = messages[1] /\ Head(messages) \in Envelopes
           /\ Len(messages') = Len(messages) - 1 /\ Len(messages) > 0
           /\ \A i \in 1 .. Len(messages') : messages'[i] = messages[i + 1]
<1>1. /\ messages' \in Seq(Envelopes) /\ Head(messages) = messages[1] /\ Head(messages) \in Envelopes
      /\ Len(messages') = Len(messages) - 1 /\ Len(messages) > 0
      /\ \A i \in 1 .. Len(messages') : messages'[i] = messages[i + 1]
  BY DEF QueueTypes, Pop
<1>2. messages[1].size \in Nat
  BY <1>1, SizeIsNat DEF QueueTypes
<1>3. QueueTypes'
  BY <1>1, <1>2 DEF QueueTypes, Pop
<1>4. Totals(messages)[Len(messages)] = messages[1].size + Totals(Tail(messages))[Len(messages) - 1]
  BY TotalsTail DEF QueueTypes, Pop
<1>5. Totals(messages')[Len(messages')] \in Nat
  BY <1>1, TotalsAreNat
<1>6. messages' = Tail(messages) /\ bytes' = bytes - messages[1].size
  BY <1>1 DEF Pop
<1>7. bytes' = Totals(messages')[Len(messages')]
  BY <1>1, <1>2, <1>4, <1>5, <1>6 DEF BytesAreExact
<1>8. bytes' <= MaximumBytes /\ Len(messages') <= MaximumMessages
  BY <1>1, <1>2, <1>6, QueueAssumption DEF BytesAreExact, QueueTypes
<1>. QED
  BY <1>1, <1>3, <1>7, <1>8 DEF BytesAreExact

\* An accepted envelope fits.
LEMMA PushFits ==
    ASSUME QueueTypes, BytesAreExact, NEW e \in Envelopes, TryPush(e),
           PushResult(e.size) = "Accepted"
    PROVE  /\ QueueTypes' /\ BytesAreExact' /\ ~closed /\ closed' = closed
           /\ Len(messages') = Len(messages) + 1 /\ messages'[Len(messages) + 1] = e
           /\ \A i \in 1 .. Len(messages) : messages'[i] = messages[i]
<1>1. /\ messages' = Append(messages, e) /\ bytes' = bytes + e.size
      /\ closed' = closed /\ ~closed /\ ~Full(e.size)
  BY DEF TryPush, PushResult
<1>2. /\ messages' \in Seq(Envelopes) /\ Len(messages') = Len(messages) + 1
      /\ messages'[Len(messages) + 1] = e /\ \A i \in 1 .. Len(messages) : messages'[i] = messages[i]
  BY <1>1 DEF QueueTypes
<1>3. e.size \in Nat
  BY DEF Envelopes
<1>4. Totals(Append(messages, e))[Len(messages) + 1] = Totals(messages)[Len(messages)] + e.size
  BY TotalsAppend DEF QueueTypes
<1>5. bytes' = Totals(messages')[Len(messages')]
  BY <1>1, <1>2, <1>4 DEF BytesAreExact
<1>6. bytes' <= MaximumBytes /\ Len(messages') <= MaximumMessages
  BY <1>1, <1>2, <1>3, QueueAssumption DEF Full, QueueTypes
<1>7. QueueTypes'
  BY <1>1, <1>2, <1>3 DEF QueueTypes
<1>. QED
  BY <1>1, <1>2, <1>5, <1>6, <1>7 DEF BytesAreExact

-----------------------------------------------------------------------------
\* What the other threads do to the writer, a push apart: they leave the queue's
\* contents and the writer's own state alone, may close the queue and may store an
\* error.
Quiet ==
    /\ SharedTypes'
    /\ UNCHANGED <<messages, bytes, writer_ready, writer_done, writerVars>>
    /\ closed' \in BOOLEAN /\ (closed => closed')
    /\ status'.written = status.written /\ (Failed => Failed')

\* Such a step keeps the writer's invariant.
LEMMA FrameKeeps ==
    ASSUME Types, NEW a \in Int, WriterLog(a), Quiet
    PROVE  Types' /\ WriterLog(a)'
<1>. USE DEF Quiet
<1>1. Types'
  BY DEF Types, QueueTypes, WriterTypes, writerVars
<1>2. InOrder(a)' /\ BytesAreExact' /\ Counted' /\ Flags'
  BY DEF WriterLog, InOrder, BytesAreExact, Counted, Flags, writerVars
<1>3. LeavesCleanly(a)'
  BY DEF WriterLog, LeavesCleanly, Drained, writerVars
<1>. QED
  BY <1>1, <1>2, <1>3 DEF WriterLog

\* try_push keeps the invariant: b envelopes have been accepted after it.
LEMMA PushKeeps ==
    ASSUME Types, NEW a \in Nat, WriterLog(a), NEW size \in Sizes, NEW b \in Nat,
           TryPush([index |-> a, size |-> size]),
           b = IF PushResult(size) = "Accepted" THEN a + 1 ELSE a,
           UNCHANGED <<shared, writerVars>>
    PROVE  Types' /\ WriterLog(b)'
<1>. DEFINE e == [index |-> a, size |-> size]
<1>0. e \in Envelopes /\ e.size = size /\ e.index = a
  BY QueueAssumption DEF Envelopes
<1>1. TryPush(e)
  OBVIOUS
<1>. HIDE DEF e
<1>2. SharedTypes'
  BY DEF Types, SharedTypes, shared
<1>3. CASE PushResult(size) # "Accepted"
  <2>1. UNCHANGED <<messages, bytes, closed>> /\ b = a
    BY <1>0, <1>1, <1>3 DEF TryPush, queueVars
  <2>2. Quiet
    BY <1>2, <2>1 DEF Quiet, shared, Types, QueueTypes, Failed
  <2>3. Types' /\ WriterLog(a)'
    BY <2>2, FrameKeeps
  <2>. QED
    BY <2>1, <2>3
<1>4. CASE PushResult(size) = "Accepted"
  <2>1. /\ QueueTypes' /\ BytesAreExact' /\ ~closed /\ closed' = closed
        /\ Len(messages') = Len(messages) + 1 /\ messages'[Len(messages) + 1] = e
        /\ \A i \in 1 .. Len(messages) : messages'[i] = messages[i]
    BY <1>0, <1>1, <1>4, PushFits DEF Types, WriterLog
  <2>2. Types'
    BY <1>2, <2>1 DEF Types, WriterTypes, writerVars
  <2>3. Counted' /\ Flags'
    BY DEF WriterLog, Counted, Flags, shared, writerVars
  <2>4. b = a + 1 /\ Len(messages) \in Nat /\ file \in Nat
    BY <1>4 DEF Types, QueueTypes, WriterTypes
  <2>5. InOrder(b)'
    <3>1. ASSUME NEW i \in 1 .. Len(messages')
          PROVE  messages'[i].index = b - Len(messages') + i - 1
      <4>1. CASE i = Len(messages) + 1
        BY <1>0, <2>1, <2>4, <4>1
      <4>2. CASE i \in 1 .. Len(messages)
        <5>1. messages[i].index = a - Len(messages) + i - 1
          BY <4>2 DEF WriterLog, InOrder
        <5>2. messages'[i] = messages[i] /\ i \in Int
          BY <2>1, <4>2
        <5>. QED
          BY <2>1, <2>4, <5>1, <5>2
      <4>. QED
        BY <2>1, <2>4, <4>1, <4>2
    <3>. QED
      BY <2>1, <2>4, <3>1 DEF WriterLog, InOrder, writerVars
  <2>6. LeavesCleanly(b)'
    BY <2>1 DEF WriterLog, LeavesCleanly, Drained, Failed, writerVars, shared
  <2>. QED
    BY <2>1, <2>2, <2>3, <2>5, <2>6 DEF WriterLog
<1>. QED
  BY <1>3, <1>4

\* The writer thread keeps the types.
LEMMA WriterTyped ==
    ASSUME Types, NEW a \in Int, WriterLog(a), WriterThread
    PROVE  Types'
<1>. USE DEF WriterStep, Types, QueueTypes, SharedTypes, WriterTypes
<1>1. CASE WriterOpens \/ WriterDrained \/ WriterCloses
  BY <1>1 DEF WriterOpens, WriterDrained, WriterCloses, queue, queueVars, shared
<1>2. CASE WriterAppends \/ AppendFails
  BY <1>2 DEF WriterAppends, AppendFails, queue, queueVars, shared
<1>3. CASE WriterReady \/ WriterDone
  BY <1>3 DEF WriterReady, WriterDone, queue, queueVars
<1>4. CASE WriterClosesQueue
  BY <1>4 DEF WriterClosesQueue, CloseQueue, shared
<1>5. CASE WriterPops
  BY <1>5, PopKeeps DEF WriterPops, WriterStep, WriterLog, shared, Types, SharedTypes, WriterTypes, Envelopes
<1>6. CASE WriterCounts
  <2>1. in_hand.index + 1 \in Nat
    BY <1>6 DEF WriterCounts, WriterStep, WriterLog, Counted, Types, WriterTypes
  <2>2. status' \in Statuses
    BY <1>6, <2>1 DEF WriterCounts, Types, SharedTypes, Statuses
  <2>. QED
    BY <1>6, <2>2 DEF WriterCounts, WriterStep, queue, queueVars, NoEnvelope,
                      Types, QueueTypes, SharedTypes, WriterTypes
<1>7. CASE RecordingFailed
  <2>1. status' \in Statuses
    BY <1>7, WithFatalKeeps DEF RecordingFailed, Types, SharedTypes, Failures, FinalStates
  <2>. QED
    BY <1>7, <2>1 DEF RecordingFailed, WriterStep, queue, queueVars,
                      Types, QueueTypes, SharedTypes, WriterTypes
<1>. QED
  BY <1>1, <1>2, <1>3, <1>4, <1>5, <1>6, <1>7 DEF WriterThread

\* The writer thread keeps the invariant, and never forgets an error.
LEMMA WriterKeeps ==
    ASSUME Types, NEW a \in Int, WriterLog(a), WriterThread
    PROVE  WriterLog(a)' /\ (Failed => Failed')
<1>. USE DEF WriterLog, WriterStep, Types
<1>1. CASE WriterOpens \/ WriterReady \/ WriterDone \/ WriterCloses
  BY <1>1 DEF WriterOpens, WriterReady, WriterDone, WriterCloses, queue, queueVars, shared, Failed,
              InOrder, BytesAreExact, Counted, LeavesCleanly, Flags, Drained
<1>2. CASE WriterPops
  <2>1. /\ BytesAreExact' /\ Head(messages) = messages[1]
        /\ Len(messages') = Len(messages) - 1 /\ Len(messages) > 0
        /\ \A i \in 1 .. Len(messages') : messages'[i] = messages[i + 1]
    BY <1>2, PopKeeps DEF WriterPops
  <2>2. InOrder(a)'
    <3>0. Len(messages) \in Nat /\ file \in Nat /\ Len(messages') \in Nat
      BY <2>1 DEF QueueTypes, WriterTypes
    <3>1. ASSUME NEW i \in 1 .. Len(messages')
          PROVE  messages'[i].index = a - Len(messages') + i - 1
      <4>1. i + 1 \in 1 .. Len(messages)
        BY <2>1, <3>0
      <4>2. messages[i + 1].index = a - Len(messages) + (i + 1) - 1
        BY <4>1 DEF InOrder
      <4>. QED
        BY <2>1, <3>0, <4>2
    <3>2. in_hand'.index = file'
      <4>1. messages[1].index = a - Len(messages) + 1 - 1
        BY <2>1, <3>0 DEF InOrder
      <4>2. file + Len(messages) = a
        BY <1>2 DEF WriterPops, InOrder
      <4>. QED
        BY <1>2, <2>1, <3>0, <4>1, <4>2 DEF WriterPops
    <3>3. file' + 1 + Len(messages') = a
      BY <1>2, <2>1, <3>0 DEF WriterPops, InOrder
    <3>. QED
      BY <1>2, <3>1, <3>2, <3>3 DEF WriterPops, InOrder
  <2>. QED
    BY <1>2, <2>1, <2>2 DEF WriterPops, shared, Counted, LeavesCleanly, Flags, Failed
<1>3. CASE WriterAppends \/ AppendFails
  <2>1. file \in Nat /\ Len(messages) \in Nat
    BY DEF QueueTypes, WriterTypes
  <2>2. UNCHANGED <<messages, bytes, closed, status, writer_ready, writer_done, in_hand>>
    BY <1>3 DEF WriterAppends, AppendFails, queue, queueVars, shared
  <2>3. InOrder(a)' /\ Counted'
    BY <1>3, <2>1, <2>2 DEF WriterAppends, AppendFails, InOrder, Counted
  <2>4. BytesAreExact' /\ LeavesCleanly(a)' /\ Flags' /\ (Failed => Failed')
    BY <1>3, <2>2 DEF WriterAppends, AppendFails, BytesAreExact, LeavesCleanly, Flags, Failed, Drained
  <2>. QED
    BY <2>3, <2>4
<1>4. CASE WriterCounts
  <2>1. status'.written = in_hand.index + 1 /\ status'.fatal_error = status.fatal_error
    BY <1>4 DEF WriterCounts, SharedTypes, Statuses
  <2>2. UNCHANGED <<messages, bytes, closed, writer_ready, writer_done, file, damage>>
    BY <1>4 DEF WriterCounts, queue, queueVars
  <2>. QED
    BY <1>4, <2>1, <2>2 DEF WriterCounts, InOrder, BytesAreExact, Counted, LeavesCleanly, Flags, Failed, Drained
<1>5. CASE WriterDrained
  <2>1. Len(messages) = 0 /\ file \in Nat
    BY <1>5 DEF WriterDrained, Drained, WriterTypes
  <2>2. file = a
    BY <1>5, <2>1 DEF WriterDrained, InOrder
  <2>. QED
    BY <1>5, <2>2 DEF WriterDrained, queue, queueVars, shared, InOrder, BytesAreExact, Counted,
                      LeavesCleanly, Flags, Failed, Drained
<1>6. CASE RecordingFailed
  <2>1. Failed' /\ status'.written = status.written
    BY <1>6, WithFatalKeeps DEF RecordingFailed, SharedTypes, Failures, FinalStates, Failed
  <2>2. UNCHANGED <<messages, bytes, closed, writer_ready, writer_done, in_hand, file, damage>>
    BY <1>6 DEF RecordingFailed, queue, queueVars
  <2>. QED
    BY <1>6, <2>1, <2>2 DEF RecordingFailed, InOrder, BytesAreExact, Counted, LeavesCleanly, Flags, Drained
<1>7. CASE WriterClosesQueue
  BY <1>7 DEF WriterClosesQueue, CloseQueue, shared, InOrder, BytesAreExact, Counted, LeavesCleanly,
              Flags, Failed, Drained
<1>. QED
  BY <1>1, <1>2, <1>3, <1>4, <1>5, <1>6, <1>7 DEF WriterThread

\* What the other threads see of a step of the writer: at most its error, stored
\* when there was none, and a posted call when they have registered for one.
LEMMA WriterReports ==
    ASSUME Types, NEW a \in Int, WriterLog(a), WriterThread
    PROVE  /\ writer # "exited" /\ (writer_ready => writer_ready')
           /\ post_registered' = post_registered
           /\ status'.book_state = status.book_state /\ status'.received = status.received
           /\ status'.enqueued = status.enqueued
           /\ \/ UNCHANGED <<status.fatal_error, status.runtime_state>>
              \/ /\ ~Failed /\ writer = "failed" /\ status'.fatal_error = "RecordingError"
                 /\ status'.runtime_state = "StoppedRecordingError"
           /\ \/ posted' = posted /\ (post_registered => UNCHANGED status.fatal_error)
              \/ post_registered /\ posted' = posted + 1 /\ Failed'
<1>. USE DEF WriterStep
<1>1. CASE WriterOpens \/ WriterReady \/ WriterPops \/ WriterAppends \/ AppendFails
  BY <1>1 DEF WriterOpens, WriterReady, WriterPops, WriterAppends, AppendFails, shared
<1>2. CASE WriterDrained \/ WriterCloses \/ WriterClosesQueue \/ WriterDone
  BY <1>2 DEF WriterDrained, WriterCloses, WriterClosesQueue, WriterDone, shared
<1>3. CASE WriterCounts
  BY <1>3 DEF WriterCounts, Types, SharedTypes, Statuses
<1>4. CASE RecordingFailed
  <2>. DEFINE s == WithFatal(status, "RecordingError", "StoppedRecordingError")
  <2>1. /\ s.fatal_error # NoError /\ (Failed => s = status)
        /\ ~Failed => s.fatal_error = "RecordingError" /\ s.runtime_state = "StoppedRecordingError"
        /\ s.book_state = status.book_state /\ s.received = status.received
        /\ s.enqueued = status.enqueued
    BY WithFatalKeeps DEF Types, SharedTypes, Failures, FinalStates, Failed
  <2>2. status' = s
    BY <1>4 DEF RecordingFailed
  <2>. HIDE DEF s
  <2>. QED
    BY <1>4, <2>1, <2>2 DEF RecordingFailed, Failed
<1>. QED
  BY <1>1, <1>2, <1>3, <1>4 DEF WriterThread

\* Nothing has been accepted, nothing written.
LEMMA WriterStarts ==
    ASSUME RawWriterInit
    PROVE  Types /\ WriterLog(0)
<1>1. QueueTypes /\ Len(messages) = 0
  <2>1. messages \in Seq(Envelopes) /\ Len(messages) = 0 /\ bytes \in Int
    BY DEF RawWriterInit, QueueInit
  <2>2. closed \in BOOLEAN
    BY DEF RawWriterInit, QueueInit
  <2>. QED
    BY <2>1, <2>2 DEF QueueTypes
<1>. USE DEF RawWriterInit, QueueInit
<1>2. status \in Statuses
  BY DEF Statuses, FinalStates, BookStates, NoError
<1>3. SharedTypes /\ WriterTypes
  <2>1. NoEnvelope \in [index : Int, size : Nat]
    BY DEF NoEnvelope
  <2>. QED
    BY <1>2, <2>1 DEF SharedTypes, WriterTypes
<1>4. Totals(messages)[0] = 0
  BY <1>1, TotalsStep DEF QueueTypes
<1>5. BytesAreExact
  BY <1>1, <1>4, QueueAssumption DEF BytesAreExact
<1>6. InOrder(0) /\ Counted /\ LeavesCleanly(0) /\ Flags
  BY <1>1 DEF InOrder, Counted, LeavesCleanly, Flags
<1>. QED
  BY <1>1, <1>3, <1>5, <1>6 DEF Types, WriterLog

-----------------------------------------------------------------------------
(***************************************************************************)
(* The writer before the first push: only opening the file can have        *)
(* failed, and only a failed writer has closed the queue.                  *)
(***************************************************************************)
Idle ==
    /\ messages = <<>>
    /\ writer \notin {"append", "count", "close"}
    /\ writer = "failed" => ~writer_ready
    /\ writer \in {"failed_close", "finish", "exited"} => Failed
    /\ closed => writer \in {"finish", "exited"}

\* A writer that is ready and has not failed waits for the first envelope ...
LEMMA IdleWaits ==
    ASSUME Types, NEW a \in Int, WriterLog(a), Idle, ~Failed, writer_ready \/ writer_done
    PROVE  writer = "pop" /\ ~closed /\ ~WriterThread
<1>1. writer = "pop" /\ ~closed
  BY DEF Idle, WriterLog, Flags, Types, WriterTypes
<1>2. ~WriterThread
  BY <1>1 DEF Idle, WriterThread, WriterOpens, WriterReady, WriterPops, WriterAppends, AppendFails, WriterCounts,
       WriterDrained, WriterCloses, RecordingFailed, WriterClosesQueue, WriterDone, WriterStep, Pop, Drained
<1>. QED
  BY <1>1, <1>2

\* ... and its other steps leave it idle.
LEMMA IdleKeeps ==
    ASSUME Types, NEW a \in Int, WriterLog(a), Idle, WriterThread
    PROVE  Idle'
<1>. USE DEF Idle, WriterStep, WriterLog, Flags
<1>1. writer \notin {"append", "count", "close"}
  OBVIOUS
<1>2. CASE WriterOpens \/ WriterReady
  BY <1>2 DEF WriterOpens, WriterReady, queue, queueVars, shared, Failed
<1>3. ~WriterPops
  BY DEF WriterPops, Pop
<1>4. ~WriterDrained
  BY DEF WriterDrained, Drained
<1>5. ~(WriterAppends \/ AppendFails \/ WriterCounts \/ WriterCloses)
  BY <1>1 DEF WriterAppends, AppendFails, WriterCounts, WriterCloses
<1>6. CASE RecordingFailed
  <2>1. Failed'
    BY <1>6, WithFatalKeeps DEF RecordingFailed, Failed, Types, SharedTypes, Failures, FinalStates
  <2>. QED
    BY <1>6, <2>1 DEF RecordingFailed, queue, queueVars
<1>7. CASE WriterClosesQueue
  BY <1>7 DEF WriterClosesQueue, CloseQueue, shared, Failed
<1>8. CASE WriterDone
  BY <1>8 DEF WriterDone, queue, queueVars, Failed
<1>. QED
  BY <1>2, <1>3, <1>4, <1>5, <1>6, <1>7, <1>8 DEF WriterThread
=============================================================================

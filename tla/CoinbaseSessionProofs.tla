----------------------- MODULE CoinbaseSessionProofs -----------------------
(***************************************************************************)
(* Proofs about CoinbaseSession: the log of a capture determines the book, *)
(* and the two replays compute it, for logs of any length.                 *)
(***************************************************************************)
EXTENDS CoinbaseSession, TLAPS, WellFoundedInduction

-----------------------------------------------------------------------------
(***************************************************************************)
(* Induction over the natural numbers.                                     *)
(***************************************************************************)
\* Every non-empty set of natural numbers has a least member, by the library's
\* theorems about well founded relations.
LEMMA LeastNatural ==
    ASSUME NEW T, T \subseteq Nat, T # {}
    PROVE  \E m \in T : \A k \in T : m <= k
<1>1. PICK less : less = OpToRel(<, Nat)
  OBVIOUS
<1>2. PICK m \in T : \A k \in T : ~ (<<k, m>> \in less)
  BY <1>1, NatLessThanWellFounded, WFMin
<1>3. ASSUME NEW k \in T PROVE m <= k
  <2>1. m \in Nat /\ k \in Nat
    OBVIOUS
  <2>2. ~(k < m)
    BY <1>1, <1>2, <2>1 DEF OpToRel
  <2>. QED
    BY <2>1, <2>2
<1>. QED
  BY <1>3

\* Induction with a set in the place of a predicate: a set that holds 0 and with
\* every number its successor holds them all.
LEMMA SetInduction ==
    ASSUME NEW S, 0 \in S, \A n \in Nat : n \in S => n + 1 \in S
    PROVE  \A n \in Nat : n \in S
<1>. DEFINE T == {n \in Nat : n \notin S}
<1>1. SUFFICES ASSUME T # {} PROVE FALSE
  OBVIOUS
<1>2. PICK m \in T : \A k \in T : m <= k
  BY <1>1, LeastNatural
<1>3. m # 0 /\ m - 1 \in Nat /\ m - 1 \notin T
  BY <1>2
<1>. QED
  BY <1>2, <1>3

-----------------------------------------------------------------------------
(***************************************************************************)
(* The inductive invariant.                                                *)
(***************************************************************************)
Numbers == Nat \cup {NoSequence}
Books == [state : BookStates, last_sequence : Numbers]
Moments == [book : Books, sequence : Numbers]
Envelopes == [connection : Nat, message : Messages]
LifecycleEvents == [index : Nat, state : BookStates \ {"Valid"}]

Types ==
    /\ book \in Books /\ sequence \in Numbers /\ connection_id \in Nat /\ received \in Nat
    /\ records \in Seq(Envelopes) /\ after \in Seq(Moments) /\ lifecycle \in Seq(LifecycleEvents)

\* The book and the connection after record i.
LastBook(i) == IF i = 0 THEN [state |-> "Disconnected", last_sequence |-> NoSequence] ELSE after[i].book
LastConnection(i) == IF i = 0 THEN NoConnection ELSE records[i].connection

\* Record i comes over the connection of the record before it.
Continues(i) == records[i].connection = LastConnection(i - 1)

\* What a new connection finds: the levels and number of the old book, and no tracker.
Opened(b) ==
    [book |-> [state |-> "Initializing", last_sequence |-> b.last_sequence], sequence |-> NoSequence]

\* Book and tracker before record i.
Found(i) == IF Continues(i) THEN after[i - 1] ELSE Opened(LastBook(i - 1))

\* Book and tracker after message m.
Processed(found, m) ==
    [book |-> Processor(found)!ProcessedBook(m), sequence |-> Processor(found)!ProcessedSequence(m)]

\* The records alone determine the books: within a connection nothing but records
\* changes the book, and nothing follows an error.
Chained ==
    /\ Len(after) = Len(records)
    /\ \A i \in 1 .. Len(records) :
           /\ records[i].connection > 0 /\ LastConnection(i - 1) <= records[i].connection
           /\ after[i] = Processed(Found(i), records[i].message)
           /\ Continues(i) => after[i - 1].book.state # "Invalid"

\* cut[i] events come before record i.
Cuts(cut) ==
    /\ cut \in [0 .. Len(records) -> 0 .. Len(lifecycle)]
    /\ \A k \in 1 .. Len(lifecycle) :
           \A i \in 0 .. Len(records) : lifecycle[k].index < i <=> k <= cut[i]

\* Events separate the connections: none falls between two records of one, and the
\* last one before the first record of another has opened it.
Separated(cut) ==
    \A i \in 1 .. Len(records) :
        IF Continues(i) THEN cut[i] = cut[i - 1]
        ELSE cut[i - 1] < cut[i] /\ lifecycle[cut[i]].state = "Initializing"

\* The present book and tracker: those of the last record, or of the last event
\* after it.
Present(last) ==
    LET n == Len(records)
        e == Len(lifecycle)
    IN /\ book.last_sequence = LastBook(n).last_sequence
       /\ received = n /\ e > 0 =>
              IF last = e THEN n > 0 /\ book = after[n].book /\ sequence = after[n].sequence
              ELSE book.state = lifecycle[e].state /\ sequence = NoSequence
       /\ connected =>
              IF last = e THEN LastConnection(n) = connection_id /\ book.state # "Invalid"
              ELSE lifecycle[e].state = "Initializing" /\ LastConnection(n) < connection_id

Logged == \E cut : Cuts(cut) /\ Separated(cut) /\ Present(cut[Len(records)])

\* Events carry the index of the next record, and only a refused envelope has an
\* index without a record.
Indexed ==
    /\ \A k \in 1 .. Len(lifecycle) : lifecycle[k].index <= received
    /\ \A k \in 1 .. Len(lifecycle) - 1 : lifecycle[k].index <= lifecycle[k + 1].index
    /\ received = Len(records) \/ (terminal /\ received = Len(records) + 1)
    /\ LastConnection(Len(records)) <= connection_id

Flags ==
    /\ connected => ~stopping /\ lifecycle # <<>> /\ connection_id > 0
    /\ terminal => stopping
    /\ lifecycle = <<>> => stopping

\* What finalize() has written.
Finalized ==
    /\ manifest.status \in {"in_progress", "complete", "failed"}
    /\ manifest.records \in 0 .. Len(records)
    /\ manifest.status = "complete" => ~terminal /\ manifest.records = Len(records)

Inv == Types /\ Chained /\ Logged /\ Indexed /\ Flags /\ Finalized

-----------------------------------------------------------------------------
(***************************************************************************)
(* The steps.                                                              *)
(***************************************************************************)
Marks == BookStates \ {"Valid"}

\* A step keeps the flags in order.
FlagsKept ==
    /\ connected' => ~stopping' /\ connection_id' > 0
    /\ terminal' => stopping'
    /\ terminal => terminal'
    /\ connection_id' \in Nat

\* A handler that processes no envelope ends with its last event; index is that of
\* the next record.
Handled(states, index) ==
    /\ states \in Seq(Marks) /\ Len(states) > 0
    /\ Observed(states, index)
    /\ UNCHANGED <<records, after, manifest>> /\ manifest.status = "in_progress"
    /\ book' = [book EXCEPT !.state = states[Len(states)]] /\ sequence' = NoSequence
    /\ IF connected' THEN states[Len(states)] = "Initializing" /\ connection_id' = connection_id + 1
       ELSE connection_id' = connection_id
    /\ FlagsKept

Quiet == \E states : Handled(states, received) /\ UNCHANGED received

Refused == \E states : Handled(states, received + 1) /\ received' = received + 1 /\ terminal' /\ ~terminal

\* An envelope is recorded and processed.
Recorded(m) ==
    /\ m \in Messages /\ connected /\ ~stopping /\ ~terminal
    /\ received' = received + 1
    /\ records' = Append(records, [connection |-> connection_id, message |-> m])
    /\ after' = Append(after, [book |-> ProcessedBook(m), sequence |-> ProcessedSequence(m)])
    /\ UNCHANGED <<manifest, stopping, terminal, connection_id>> /\ manifest.status = "in_progress"

Accepted(m) ==
    /\ Recorded(m) /\ Outcome(m) \notin Errors
    /\ connected' /\ UNCHANGED lifecycle
    /\ book' = ProcessedBook(m) /\ sequence' = ProcessedSequence(m)

Broken(m) ==
    /\ Recorded(m) /\ Outcome(m) \in Errors
    /\ ~connected' /\ Observed(<<"Invalid">>, received + 1)
    /\ book' = [book EXCEPT !.state = "Invalid"] /\ sequence' = NoSequence

\* finalize(), or nothing.
Closing ==
    /\ UNCHANGED <<vars, received, records, lifecycle, after>>
    /\ \/ UNCHANGED manifest
       \/ /\ manifest'.status \in {"complete", "failed"}
          /\ manifest'.records \in 0 .. Len(records)
          /\ manifest'.status = "complete" => ~terminal /\ manifest'.records = Len(records)

\* Every step is of one of these kinds.
LEMMA SessionStep ==
    ASSUME Types, Indexed, Flags, [SessionNext]_sessionVars
    PROVE  Quiet \/ Refused \/ Closing \/ \E m \in Messages : Accepted(m) \/ Broken(m)
<1>1. ASSUME NEW state \in AttemptStates, Starts(state) \/ Retries(state) PROVE Quiet
  <2>1. PICK states : states = AttemptEvents(state)
    OBVIOUS
  <2>2. states \in Seq(Marks) /\ Len(states) > 0 /\ states[Len(states)] = state
    <3>1. CASE state = "Resyncing"
      <4>1. states = <<"Resyncing">> /\ "Resyncing" \in Marks
        BY <2>1, <3>1 DEF AttemptEvents, Marks, BookStates
      <4>. QED
        BY <3>1, <4>1
    <3>2. CASE state = "Disconnected"
      <4>1. states = <<"Resyncing", "Disconnected">> /\ "Resyncing" \in Marks /\ "Disconnected" \in Marks
        BY <2>1, <3>2 DEF AttemptEvents, Marks, BookStates
      <4>. QED
        BY <3>2, <4>1
    <3>. QED
      BY <3>1, <3>2 DEF AttemptStates
  <2>3. /\ Offline(state) /\ Observed(states, received) /\ UNCHANGED <<terminal, connection_id>>
        /\ Between /\ manifest.status = "in_progress" /\ ~terminal
    BY <1>1, <2>1 DEF Starts, Retries, Start, Retry, Attempt, Capturing, Flags
  <2>4. Handled(states, received) /\ UNCHANGED received
    BY <2>2, <2>3 DEF Offline, Between, Handled, FlagsKept, Types
  <2>. QED
    BY <2>4 DEF Quiet
<1>2. ASSUME Connects PROVE Quiet
  <2>1. PICK states : states = <<"Initializing">>
    OBVIOUS
  <2>2. states \in Seq(Marks) /\ Len(states) = 1 /\ states[1] = "Initializing"
    BY <2>1 DEF Marks, BookStates
  <2>3. Handled(states, received) /\ UNCHANGED received
    BY <1>2, <2>1, <2>2 DEF Connects, Connect, Between, Capturing, Handled, FlagsKept, Flags, Types
  <2>. QED
    BY <2>3 DEF Quiet
<1>3. ASSUME NEW state \in {"Disconnected", "Stale"}, Fails(state) PROVE Quiet
  <2>1. PICK states : states = <<state>>
    OBVIOUS
  <2>2. states \in Seq(Marks) /\ Len(states) = 1 /\ states[1] = state
    BY <2>1 DEF Marks, BookStates
  <2>3. Handled(states, received) /\ UNCHANGED received
    BY <1>3, <2>1, <2>2 DEF Fails, Fail, Offline, Between, Capturing, Handled, FlagsKept, Flags, Types
  <2>. QED
    BY <2>3 DEF Quiet
<1>4. ASSUME Stops PROVE Quiet
  <2>1. PICK states : states = <<"Disconnected">>
    OBVIOUS
  <2>2. states \in Seq(Marks) /\ Len(states) = 1 /\ states[1] = "Disconnected"
    BY <2>1 DEF Marks, BookStates
  <2>3. Handled(states, received) /\ UNCHANGED received
    BY <1>4, <2>1, <2>2 DEF Stops, Stop, Offline, Between, Handled, FlagsKept, Flags, Types
  <2>. QED
    BY <2>3 DEF Quiet
<1>5. PICK ends : ends = TerminalEvents
  OBVIOUS
<1>6. ends \in Seq(Marks) /\ Len(ends) > 0 /\ ends[Len(ends)] = "Invalid"
  <2>1. CASE stopping
    <3>1. ends = <<"Invalid">> /\ "Invalid" \in Marks
      BY <1>5, <2>1 DEF TerminalEvents, Marks, BookStates
    <3>. QED
      BY <3>1
  <2>2. CASE ~stopping
    <3>1. ends = <<"Disconnected", "Invalid">> /\ "Invalid" \in Marks /\ "Disconnected" \in Marks
      BY <1>5, <2>2 DEF TerminalEvents, Marks, BookStates
    <3>. QED
      BY <3>1
  <2>. QED
    BY <2>1, <2>2
<1>7. ASSUME RecordingFails PROVE Quiet
  <2>1. Handled(ends, received) /\ UNCHANGED received
    BY <1>5, <1>6, <1>7 DEF RecordingFails, TerminalRecordingFailure, Offline, Between, Handled, FlagsKept, Flags, Types
  <2>. QED
    BY <2>1 DEF Quiet
<1>8. ASSUME Refuses PROVE Refused
  <2>1. Handled(ends, received + 1) /\ received' = received + 1 /\ terminal' /\ ~terminal
    BY <1>5, <1>6, <1>8 DEF Refuses, TerminalRecordingFailure, Offline, Capturing, Handled, FlagsKept, Flags, Types
  <2>. QED
    BY <2>1 DEF Refused
<1>9. ASSUME NEW m \in Wire, Records(m) PROVE Accepted(m) \/ Broken(m)
  <2>1. Recorded(m)
    BY <1>9, SessionAssumption DEF Records, Message, Recorded, Capturing, Flags
  <2>2. CASE Outcome(m) \in Errors
    BY <1>9, <2>1, <2>2 DEF Records, Message, Offline, Broken
  <2>3. CASE Outcome(m) \notin Errors
    <3>1. UNCHANGED lifecycle
      <4>1. lifecycle' = lifecycle \o [i \in DOMAIN <<>> |-> [index |-> received + 1, state |-> <<>>[i]]]
        BY <1>9, <2>3 DEF Records, Observed
      <4>2. PICK none : none = [i \in DOMAIN <<>> |-> [index |-> received + 1, state |-> <<>>[i]]]
        OBVIOUS
      <4>3. none = <<>>
        BY <4>2
      <4>. QED
        BY <4>1, <4>2, <4>3 DEF Types
    <3>. QED
      BY <1>9, <2>1, <2>3, <3>1 DEF Records, Message, Accepted, Recorded
  <2>. QED
    BY <2>2, <2>3
<1>10. ASSUME NEW status \in {"complete", "failed"}, NEW count \in 0 .. Len(records), Finalizes(status, count)
       PROVE  Closing
  BY <1>10 DEF Finalizes, Closing
<1>11. ASSUME Finished \/ UNCHANGED sessionVars PROVE Closing
  BY <1>11 DEF Finished, sessionVars, Closing
<1>. QED
  BY <1>1, <1>2, <1>3, <1>4, <1>7, <1>8, <1>9, <1>10, <1>11, SessionAssumption DEF SessionNext, Live

\* What observe_lifecycle() adds to the log.
LEMMA EventsObserved ==
    ASSUME Types, NEW index \in Nat, NEW states \in Seq(Marks), Observed(states, index)
    PROVE  /\ lifecycle' \in Seq(LifecycleEvents) /\ Len(lifecycle') = Len(lifecycle) + Len(states)
           /\ \A k \in 1 .. Len(lifecycle) : lifecycle'[k] = lifecycle[k]
           /\ \A k \in Len(lifecycle) + 1 .. Len(lifecycle') :
                  /\ lifecycle'[k].index = index
                  /\ lifecycle'[k].state = states[k - Len(lifecycle)]
<1>1. PICK added : added = [i \in 1 .. Len(states) |-> [index |-> index, state |-> states[i]]]
  OBVIOUS
<1>2. DOMAIN states = 1 .. Len(states) /\ Len(states) \in Nat
  OBVIOUS
<1>3. lifecycle' = lifecycle \o added
  BY <1>1, <1>2 DEF Observed
<1>4. ASSUME NEW i \in 1 .. Len(states)
      PROVE  added[i].index = index /\ added[i].state = states[i] /\ added[i] \in LifecycleEvents
  <2>1. states[i] \in BookStates \ {"Valid"}
    BY DEF Marks
  <2>. QED
    BY <1>1, <2>1 DEF LifecycleEvents
<1>5. added \in Seq(LifecycleEvents) /\ Len(added) = Len(states)
  <2>1. added \in [1 .. Len(states) -> LifecycleEvents]
    BY <1>1, <1>4
  <2>. QED
    BY <1>1, <1>2, <2>1
<1>6. lifecycle \in Seq(LifecycleEvents)
  BY DEF Types
<1>7. lifecycle' \in Seq(LifecycleEvents) /\ Len(lifecycle') = Len(lifecycle) + Len(states)
  <2>1. PICK E : E = LifecycleEvents
    OBVIOUS
  <2>2. added \in Seq(E) /\ lifecycle \in Seq(E)
    BY <1>5, <1>6, <2>1
  <2>3. lifecycle \o added \in Seq(E) /\ Len(lifecycle \o added) = Len(lifecycle) + Len(added)
    BY <2>2
  <2>. QED
    BY <1>3, <1>5, <2>1, <2>3
<1>8. ASSUME NEW k \in 1 .. Len(lifecycle) PROVE lifecycle'[k] = lifecycle[k]
  BY <1>3, <1>5, <1>6
<1>9. ASSUME NEW k \in Len(lifecycle) + 1 .. Len(lifecycle')
      PROVE  lifecycle'[k].index = index /\ lifecycle'[k].state = states[k - Len(lifecycle)]
  <2>1. k - Len(lifecycle) \in 1 .. Len(states)
    BY <1>2, <1>6, <1>7
  <2>2. lifecycle'[k] = added[k - Len(lifecycle)]
    BY <1>3, <1>5, <1>6, <1>7
  <2>. QED
    BY <1>4, <2>1, <2>2
<1>. QED
  BY <1>7, <1>8, <1>9

\* The tracker and the book keep their types.
LEMMA ProcessedTyped ==
    ASSUME Types, NEW m \in Messages
    PROVE  ProcessedBook(m) \in Books /\ ProcessedSequence(m) \in Numbers
<1>1. m.sequence \in Numbers
  BY SessionAssumption DEF Messages, Numbers
<1>2. ProcessedBook(m) \in Books
  <2>1. [state |-> "Valid", last_sequence |-> m.sequence] \in Books
    BY <1>1 DEF Books, BookStates
  <2>2. [book EXCEPT !.state = "Invalid"] \in Books
    BY DEF Types, Books, BookStates
  <2>. QED
    BY <2>1, <2>2 DEF ProcessedBook, Types
<1>. QED
  BY <1>1, <1>2 DEF ProcessedSequence, Types

\* Every step keeps the types.
LEMMA TypesStep ==
    ASSUME Types, Quiet \/ Refused \/ Closing \/ \E m \in Messages : Accepted(m) \/ Broken(m)
    PROVE  Types'
<1>1. ASSUME NEW states, NEW index \in Nat, Handled(states, index), received' \in Nat PROVE Types'
  <2>1. lifecycle' \in Seq(LifecycleEvents)
    BY <1>1, EventsObserved DEF Handled
  <2>2. states[Len(states)] \in BookStates
    <3>1. Len(states) \in 1 .. Len(states) /\ states \in Seq(Marks)
      BY <1>1 DEF Handled
    <3>. QED
      BY <3>1 DEF Marks
  <2>3. book' \in Books /\ sequence' \in Numbers
    BY <1>1, <2>2 DEF Handled, Types, Books, Numbers
  <2>. QED
    BY <1>1, <2>1, <2>3 DEF Handled, FlagsKept, Types
<1>2. ASSUME Quiet \/ Refused PROVE Types'
  <2>1. received \in Nat /\ received + 1 \in Nat
    BY DEF Types
  <2>. QED
    BY <1>1, <1>2, <2>1 DEF Quiet, Refused
<1>3. ASSUME Closing PROVE Types'
  BY <1>3 DEF Closing, vars, Types
<1>4. ASSUME NEW m \in Messages, Accepted(m) \/ Broken(m) PROVE Types'
  <2>1. PICK b \in Books : b = ProcessedBook(m)
    BY ProcessedTyped
  <2>2. PICK s \in Numbers : s = ProcessedSequence(m)
    BY ProcessedTyped
  <2>3. PICK moment : moment = [book |-> b, sequence |-> s]
    OBVIOUS
  <2>4. PICK record : record = [connection |-> connection_id, message |-> m]
    OBVIOUS
  <2>5. moment \in Moments /\ record \in Envelopes
    BY <2>3, <2>4 DEF Moments, Envelopes, Types
  <2>6. records' = Append(records, record) /\ after' = Append(after, moment)
    BY <1>4, <2>1, <2>2, <2>3, <2>4 DEF Accepted, Broken, Recorded
  <2>7. records' \in Seq(Envelopes) /\ after' \in Seq(Moments)
    BY <2>5, <2>6 DEF Types
  <2>8. book' \in Books /\ sequence' \in Numbers
    BY <1>4, <2>1, <2>2 DEF Accepted, Broken, Types, Books, BookStates, Numbers
  <2>9. lifecycle' \in Seq(LifecycleEvents)
    <3>1. CASE Accepted(m)
      BY <3>1 DEF Accepted, Types
    <3>2. CASE Broken(m)
      <4>1. <<"Invalid">> \in Seq(Marks) /\ received + 1 \in Nat
        BY DEF Marks, BookStates, Types
      <4>. QED
        BY <3>2, <4>1, EventsObserved DEF Broken
    <3>. QED
      BY <1>4, <3>1, <3>2
  <2>10. received' \in Nat /\ connection_id' \in Nat
    BY <1>4 DEF Accepted, Broken, Recorded, Types
  <2>. QED
    BY <2>7, <2>8, <2>9, <2>10 DEF Types
<1>. QED
  BY <1>2, <1>3, <1>4

\* The flags, and what finalize() has written.
LEMMA FlagsStep ==
    ASSUME Types, Types', Flags, Finalized,
           Quiet \/ Refused \/ Closing \/ \E m \in Messages : Accepted(m) \/ Broken(m)
    PROVE  Flags' /\ Finalized'
<1>1. ASSUME NEW states, NEW index \in Nat, Handled(states, index) PROVE Flags' /\ Finalized'
  <2>1. Len(lifecycle') > 0
    <3>1. Len(lifecycle') = Len(lifecycle) + Len(states) /\ Len(states) > 0
      BY <1>1, EventsObserved DEF Handled
    <3>. QED
      BY <1>1, <3>1 DEF Types, Handled
  <2>2. lifecycle' # <<>>
    BY <2>1
  <2>. QED
    BY <1>1, <2>2 DEF Handled, FlagsKept, Flags, Finalized
<1>2. ASSUME Quiet \/ Refused PROVE Flags' /\ Finalized'
  <2>1. received \in Nat /\ received + 1 \in Nat
    BY DEF Types
  <2>. QED
    BY <1>1, <1>2, <2>1 DEF Quiet, Refused
<1>3. ASSUME Closing PROVE Flags' /\ Finalized'
  <2>1. Flags'
    BY <1>3 DEF Closing, vars, Flags
  <2>2. UNCHANGED <<records, terminal>>
    BY <1>3 DEF Closing, vars
  <2>. QED
    BY <1>3, <2>1, <2>2 DEF Closing, Finalized
<1>4. ASSUME NEW m \in Messages, Accepted(m) \/ Broken(m) PROVE Flags' /\ Finalized'
  <2>1. Len(records') = Len(records) + 1 /\ Len(records) \in Nat
    BY <1>4 DEF Accepted, Broken, Recorded, Types
  <2>2. manifest.records \in 0 .. Len(records')
    BY <2>1 DEF Finalized
  <2>3. Finalized'
    BY <1>4, <2>2 DEF Accepted, Broken, Recorded, Finalized
  <2>4. lifecycle' # <<>>
    <3>1. CASE Accepted(m)
      BY <3>1 DEF Accepted, Recorded, Flags
    <3>2. CASE Broken(m)
      <4>1. <<"Invalid">> \in Seq(Marks) /\ received + 1 \in Nat /\ Len(<<"Invalid">>) = 1
        BY DEF Marks, BookStates, Types
      <4>2. Len(lifecycle') = Len(lifecycle) + 1
        BY <3>2, <4>1, EventsObserved DEF Broken
      <4>. QED
        BY <4>2 DEF Types
    <3>. QED
      BY <1>4, <3>1, <3>2
  <2>5. Flags'
    BY <1>4, <2>4 DEF Accepted, Broken, Recorded, Flags
  <2>. QED
    BY <2>3, <2>5
<1>. QED
  BY <1>2, <1>3, <1>4

\* The elements of the log.
LEMMA LogTyped ==
    ASSUME Types
    PROVE  /\ Len(lifecycle) \in Nat /\ Len(records) \in Nat
           /\ \A k \in 1 .. Len(lifecycle) :
                  lifecycle[k] \in LifecycleEvents /\ lifecycle[k].index \in Nat /\ lifecycle[k].state \in Marks
           /\ \A i \in 1 .. Len(records) :
                  records[i] \in Envelopes /\ records[i].connection \in Nat /\ records[i].message \in Messages
           /\ \A i \in 0 .. Len(records) : LastConnection(i) \in Nat
<1>1. /\ Len(lifecycle) \in Nat /\ Len(records) \in Nat
      /\ \A k \in 1 .. Len(lifecycle) : lifecycle[k] \in LifecycleEvents
      /\ \A i \in 1 .. Len(records) : records[i] \in Envelopes
  BY DEF Types
<1>2. ASSUME NEW k \in 1 .. Len(lifecycle) PROVE lifecycle[k].index \in Nat /\ lifecycle[k].state \in Marks
  <2>1. lifecycle[k] \in [index : Nat, state : BookStates \ {"Valid"}]
    BY <1>1 DEF LifecycleEvents
  <2>. QED
    BY <2>1 DEF Marks
<1>3. ASSUME NEW i \in 1 .. Len(records)
      PROVE  records[i].connection \in Nat /\ records[i].message \in Messages
  <2>1. records[i] \in [connection : Nat, message : Messages]
    BY <1>1 DEF Envelopes
  <2>. QED
    BY <2>1
<1>4. ASSUME NEW i \in 0 .. Len(records) PROVE LastConnection(i) \in Nat
  BY <1>3 DEF LastConnection, NoConnection
<1>. QED
  BY <1>1, <1>2, <1>3, <1>4

\* Handlers append events with the index of the next record.
LEMMA IndexedHandled ==
    ASSUME Types, Indexed, NEW states, NEW index \in Nat, Handled(states, index), received' = index,
           received <= index, received' = Len(records) \/ (terminal' /\ received' = Len(records) + 1)
    PROVE  Indexed'
<1>1. /\ Len(lifecycle') = Len(lifecycle) + Len(states) /\ Len(lifecycle) \in Nat /\ Len(states) \in Nat
      /\ \A k \in 1 .. Len(lifecycle) : lifecycle'[k] = lifecycle[k] /\ lifecycle[k].index \in Nat
      /\ \A k \in Len(lifecycle) + 1 .. Len(lifecycle') : lifecycle'[k].index = index
  BY EventsObserved, LogTyped DEF Handled
<1>2. received \in Nat
  BY DEF Types
<1>3. ASSUME NEW k \in 1 .. Len(lifecycle') PROVE lifecycle'[k].index <= index
  BY <1>1, <1>2 DEF Indexed
<1>4. ASSUME NEW k \in 1 .. Len(lifecycle') - 1 PROVE lifecycle'[k].index <= lifecycle'[k + 1].index
  <2>1. CASE k + 1 \in 1 .. Len(lifecycle)
    <3>1. k \in 1 .. Len(lifecycle) - 1 /\ k \in 1 .. Len(lifecycle)
      BY <1>1, <2>1
    <3>. QED
      BY <1>1, <2>1, <3>1 DEF Indexed
  <2>2. CASE k + 1 \in Len(lifecycle) + 1 .. Len(lifecycle')
    <3>1. k \in 1 .. Len(lifecycle')
      BY <1>1
    <3>2. lifecycle'[k].index <= index
      BY <1>3, <3>1
    <3>. QED
      BY <1>1, <2>2, <3>2
  <2>. QED
    BY <1>1, <2>1, <2>2
<1>5. (LastConnection(Len(records)) <= connection_id)'
  <2>1. PICK c : c = LastConnection(Len(records))
    OBVIOUS
  <2>2. c \in Nat /\ c <= connection_id
    BY <2>1, LogTyped DEF Indexed
  <2>3. LastConnection(Len(records))' = c /\ connection_id <= connection_id' /\ connection_id' \in Nat
    BY <2>1 DEF Handled, LastConnection, Types, FlagsKept
  <2>. QED
    BY <2>2, <2>3 DEF Types
<1>6. UNCHANGED records
  BY DEF Handled
<1>. QED
  BY <1>3, <1>4, <1>5, <1>6 DEF Indexed

\* Recording appends one record over the current connection.
LEMMA RecordAppended ==
    ASSUME Types, Types', Chained, NEW m \in Messages, Recorded(m)
    PROVE  /\ Len(records) \in Nat /\ Len(records') = Len(records) + 1 /\ Len(after') = Len(records')
           /\ \A i \in 1 .. Len(records) : records'[i] = records[i] /\ after'[i] = after[i]
           /\ records'[Len(records) + 1].connection = connection_id
           /\ records'[Len(records) + 1].message = m
           /\ after'[Len(records) + 1] = [book |-> ProcessedBook(m), sequence |-> ProcessedSequence(m)]
<1>1. PICK record : record = [connection |-> connection_id, message |-> m]
  OBVIOUS
<1>2. PICK moment : moment = [book |-> ProcessedBook(m), sequence |-> ProcessedSequence(m)]
  OBVIOUS
<1>3. records' = Append(records, record) /\ after' = Append(after, moment)
  BY <1>1, <1>2 DEF Recorded
<1>4. Len(after) = Len(records) /\ Len(records) \in Nat /\ records \in Seq(Envelopes) /\ after \in Seq(Moments)
  BY DEF Chained, Types
<1>5. /\ Len(records') = Len(records) + 1 /\ Len(after') = Len(records')
      /\ \A i \in 1 .. Len(records) : records'[i] = records[i] /\ after'[i] = after[i]
      /\ records'[Len(records) + 1] = record /\ after'[Len(records) + 1] = moment
  BY <1>3, <1>4
<1>. QED
  BY <1>1, <1>2, <1>4, <1>5

\* Events and received envelopes stay in step.
LEMMA IndexedStep ==
    ASSUME Types, Types', Chained, Flags, Indexed,
           Quiet \/ Refused \/ Closing \/ \E m \in Messages : Accepted(m) \/ Broken(m)
    PROVE  Indexed'
<1>1. ASSUME Quiet PROVE Indexed'
  <2>1. PICK states : Handled(states, received) /\ UNCHANGED received
    BY <1>1 DEF Quiet
  <2>2. received \in Nat /\ received <= received
    BY DEF Types
  <2>3. received' = Len(records) \/ (terminal' /\ received' = Len(records) + 1)
    BY <2>1 DEF Indexed, Handled, FlagsKept
  <2>. QED
    BY <2>1, <2>2, <2>3, IndexedHandled
<1>2. ASSUME Refused PROVE Indexed'
  <2>1. PICK states : Handled(states, received + 1) /\ received' = received + 1 /\ terminal' /\ ~terminal
    BY <1>2 DEF Refused
  <2>2. received + 1 \in Nat /\ received <= received + 1
    BY DEF Types
  <2>3. received' = Len(records) + 1
    BY <2>1 DEF Indexed
  <2>. QED
    BY <2>1, <2>2, <2>3, IndexedHandled
<1>3. ASSUME Closing PROVE Indexed'
  BY <1>3 DEF Closing, vars, Indexed, LastConnection
<1>4. ASSUME NEW m \in Messages, Accepted(m) \/ Broken(m) PROVE Indexed'
  <2>1. Recorded(m)
    BY <1>4 DEF Accepted, Broken
  <2>2. /\ Len(records) \in Nat /\ Len(records') = Len(records) + 1
        /\ records'[Len(records) + 1].connection = connection_id
    BY <2>1, RecordAppended
  <2>3. received = Len(records) /\ received' = received + 1
    BY <2>1 DEF Recorded, Indexed
  <2>4. (LastConnection(Len(records)) <= connection_id)'
    <3>1. LastConnection(Len(records))' = connection_id /\ connection_id' = connection_id
      BY <2>1, <2>2 DEF LastConnection, Recorded
    <3>. QED
      BY <3>1 DEF Types
  <2>5. CASE Accepted(m)
    <3>1. UNCHANGED lifecycle
      BY <2>5 DEF Accepted
    <3>2. \A k \in 1 .. Len(lifecycle) : lifecycle[k].index <= received + 1
      BY <2>2, <2>3, LogTyped DEF Indexed
    <3>. QED
      BY <2>2, <2>3, <2>4, <3>1, <3>2 DEF Indexed
  <2>6. CASE Broken(m)
    <3>1. PICK states : states = <<"Invalid">>
      OBVIOUS
    <3>2. states \in Seq(Marks) /\ Len(states) = 1 /\ Observed(states, received + 1) /\ received + 1 \in Nat
      BY <2>2, <2>3, <2>6, <3>1 DEF Marks, BookStates, Broken
    <3>3. PICK index \in Nat : index = received + 1
      BY <3>2
    <3>4. /\ Len(lifecycle') = Len(lifecycle) + 1 /\ Len(lifecycle) \in Nat
          /\ \A k \in 1 .. Len(lifecycle) : lifecycle'[k] = lifecycle[k] /\ lifecycle[k].index \in Nat
          /\ lifecycle'[Len(lifecycle) + 1].index = index
      BY <3>2, <3>3, EventsObserved, LogTyped
    <3>5. ASSUME NEW k \in 1 .. Len(lifecycle) PROVE lifecycle'[k].index <= index
      BY <2>2, <2>3, <3>3, <3>4 DEF Indexed
    <3>6. ASSUME NEW k \in 1 .. Len(lifecycle') PROVE lifecycle'[k].index <= index
      BY <3>4, <3>5
    <3>7. ASSUME NEW k \in 1 .. Len(lifecycle') - 1 PROVE lifecycle'[k].index <= lifecycle'[k + 1].index
      <4>1. CASE k = Len(lifecycle)
        BY <3>4, <3>5, <4>1
      <4>2. CASE k # Len(lifecycle)
        <5>1. k \in 1 .. Len(lifecycle) - 1 /\ k \in 1 .. Len(lifecycle) /\ k + 1 \in 1 .. Len(lifecycle)
          BY <3>4, <4>2
        <5>. QED
          BY <3>4, <5>1 DEF Indexed
      <4>. QED
        BY <4>1, <4>2
    <3>. QED
      BY <2>2, <2>3, <2>4, <3>3, <3>6, <3>7 DEF Indexed
  <2>. QED
    BY <1>4, <2>5, <2>6
<1>. QED
  BY <1>1, <1>2, <1>3, <1>4

\* The live processor and the replay's are the same code.
LEMMA ProcessedLive ==
    ASSUME NEW m, NEW found, found.book = book, found.sequence = sequence
    PROVE  /\ Processor(found)!Outcome(m) = Outcome(m)
           /\ Processed(found, m) = [book |-> ProcessedBook(m), sequence |-> ProcessedSequence(m)]
<1>1. ASSUME NEW n PROVE Processor(found)!Observe(n) = Observe(n)
  BY DEF Processor!Observe, Observe, Processor!NoSequence, NoSequence
<1>2. Processor(found)!Outcome(m) = Outcome(m)
  BY <1>1 DEF Processor!Outcome, Outcome, Processor!NoSequence, NoSequence, Processor!Skipped, Skipped,
       Processor!OtherKinds, OtherKinds, Processor!NotL2Outcome, NotL2Outcome
<1>3. Processor(found)!ProcessedBook(m) = ProcessedBook(m)
  BY <1>2 DEF Processor!ProcessedBook, ProcessedBook, Processor!Errors, Errors
<1>4. Processor(found)!ProcessedSequence(m) = ProcessedSequence(m)
  BY <1>1 DEF Processor!ProcessedSequence, ProcessedSequence, Processor!NoSequence, NoSequence
<1>. QED
  BY <1>2, <1>3, <1>4 DEF Processed

\* The book and tracker that an open connection processes the next message with.
LEMMA OpenMoment ==
    ASSUME Types, Chained, Indexed, Flags, NEW last, Present(last), connected
    PROVE  LET n == Len(records)
               found == IF connection_id = LastConnection(n) THEN after[n] ELSE Opened(LastBook(n))
           IN /\ found.book = book /\ found.sequence = sequence /\ book.state # "Invalid"
              /\ connection_id = LastConnection(n) => n > 0 /\ after[n].book.state # "Invalid"
              /\ connection_id = LastConnection(n) <=> last = Len(lifecycle)
              /\ connection_id # LastConnection(n) => lifecycle[Len(lifecycle)].state = "Initializing"
<1>. DEFINE n == Len(records)
<1>1. n \in Nat /\ Len(lifecycle) \in Nat /\ Len(lifecycle) > 0 /\ LastConnection(n) \in Nat
  <2>1. lifecycle # <<>> /\ lifecycle \in Seq(LifecycleEvents)
    BY DEF Flags, Types
  <2>. QED
    BY <2>1, LogTyped
<1>2. received = n
  BY DEF Indexed, Flags
<1>3. CASE last = Len(lifecycle)
  <2>1. /\ n > 0 /\ book = after[n].book /\ sequence = after[n].sequence
        /\ LastConnection(n) = connection_id /\ book.state # "Invalid"
    BY <1>1, <1>2, <1>3 DEF Present
  <2>. QED
    BY <1>3, <2>1
<1>4. CASE last # Len(lifecycle)
  <2>1. /\ book.state = lifecycle[Len(lifecycle)].state /\ sequence = NoSequence
        /\ lifecycle[Len(lifecycle)].state = "Initializing" /\ LastConnection(n) < connection_id
        /\ book.last_sequence = LastBook(n).last_sequence
    BY <1>1, <1>2, <1>4 DEF Present
  <2>2. LastConnection(n) # connection_id
    BY <1>1, <2>1 DEF Types
  <2>3. book = [state |-> "Initializing", last_sequence |-> LastBook(n).last_sequence]
    BY <2>1 DEF Types, Books
  <2>. QED
    BY <1>4, <2>1, <2>2, <2>3 DEF Opened
<1>. QED
  BY <1>3, <1>4

\* The records alone determine the books.
LEMMA ChainedStep ==
    ASSUME Types, Types', Chained, Indexed, Flags, Logged,
           Quiet \/ Refused \/ Closing \/ \E m \in Messages : Accepted(m) \/ Broken(m)
    PROVE  Chained'
<1>1. ASSUME Quiet \/ Refused \/ Closing PROVE Chained'
  <2>1. UNCHANGED <<records, after>>
    BY <1>1 DEF Quiet, Refused, Closing, Handled
  <2>. QED
    BY <2>1 DEF Chained, LastConnection, LastBook, Found, Continues
<1>2. ASSUME NEW m \in Messages, Recorded(m) PROVE Chained'
  <2>1. PICK n : n = Len(records)
    OBVIOUS
  <2>2. /\ n \in Nat /\ Len(records') = n + 1 /\ Len(after') = n + 1
        /\ \A i \in 1 .. n : records'[i] = records[i] /\ after'[i] = after[i]
        /\ records'[n + 1].connection = connection_id
        /\ records'[n + 1].message = m
        /\ after'[n + 1] = [book |-> ProcessedBook(m), sequence |-> ProcessedSequence(m)]
    BY <1>2, <2>1, RecordAppended
  <2>3. ASSUME NEW i \in 0 .. n PROVE LastConnection(i)' = LastConnection(i) /\ LastBook(i)' = LastBook(i)
    BY <2>2 DEF LastConnection, LastBook
  <2>4. PICK last : Present(last)
    BY DEF Logged
  <2>5. PICK found : found = IF connection_id = LastConnection(n) THEN after[n] ELSE Opened(LastBook(n))
    OBVIOUS
  <2>6. /\ found.book = book /\ found.sequence = sequence
        /\ connection_id = LastConnection(n) => n > 0 /\ after[n].book.state # "Invalid"
    BY <1>2, <2>1, <2>4, <2>5, OpenMoment DEF Recorded
  <2>7. after'[n + 1] = Processed(found, m)
    BY <2>2, <2>6, ProcessedLive
  <2>8. ASSUME NEW i \in 1 .. n
        PROVE  /\ records'[i].connection > 0 /\ LastConnection(i - 1)' <= records'[i].connection
               /\ after'[i] = Processed(Found(i), records[i].message)'
               /\ Continues(i)' => after'[i - 1].book.state # "Invalid"
    <3>1. i - 1 \in 0 .. n /\ i \in 1 .. Len(records)
      BY <2>1, <2>2
    <3>2. records'[i] = records[i] /\ after'[i] = after[i] /\ LastConnection(i - 1)' = LastConnection(i - 1)
          /\ LastBook(i - 1)' = LastBook(i - 1)
      BY <2>2, <2>3, <3>1
    <3>3. Continues(i)' <=> Continues(i)
      BY <3>2 DEF Continues
    <3>4. Continues(i) => i - 1 \in 1 .. n
      <4>1. i = 1 => ~Continues(i)
        BY <3>1 DEF Continues, LastConnection, NoConnection, Chained
      <4>. QED
        BY <2>2, <4>1
    <3>5. Found(i)' = Found(i)
      <4>1. CASE Continues(i)
        BY <2>2, <3>3, <3>4, <4>1 DEF Found
      <4>2. CASE ~Continues(i)
        BY <3>2, <3>3, <4>2 DEF Found
      <4>. QED
        BY <4>1, <4>2
    <3>6. after[i] = Processed(Found(i), records[i].message)
      BY <3>1 DEF Chained
    <3>7. Processed(Found(i), records[i].message)' = Processed(Found(i), records[i].message)
      BY <3>2, <3>5
    <3>8. Continues(i) => after'[i - 1].book.state # "Invalid"
      BY <2>2, <3>1, <3>4 DEF Chained
    <3>9. records[i].connection > 0 /\ LastConnection(i - 1) <= records[i].connection
      BY <3>1 DEF Chained
    <3>. QED
      BY <3>2, <3>3, <3>6, <3>7, <3>8, <3>9
  <2>9. ASSUME NEW i, i = n + 1
        PROVE  /\ records'[i].connection > 0 /\ LastConnection(i - 1)' <= records'[i].connection
               /\ after'[i] = Processed(Found(i), records[i].message)'
               /\ Continues(i)' => after'[i - 1].book.state # "Invalid"
    <3>1. i - 1 = n /\ n \in 0 .. n
      BY <2>2, <2>9
    <3>2. LastConnection(n)' = LastConnection(n) /\ LastBook(n)' = LastBook(n)
      BY <2>3, <3>1
    <3>3. Continues(i)' <=> connection_id = LastConnection(n)
      BY <2>2, <2>9, <3>1, <3>2 DEF Continues
    <3>4. connection_id = LastConnection(n) => after'[n] = after[n] /\ after'[n].book.state # "Invalid"
      <4>1. n > 0 => n \in 1 .. n
        BY <2>2
      <4>. QED
        BY <2>2, <2>6, <4>1
    <3>5. Found(i)' = found
      BY <2>5, <3>1, <3>2, <3>3, <3>4 DEF Found
    <3>6. Processed(Found(i), records[i].message)' = Processed(found, m)
      BY <2>2, <2>9, <3>5
    <3>7. connection_id > 0 /\ LastConnection(n) <= connection_id
      BY <1>2, <2>1 DEF Indexed, Flags, Recorded
    <3>. QED
      BY <2>2, <2>7, <2>9, <3>1, <3>2, <3>3, <3>4, <3>6, <3>7
  <2>10. \A i \in 1 .. Len(records') : i \in 1 .. n \/ i = n + 1
    BY <2>2
  <2>. QED
    BY <2>2, <2>8, <2>9, <2>10 DEF Chained
<1>. QED
  BY <1>1, <1>2 DEF Accepted, Broken

\* Events that come after the last record leave the cut as it is.
LEMMA CutsKept ==
    ASSUME Types, NEW cut, Cuts(cut), Separated(cut), NEW index \in Nat, NEW states \in Seq(Marks),
           Observed(states, index), UNCHANGED records, Len(records) <= index
    PROVE  Cuts(cut)' /\ Separated(cut)'
<1>1. PICK e : e = Len(lifecycle)
  OBVIOUS
<1>2. PICK n : n = Len(records)
  OBVIOUS
<1>3. /\ e \in Nat /\ n \in Nat /\ Len(lifecycle') \in Nat /\ e <= Len(lifecycle')
      /\ \A k \in 1 .. e : lifecycle'[k] = lifecycle[k]
      /\ \A k \in e + 1 .. Len(lifecycle') : lifecycle'[k].index = index
  BY <1>1, <1>2, EventsObserved, LogTyped
<1>4. cut \in [0 .. n -> 0 .. e]
  BY <1>1, <1>2 DEF Cuts
<1>5. Cuts(cut)'
  <2>1. cut \in [0 .. n -> 0 .. Len(lifecycle')]
    BY <1>3, <1>4
  <2>2. ASSUME NEW k \in 1 .. Len(lifecycle'), NEW i \in 0 .. n
        PROVE  lifecycle'[k].index < i <=> k <= cut[i]
    <3>1. cut[i] \in 0 .. e
      BY <1>4
    <3>2. CASE k \in 1 .. e
      BY <1>1, <1>2, <1>3, <3>2 DEF Cuts
    <3>3. CASE k \notin 1 .. e
      <4>1. k \in e + 1 .. Len(lifecycle') /\ ~(k <= cut[i])
        BY <1>3, <3>1, <3>3
      <4>. QED
        BY <1>2, <1>3, <4>1
    <3>. QED
      BY <3>2, <3>3
  <2>. QED
    BY <1>2, <2>1, <2>2 DEF Cuts
<1>6. Separated(cut)'
  <2>1. ASSUME NEW i \in 1 .. n
        PROVE  IF Continues(i)' THEN cut[i] = cut[i - 1]
               ELSE cut[i - 1] < cut[i] /\ lifecycle'[cut[i]].state = "Initializing"
    <3>1. Continues(i)' <=> Continues(i)
      BY DEF Continues, LastConnection
    <3>2. i \in 0 .. n /\ i - 1 \in 0 .. n
      BY <1>3
    <3>3. cut[i] \in 0 .. e /\ cut[i - 1] \in 0 .. e
      BY <1>4, <3>2
    <3>4. cut[i - 1] < cut[i] => cut[i] \in 1 .. e
      BY <1>3, <3>3
    <3>. QED
      BY <1>2, <1>3, <3>1, <3>4 DEF Separated
  <2>. QED
    BY <1>2, <2>1 DEF Separated
<1>. QED
  BY <1>5, <1>6

\* A handler leaves the book to its last event.
LEMMA LoggedHandled ==
    ASSUME Types, Indexed, Logged, NEW states, NEW index \in Nat, Handled(states, index), Len(records) <= index
    PROVE  Logged'
<1>1. PICK cut : Cuts(cut) /\ Separated(cut) /\ Present(cut[Len(records)])
  BY DEF Logged
<1>2. PICK e : e = Len(lifecycle)
  OBVIOUS
<1>3. PICK n : n = Len(records)
  OBVIOUS
<1>4. PICK d : d = Len(lifecycle')
  OBVIOUS
<1>5. Cuts(cut)' /\ Separated(cut)'
  BY <1>1, CutsKept DEF Handled
<1>6. states \in Seq(Marks) /\ Len(states) \in Nat /\ Len(states) > 0
  BY DEF Handled
<1>7. e \in Nat /\ d \in Nat /\ d = e + Len(states) /\ n \in Nat /\ n \in 0 .. n
  BY <1>2, <1>3, <1>4, <1>6, EventsObserved, LogTyped DEF Handled
<1>8. lifecycle'[d].state = states[Len(states)]
  <2>1. d \in e + 1 .. d /\ d - e = Len(states)
    BY <1>6, <1>7
  <2>. QED
    BY <1>2, <1>4, <1>6, <2>1, EventsObserved DEF Handled
<1>9. cut[n] # d
  <2>1. cut[n] \in 0 .. e
    BY <1>1, <1>2, <1>3, <1>7 DEF Cuts
  <2>. QED
    BY <1>6, <1>7, <2>1
<1>10. Len(records') = n /\ LastBook(n)' = LastBook(n) /\ LastConnection(n)' = LastConnection(n)
  BY <1>3 DEF Handled, LastBook, LastConnection
<1>11. book'.last_sequence = LastBook(n).last_sequence /\ book'.state = states[Len(states)]
  BY <1>1, <1>3 DEF Handled, Types, Books, Present
<1>12. connected' => lifecycle'[d].state = "Initializing" /\ LastConnection(n) < connection_id'
  <2>1. LastConnection(n) \in Nat /\ LastConnection(n) <= connection_id /\ connection_id \in Nat
    BY <1>3, <1>7, LogTyped DEF Indexed, Types
  <2>. QED
    BY <1>8, <2>1 DEF Handled
<1>13. Present(cut[n])'
  BY <1>4, <1>8, <1>9, <1>10, <1>11, <1>12 DEF Present, Handled
<1>. QED
  BY <1>3, <1>5, <1>10, <1>13 DEF Logged, Handled

\* A record closes the events before it.
LEMMA CutsGrow ==
    ASSUME Types, Types', Chained, Indexed, Flags, NEW cut, Cuts(cut), Separated(cut), Present(cut[Len(records)]),
           NEW m \in Messages, Recorded(m), NEW states \in Seq(Marks), Observed(states, received + 1),
           NEW grown, grown = [i \in 0 .. Len(records) + 1 |-> IF i <= Len(records) THEN cut[i] ELSE Len(lifecycle)]
    PROVE  Cuts(grown)' /\ Separated(grown)'
<1>1. PICK e : e = Len(lifecycle)
  OBVIOUS
<1>2. PICK n : n = Len(records)
  OBVIOUS
<1>3. /\ n \in Nat /\ Len(records') = n + 1
      /\ \A i \in 1 .. n : records'[i] = records[i]
      /\ records'[n + 1].connection = connection_id
  BY <1>2, RecordAppended
<1>4. received = n
  BY <1>2 DEF Indexed, Recorded
<1>5. PICK index \in Nat : index = n + 1
  BY <1>3
<1>6. /\ e \in Nat /\ Len(lifecycle') \in Nat /\ e <= Len(lifecycle')
      /\ \A k \in 1 .. e : lifecycle'[k] = lifecycle[k] /\ lifecycle[k].index \in Nat
      /\ \A k \in e + 1 .. Len(lifecycle') : lifecycle'[k].index = index
  BY <1>1, <1>4, <1>5, EventsObserved, LogTyped
<1>7. cut \in [0 .. n -> 0 .. e]
  BY <1>1, <1>2 DEF Cuts
<1>8. /\ grown[n + 1] = e /\ e \in 0 .. e
      /\ \A i \in 0 .. n : grown[i] = cut[i] /\ cut[i] \in 0 .. e
  <2>1. grown = [i \in 0 .. n + 1 |-> IF i <= n THEN cut[i] ELSE e]
    BY <1>1, <1>2
  <2>2. n + 1 \in 0 .. n + 1 /\ ~(n + 1 <= n) /\ \A i \in 0 .. n : i \in 0 .. n + 1 /\ i <= n
    BY <1>3
  <2>3. grown[n + 1] = e /\ \A i \in 0 .. n : grown[i] = cut[i]
    BY <2>1, <2>2
  <2>4. e \in 0 .. e
    BY <1>6
  <2>5. \A i \in 0 .. n : cut[i] \in 0 .. e
    BY <1>7
  <2>. QED
    BY <2>3, <2>4, <2>5
<1>9. Cuts(grown)'
  <2>1. grown \in [0 .. n + 1 -> 0 .. Len(lifecycle')]
    BY <1>1, <1>2, <1>3, <1>6, <1>7
  <2>2. ASSUME NEW k \in 1 .. Len(lifecycle'), NEW i \in 0 .. n + 1
        PROVE  lifecycle'[k].index < i <=> k <= grown[i]
    <3>1. CASE k \in e + 1 .. Len(lifecycle')
      <4>1. grown[i] \in 0 .. e
        <5>1. i \in 0 .. n \/ i = n + 1
          BY <1>3
        <5>. QED
          BY <1>8, <5>1
      <4>. QED
        BY <1>3, <1>5, <1>6, <3>1, <4>1
    <3>2. CASE k \in 1 .. e /\ i \in 0 .. n
      BY <1>1, <1>2, <1>6, <1>8, <3>2 DEF Cuts
    <3>3. CASE k \in 1 .. e /\ i = n + 1
      <4>1. lifecycle[k].index <= n
        BY <1>1, <1>4, <3>3 DEF Indexed
      <4>. QED
        BY <1>3, <1>6, <1>8, <3>3, <4>1
    <3>. QED
      BY <1>3, <1>6, <3>1, <3>2, <3>3
  <2>. QED
    BY <1>3, <2>1, <2>2 DEF Cuts
<1>10. ASSUME NEW i \in 0 .. n PROVE LastConnection(i)' = LastConnection(i)
  BY <1>3 DEF LastConnection
<1>11. ASSUME NEW i \in 1 .. n
       PROVE  IF Continues(i)' THEN grown[i] = grown[i - 1]
              ELSE grown[i - 1] < grown[i] /\ lifecycle'[grown[i]].state = "Initializing"
  <2>1. i \in 0 .. n /\ i - 1 \in 0 .. n
    BY <1>3
  <2>2. Continues(i)' <=> Continues(i)
    BY <1>3, <1>10, <2>1 DEF Continues
  <2>3. grown[i] = cut[i] /\ grown[i - 1] = cut[i - 1] /\ cut[i] \in 0 .. e /\ cut[i - 1] \in 0 .. e
    BY <1>8, <2>1
  <2>4. cut[i - 1] < cut[i] => cut[i] \in 1 .. e
    BY <1>6, <2>3
  <2>5. IF Continues(i) THEN cut[i] = cut[i - 1]
        ELSE cut[i - 1] < cut[i] /\ lifecycle[cut[i]].state = "Initializing"
    BY <1>2 DEF Separated
  <2>. QED
    BY <1>6, <2>2, <2>3, <2>4, <2>5
<1>12. ASSUME NEW i, i = n + 1
       PROVE  IF Continues(i)' THEN grown[i] = grown[i - 1]
              ELSE grown[i - 1] < grown[i] /\ lifecycle'[grown[i]].state = "Initializing"
  <2>1. i - 1 = n /\ n \in 0 .. n
    BY <1>3, <1>12
  <2>2. Continues(i)' <=> connection_id = LastConnection(n)
    BY <1>3, <1>10, <1>12, <2>1 DEF Continues
  <2>3. PICK last : last = cut[n]
    OBVIOUS
  <2>4. /\ connection_id = LastConnection(n) <=> last = e
        /\ connection_id # LastConnection(n) => lifecycle[e].state = "Initializing"
    BY <1>1, <1>2, <2>3, OpenMoment DEF Recorded
  <2>5. last \in 0 .. e
    BY <1>8, <2>1, <2>3
  <2>6. last # e => last < e /\ e \in 1 .. e
    BY <1>6, <2>5
  <2>. QED
    BY <1>6, <1>8, <1>12, <2>1, <2>2, <2>3, <2>4, <2>6
<1>13. \A i \in 1 .. Len(records') : i \in 1 .. n \/ i = n + 1
  BY <1>3
<1>14. Separated(grown)'
  BY <1>11, <1>12, <1>13 DEF Separated
<1>. QED
  BY <1>9, <1>14

\* The log and the present book stay related.
LEMMA LoggedStep ==
    ASSUME Types, Types', Chained, Indexed, Flags, Logged,
           Quiet \/ Refused \/ Closing \/ \E m \in Messages : Accepted(m) \/ Broken(m)
    PROVE  Logged'
<1>1. ASSUME Quiet \/ Refused PROVE Logged'
  <2>1. received \in Nat /\ received + 1 \in Nat /\ Len(records) <= received /\ Len(records) <= received + 1
    BY LogTyped DEF Types, Indexed
  <2>. QED
    BY <1>1, <2>1, LoggedHandled DEF Quiet, Refused
<1>2. ASSUME Closing PROVE Logged'
  <2>1. UNCHANGED <<vars, received, records, lifecycle, after>>
    BY <1>2 DEF Closing
  <2>2. PICK cut : Cuts(cut) /\ Separated(cut) /\ Present(cut[Len(records)])
    BY DEF Logged
  <2>3. Cuts(cut)' /\ Separated(cut)'
    BY <2>1, <2>2 DEF Cuts, Separated, Continues, LastConnection
  <2>4. Present(cut[Len(records)])'
    BY <2>1, <2>2 DEF Present, LastBook, LastConnection, vars
  <2>. QED
    BY <2>3, <2>4 DEF Logged
<1>3. ASSUME NEW m \in Messages, NEW states,
             (Accepted(m) /\ states = <<>>) \/ (Broken(m) /\ states = <<"Invalid">>)
      PROVE  Logged'
  <2>1. PICK cut : Cuts(cut) /\ Separated(cut) /\ Present(cut[Len(records)])
    BY DEF Logged
  <2>2. PICK n : n = Len(records)
    OBVIOUS
  <2>3. PICK e : e = Len(lifecycle)
    OBVIOUS
  <2>4. PICK grown : grown = [i \in 0 .. n + 1 |-> IF i <= n THEN cut[i] ELSE e]
    OBVIOUS
  <2>5. Recorded(m)
    BY <1>3 DEF Accepted, Broken
  <2>6. /\ n \in Nat /\ Len(records') = n + 1
        /\ records'[n + 1].connection = connection_id
        /\ after'[n + 1] = [book |-> ProcessedBook(m), sequence |-> ProcessedSequence(m)]
    BY <2>2, <2>5, RecordAppended
  <2>7. states \in Seq(Marks) /\ Observed(states, received + 1)
    <3>1. CASE Broken(m) /\ states = <<"Invalid">>
      BY <3>1 DEF Broken, Marks, BookStates
    <3>2. CASE Accepted(m) /\ states = <<>>
      <4>1. PICK none : none = [i \in DOMAIN states |-> [index |-> received + 1, state |-> states[i]]]
        OBVIOUS
      <4>2. none = <<>>
        BY <3>2, <4>1
      <4>3. lifecycle' = lifecycle \o none
        BY <3>2, <4>2 DEF Accepted, Types
      <4>. QED
        BY <3>2, <4>1, <4>3 DEF Observed
    <3>. QED
      BY <1>3, <3>1, <3>2
  <2>8. Cuts(grown)' /\ Separated(grown)'
    BY <2>1, <2>2, <2>3, <2>4, <2>5, <2>7, CutsGrow
  <2>9. grown[n + 1] = e
    BY <2>4, <2>6
  <2>10. LastBook(n + 1)' = ProcessedBook(m) /\ LastConnection(n + 1)' = connection_id
    BY <2>6 DEF LastBook, LastConnection
  <2>11. received = n /\ received' = n + 1 /\ connection_id' = connection_id
    BY <2>2, <2>5 DEF Indexed, Recorded
  <2>12. book.state # "Invalid"
    BY <2>1, <2>5, OpenMoment DEF Recorded
  <2>13. Present(e)'
    <3>1. CASE Accepted(m)
      <4>1. book' = ProcessedBook(m) /\ sequence' = ProcessedSequence(m) /\ lifecycle' = lifecycle
        BY <3>1 DEF Accepted
      <4>2. ProcessedBook(m).state # "Invalid"
        BY <2>12, <3>1 DEF Accepted, ProcessedBook
      <4>. QED
        BY <2>3, <2>6, <2>10, <2>11, <4>1, <4>2 DEF Present
    <3>2. CASE Broken(m)
      <4>1. PICK ends : ends = <<"Invalid">>
        OBVIOUS
      <4>2. ends \in Seq(Marks) /\ Observed(ends, received + 1) /\ Len(ends) = 1 /\ ends[1] = "Invalid"
        BY <3>2, <4>1 DEF Broken, Marks, BookStates
      <4>3. PICK index \in Nat : index = received + 1
        BY <2>6, <2>11
      <4>4. /\ e \in Nat /\ Len(lifecycle') = e + 1
            /\ \A k \in e + 1 .. Len(lifecycle') : lifecycle'[k].state = ends[k - e]
        BY <2>3, <4>2, <4>3, EventsObserved, LogTyped
      <4>5. e + 1 \in e + 1 .. e + 1 /\ (e + 1) - e = 1
        BY <4>4
      <4>6. lifecycle'[e + 1].state = "Invalid"
        BY <4>2, <4>4, <4>5
      <4>7. ProcessedBook(m) = [book EXCEPT !.state = "Invalid"]
        BY <3>2 DEF Broken, ProcessedBook, Errors
      <4>8. book'.state = "Invalid" /\ book'.last_sequence = ProcessedBook(m).last_sequence
        BY <3>2, <4>7 DEF Broken, Types, Books
      <4>9. sequence' = NoSequence /\ ~connected'
        BY <3>2 DEF Broken
      <4>10. e # e + 1
        BY <4>4
      <4>. QED
        BY <2>6, <2>10, <4>4, <4>6, <4>8, <4>9, <4>10 DEF Present
    <3>. QED
      BY <1>3, <3>1, <3>2
  <2>. QED
    BY <2>6, <2>8, <2>9, <2>13 DEF Logged
<1>4. ASSUME NEW m \in Messages, Accepted(m) \/ Broken(m) PROVE Logged'
  <2>1. PICK states : states = IF Accepted(m) THEN <<>> ELSE <<"Invalid">>
    OBVIOUS
  <2>2. (Accepted(m) /\ states = <<>>) \/ (Broken(m) /\ states = <<"Invalid">>)
    <3>1. CASE Accepted(m)
      BY <2>1, <3>1
    <3>2. CASE ~Accepted(m)
      BY <1>4, <2>1, <3>2
    <3>. QED
      BY <3>1, <3>2
  <2>. QED
    BY <1>3, <2>2
<1>. QED
  BY <1>1, <1>2, <1>4

-----------------------------------------------------------------------------
\* Log, book and manifest fit together in every state of a capture.
THEOREM SessionInvariant == SessionSpec => []Inv
<1>1. ASSUME SessionInit PROVE Inv
  <2>1. /\ records = <<>> /\ lifecycle = <<>> /\ after = <<>> /\ received = 0 /\ connection_id = 0
        /\ stopping = TRUE /\ terminal = FALSE /\ connected = FALSE /\ sequence = NoSequence
        /\ book = [state |-> "Disconnected", last_sequence |-> NoSequence]
        /\ manifest = [status |-> "in_progress", records |-> 0]
    BY <1>1 DEF SessionInit, Init
  <2>2. Len(records) = 0 /\ Len(lifecycle) = 0 /\ Len(after) = 0
    BY <2>1
  <2>3. Types
    BY <2>1 DEF Types, Books, Numbers, BookStates
  <2>4. Chained
    BY <2>2 DEF Chained
  <2>5. Indexed
    BY <2>1, <2>2 DEF Indexed, LastConnection, NoConnection
  <2>6. Flags
    BY <2>1 DEF Flags
  <2>7. Finalized
    BY <2>1, <2>2 DEF Finalized
  <2>8. Logged
    <3>1. PICK cut : cut = [i \in 0 .. 0 |-> 0]
      OBVIOUS
    <3>2. cut[0] = 0 /\ cut \in [0 .. 0 -> 0 .. 0]
      BY <3>1
    <3>3. Cuts(cut) /\ Separated(cut)
      BY <2>2, <3>2 DEF Cuts, Separated
    <3>4. Present(cut[Len(records)])
      BY <2>1, <2>2, <3>2 DEF Present, LastBook
    <3>. QED
      BY <3>3, <3>4 DEF Logged
  <2>. QED
    BY <2>3, <2>4, <2>5, <2>6, <2>7, <2>8 DEF Inv
<1>2. ASSUME Inv, [SessionNext]_sessionVars PROVE Inv'
  <2>1. Types /\ Chained /\ Logged /\ Indexed /\ Flags /\ Finalized
    BY <1>2 DEF Inv
  <2>2. Quiet \/ Refused \/ Closing \/ \E m \in Messages : Accepted(m) \/ Broken(m)
    BY <1>2, <2>1, SessionStep
  <2>3. Types'
    BY <2>1, <2>2, TypesStep
  <2>4. Chained' /\ Indexed' /\ Logged'
    BY <2>1, <2>2, <2>3, ChainedStep, IndexedStep, LoggedStep
  <2>5. Flags' /\ Finalized'
    BY <2>1, <2>2, <2>3, FlagsStep
  <2>. QED
    BY <2>3, <2>4, <2>5 DEF Inv
<1>. QED
  BY <1>1, <1>2, PTL DEF SessionSpec

-----------------------------------------------------------------------------
(***************************************************************************)
(* What sessions::replay computes.                                         *)
(***************************************************************************)
\* A replay that has not thrown.
Replaying(b, s, number, count, opened) ==
    [book |-> b, sequence |-> s, connection |-> number, consumed |-> count,
     lifecycle_connected |-> opened, thrown |-> FALSE]

\* The book b after the events from + 1 .. to.
Since(b, from, to, events) == IF to = from THEN b ELSE [b EXCEPT !.state = events[to].state]

\* apply_lifecycle() consumes the events of its index and no others.
LEMMA DueIs ==
    ASSUME NEW r, NEW from \in Nat, NEW to \in Nat, NEW events \in Seq(LifecycleEvents), NEW index,
           r.consumed = from, from <= to, to <= Len(events),
           \A k \in from + 1 .. to : events[k].index = index,
           to = Len(events) \/ events[to + 1].index # index
    PROVE  Due(r, events, index) = SubSeq(events, from + 1, to)
<1>. DEFINE ends == {n \in r.consumed .. Len(events) : \A i \in r.consumed + 1 .. n : events[i].index = index}
            last == CHOOSE n \in ends : \A k \in ends : k <= n
<1>1. Len(events) \in Nat
  OBVIOUS
<1>2. to \in ends
  BY <1>1
<1>3. ASSUME NEW k \in ends PROVE k <= to
  <2>1. k \in from .. Len(events) /\ \A i \in from + 1 .. k : events[i].index = index
    OBVIOUS
  <2>2. CASE to = Len(events)
    BY <1>1, <2>1, <2>2
  <2>3. CASE events[to + 1].index # index
    <3>1. k <= to \/ to + 1 \in from + 1 .. k
      BY <1>1, <2>1
    <3>. QED
      BY <2>1, <2>3, <3>1
  <2>. QED
    BY <2>2, <2>3
<1>4. last = to
  <2>1. last \in ends /\ \A k \in ends : k <= last
    BY <1>2, <1>3
  <2>2. ends \subseteq Nat
    BY <1>1
  <2>. HIDE DEF last, ends
  <2>. QED
    BY <1>2, <1>3, <2>1, <2>2
<1>5. Due(r, events, index) = SubSeq(events, r.consumed + 1, last)
  BY Zenon DEF Due
<1>. HIDE DEF last
<1>. QED
  BY <1>4, <1>5

\* x is the state after the events from + 1 .. to.
Applied(x, b, s, number, from, to, events) ==
    \E opened :
        /\ x = Replaying(Since(b, from, to, events), IF to = from THEN s ELSE NoSequence, number, to, opened)
        /\ opened \in BOOLEAN
        /\ to = from => opened = FALSE

\* The state after apply_lifecycle().
LEMMA LifecycleApplied ==
    ASSUME NEW b \in Books, NEW s, NEW number, NEW l, NEW from \in Nat, NEW to \in Nat,
           NEW events \in Seq(LifecycleEvents), NEW index,
           from <= to, to <= Len(events), \A k \in from + 1 .. to : events[k].index = index,
           to = Len(events) \/ events[to + 1].index # index
    PROVE  Applied(ApplyLifecycle(Replaying(b, s, number, from, l), events, index), b, s, number, from, to, events)
<1>1. PICK r : r = Replaying(b, s, number, from, l)
  OBVIOUS
<1>2. r.consumed = from /\ r.book = b /\ r.sequence = s
  BY <1>1 DEF Replaying
<1>3. PICK due : due = SubSeq(events, from + 1, to)
  OBVIOUS
<1>4. Due(r, events, index) = due
  BY <1>2, <1>3, DueIs
<1>5. PICK opened \in BOOLEAN : opened = \E i \in DOMAIN due : due[i].state = "Initializing"
  OBVIOUS
<1>6. Len(due) = to - from /\ from + Len(due) = to /\ DOMAIN due = 1 .. to - from
  BY <1>3
<1>7. to = from => due = <<>> /\ opened = FALSE
  BY <1>3, <1>5, <1>6
<1>8. to # from => due # <<>> /\ to - from \in DOMAIN due /\ due[to - from] = events[to] /\ Last(due) = events[to]
  BY <1>3, <1>6 DEF Last
<1>10. PICK mark : mark = IF due = <<>> THEN b.state ELSE Last(due).state
  OBVIOUS
<1>11. PICK tracker : tracker = IF due = <<>> THEN s ELSE NoSequence
  OBVIOUS
<1>12. ApplyLifecycle(r, events, index) =
           [r EXCEPT !.consumed = r.consumed + Len(due), !.lifecycle_connected = opened,
                     !.book.state = IF due = <<>> THEN @ ELSE Last(due).state,
                     !.sequence = IF due = <<>> THEN @ ELSE NoSequence]
  BY <1>4, <1>5, Zenon DEF ApplyLifecycle
<1>13. [b EXCEPT !.state = mark] = Since(b, from, to, events)
  <2>1. CASE to = from
    BY <1>7, <1>10, <2>1 DEF Since, Books
  <2>2. CASE to # from
    BY <1>8, <1>10, <2>2 DEF Since
  <2>. QED
    BY <2>1, <2>2
<1>14. tracker = IF to = from THEN s ELSE NoSequence
  BY <1>7, <1>8, <1>11
<1>15. ApplyLifecycle(r, events, index) = Replaying([b EXCEPT !.state = mark], tracker, number, to, opened)
  <2>1. PICK no : no = FALSE
    OBVIOUS
  <2>2. r = [book |-> b, sequence |-> s, connection |-> number, consumed |-> from,
             lifecycle_connected |-> l, thrown |-> no]
    BY <1>1, <2>1, Zenon DEF Replaying
  <2>3. PICK x : x = ApplyLifecycle(r, events, index)
    OBVIOUS
  <2>4. x = [book |-> [b EXCEPT !.state = mark], sequence |-> tracker, connection |-> number, consumed |-> to,
             lifecycle_connected |-> opened, thrown |-> no]
    BY <1>6, <1>10, <1>11, <1>12, <2>2, <2>3
  <2>. QED
    BY <2>1, <2>3, <2>4, Zenon DEF Replaying
<1>. QED
  BY <1>1, <1>5, <1>7, <1>13, <1>14, <1>15, Zenon DEF Applied

\* Events that have opened a connection end with it.
OpenedBy(l, b) == l \in BOOLEAN /\ (l = TRUE => b.state = "Initializing")

\* The state after the change of connection: a book whose events have opened the
\* connection is kept.
LEMMA ConnectionChanged ==
    ASSUME NEW b \in Books, NEW s, NEW number, NEW next, NEW count, NEW l, number # next, OpenedBy(l, b)
    PROVE  ChangeConnection(Replaying(b, s, number, count, l), next) =
               Replaying(Opened(b).book, Opened(b).sequence, next, count, l)
<1>1. PICK r : r = Replaying(b, s, number, count, l)
  OBVIOUS
<1>2. PICK no : no = FALSE
  OBVIOUS
<1>3. r = [book |-> b, sequence |-> s, connection |-> number, consumed |-> count,
           lifecycle_connected |-> l, thrown |-> no]
  BY <1>1, <1>2, Zenon DEF Replaying
<1>4. PICK fresh : fresh = [b EXCEPT !.state = IF l = TRUE THEN @ ELSE "Initializing"]
  OBVIOUS
<1>5. fresh = Opened(b).book /\ NoSequence = Opened(b).sequence
  BY <1>4 DEF OpenedBy, Opened, Books
<1>6. PICK x : x = ChangeConnection(r, next)
  OBVIOUS
<1>7. r.connection = number /\ r.lifecycle_connected = l
  BY <1>3
<1>8. x = [r EXCEPT !.book.state = IF r.lifecycle_connected THEN @ ELSE "Initializing",
                    !.sequence = NoSequence, !.connection = next]
  BY <1>6, <1>7 DEF ChangeConnection
<1>9. r.lifecycle_connected = (l = TRUE)
  BY <1>7 DEF OpenedBy
<1>10. x = [r EXCEPT !.book.state = IF l = TRUE THEN @ ELSE "Initializing",
                     !.sequence = NoSequence, !.connection = next]
  BY <1>8, <1>9
<1>11. x = [book |-> fresh, sequence |-> NoSequence, connection |-> next, consumed |-> count,
            lifecycle_connected |-> l, thrown |-> no]
  BY <1>3, <1>4, <1>10
<1>. QED
  BY <1>1, <1>2, <1>5, <1>6, <1>11, Zenon DEF Replaying

\* A record of the same connection changes nothing before it is processed.
LEMMA ConnectionKept ==
    ASSUME NEW b, NEW s, NEW number, NEW count, NEW l
    PROVE  ChangeConnection(Replaying(b, s, number, count, l), number) = Replaying(b, s, number, count, l)
  BY DEF ChangeConnection, Replaying

\* Processing depends on nothing but the book and the tracker.
LEMMA ProcessedSame ==
    ASSUME NEW r, NEW q, r.book = q.book, r.sequence = q.sequence, NEW m
    PROVE  /\ Processor(r)!Outcome(m) = Processor(q)!Outcome(m)
           /\ Processor(r)!ProcessedBook(m) = Processor(q)!ProcessedBook(m)
           /\ Processor(r)!ProcessedSequence(m) = Processor(q)!ProcessedSequence(m)
<1>1. Processor(r)!Observe(m.sequence) = Processor(q)!Observe(m.sequence)
  BY DEF Processor!Observe, Processor!NoSequence
<1>2. Processor(r)!Outcome(m) = Processor(q)!Outcome(m)
  BY <1>1 DEF Processor!Outcome, Processor!NoSequence, Processor!Skipped, Processor!OtherKinds,
              Processor!NotL2Outcome
<1>3. Processor(r)!ProcessedBook(m) = Processor(q)!ProcessedBook(m)
  BY <1>2 DEF Processor!ProcessedBook, Processor!Errors
<1>4. Processor(r)!ProcessedSequence(m) = Processor(q)!ProcessedSequence(m)
  BY <1>1 DEF Processor!ProcessedSequence, Processor!NoSequence
<1>. QED
  BY <1>2, <1>3, <1>4

\* x has processed m, or has thrown at its heartbeat.
Taken(x, found, m, number, count, l) ==
    LET done == Processed(found, m)
    IN \/ x.thrown = TRUE /\ m.kind = "bad_heartbeat" /\ done.book.state = "Invalid"
       \/ x = Replaying(done.book, done.sequence, number, count, l)

\* A record is processed as it was live, or its heartbeat ends the replay.
LEMMA RecordProcessed ==
    ASSUME NEW b \in Books, NEW s, NEW number, NEW count, NEW l, NEW m, NEW found,
           found.book = b, found.sequence = s
    PROVE  Taken(ProcessRecord(Replaying(b, s, number, count, l), m), found, m, number, count, l)
<1>1. PICK r : r = Replaying(b, s, number, count, l)
  OBVIOUS
<1>2. PICK no : no = FALSE
  OBVIOUS
<1>3. r = [book |-> b, sequence |-> s, connection |-> number, consumed |-> count,
           lifecycle_connected |-> l, thrown |-> no]
  BY <1>1, <1>2, Zenon DEF Replaying
<1>4. r.book = found.book /\ r.sequence = found.sequence
  BY <1>3
<1>5. PICK x : x = ProcessRecord(r, m)
  OBVIOUS
<1>6. PICK done : done = Processed(found, m)
  OBVIOUS
<1>7. /\ done.book = Processor(found)!ProcessedBook(m)
      /\ done.sequence = Processor(found)!ProcessedSequence(m)
  BY <1>6 DEF Processed
<1>8. CASE Processor(r)!Outcome(m) = "HeartbeatThrows"
  <2>1. x = [r EXCEPT !.thrown = TRUE]
    BY <1>5, <1>8, Zenon DEF ProcessRecord
  <2>2. x.thrown = TRUE
    BY <1>3, <2>1
  <2>3. Processor(found)!Outcome(m) = "HeartbeatThrows"
    BY <1>4, <1>8, ProcessedSame
  <2>4. done.book = [b EXCEPT !.state = "Invalid"]
    BY <1>7, <2>3 DEF Processor!ProcessedBook, Processor!Errors
  <2>5. done.book.state = "Invalid"
    BY <2>4 DEF Books
  <2>6. m.kind = "bad_heartbeat"
    BY <1>8 DEF Processor!Outcome, Processor!Observe, Processor!NoSequence, Processor!Skipped, Processor!OtherKinds,
                Processor!NotL2Outcome
  <2>. QED
    BY <1>1, <1>5, <1>6, <2>2, <2>5, <2>6, Zenon DEF Taken
<1>9. CASE Processor(r)!Outcome(m) # "HeartbeatThrows"
  <2>1. /\ Processor(r)!ProcessedBook(m) = done.book
        /\ Processor(r)!ProcessedSequence(m) = done.sequence
    BY <1>4, <1>7, ProcessedSame
  <2>2. x = [r EXCEPT !.book = done.book, !.sequence = done.sequence]
    BY <1>5, <1>9, <2>1, Zenon DEF ProcessRecord
  <2>3. x = [book |-> done.book, sequence |-> done.sequence, connection |-> number, consumed |-> count,
             lifecycle_connected |-> l, thrown |-> no]
    BY <1>3, <2>2
  <2>4. x = Replaying(done.book, done.sequence, number, count, l)
    BY <1>2, <2>3, Zenon DEF Replaying
  <2>. QED
    BY <1>1, <1>5, <1>6, <2>4, Zenon DEF Taken
<1>. QED
  BY <1>8, <1>9

\* One turn of the replay's loop.
Turn(r, events, i) ==
    IF r.thrown THEN r
    ELSE ProcessRecord(ChangeConnection(ApplyLifecycle(r, events, i - 1), records[i].connection),
                       records[i].message)

\* The recursive definition of ReplayRecords defines a function.
LEMMA ReplayExists ==
    ASSUME NEW events, NEW count \in Nat
    PROVE  \E g : /\ g[0] = ReplayInit(events)
                  /\ \A i \in 1 .. count : g[i] = Turn(g[i - 1], events, i)
                  /\ g[count] = ReplayRecords(events, count)
<1>. DEFINE Upto(g, n) == g = [i \in 0 .. n |-> IF i = 0 THEN ReplayInit(events) ELSE Turn(g[i - 1], events, i)]
            S == {n \in Nat : \E g : Upto(g, n)}
<1>1. 0 \in S
  <2>1. Upto([i \in 0 .. 0 |-> ReplayInit(events)], 0)
    OBVIOUS
  <2>. QED
    BY <2>1
<1>2. ASSUME NEW n \in Nat, n \in S PROVE n + 1 \in S
  <2>1. PICK g : Upto(g, n)
    BY <1>2
  <2>. DEFINE h == [i \in 0 .. n + 1 |-> IF i <= n THEN g[i] ELSE Turn(g[n], events, n + 1)]
  <2>2. Upto(h, n + 1)
    <3>1. ASSUME NEW i \in 0 .. n + 1
          PROVE  h[i] = IF i = 0 THEN ReplayInit(events) ELSE Turn(h[i - 1], events, i)
      <4>1. CASE i <= n
        BY <2>1, <4>1
      <4>2. CASE i = n + 1
        BY <2>1, <4>2
      <4>. QED
        BY <4>1, <4>2
    <3>. QED
      BY <3>1
  <2>. HIDE DEF Upto, h
  <2>. QED
    BY <2>2
<1>3. \A n \in Nat : n \in S
  <2>. HIDE DEF S
  <2>. QED
    BY <1>1, <1>2, SetInduction
<1>4. \E g : Upto(g, count)
  BY <1>3
<1>. DEFINE step[i \in 0 .. count] ==
                IF i = 0 THEN ReplayInit(events)
                ELSE IF step[i - 1].thrown THEN step[i - 1]
                ELSE ProcessRecord(ChangeConnection(ApplyLifecycle(step[i - 1], events, i - 1),
                                                    records[i].connection),
                                   records[i].message)
<1>5. Upto(step, count)
  BY <1>4, Zenon DEF Turn
<1>6. ReplayRecords(events, count) = step[count]
  BY Zenon DEF ReplayRecords
<1>7. /\ step[0] = ReplayInit(events)
      /\ \A i \in 1 .. count : step[i] = Turn(step[i - 1], events, i)
  <2>. HIDE DEF step
  <2>. QED
    BY <1>5
<1>. HIDE DEF step
<1>. QED
  BY <1>6, <1>7

\* The events a replay consumes before record i are cut[i - 1] + 1 .. cut[i], and
\* they are placed where connections change.
Placed(events, cut) ==
    /\ events \in Seq(LifecycleEvents)
    /\ cut \in [0 .. Len(records) -> 0 .. Len(events)] /\ cut[0] = 0
    /\ \A i \in 1 .. Len(records) :
           /\ cut[i - 1] <= cut[i]
           /\ \A k \in cut[i - 1] + 1 .. cut[i] : events[k].index = i - 1
           /\ cut[i] = Len(events) \/ events[cut[i] + 1].index # i - 1
           /\ IF Continues(i) THEN cut[i] = cut[i - 1]
              ELSE cut[i - 1] < cut[i] => events[cut[i]].state = "Initializing"

\* The observed events are.
LEMMA LogPlaced ==
    ASSUME Types, NEW cut, Cuts(cut), Separated(cut)
    PROVE  Placed(lifecycle, cut)
<1>. DEFINE n == Len(records)
            e == Len(lifecycle)
<1>1. n \in Nat /\ e \in Nat /\ lifecycle \in Seq(LifecycleEvents)
  BY DEF Types
<1>2. \A k \in 1 .. e : lifecycle[k].index \in Nat
  <2>1. ASSUME NEW k \in 1 .. e PROVE lifecycle[k] \in LifecycleEvents
    BY <1>1
  <2>. QED
    BY <2>1 DEF LifecycleEvents
<1>3. cut \in [0 .. n -> 0 .. e] /\ \A i \in 0 .. n : cut[i] \in 0 .. e
  BY DEF Cuts
<1>4. \A k \in 1 .. e : \A i \in 0 .. n : lifecycle[k].index < i <=> k <= cut[i]
  BY DEF Cuts
<1>. HIDE DEF n, e
<1>5. cut[0] = 0
  <2>1. cut[0] \in 0 .. e /\ 0 \in 0 .. n
    BY <1>1, <1>3
  <2>2. CASE cut[0] # 0
    <3>1. 1 \in 1 .. e /\ 1 <= cut[0]
      BY <1>1, <2>1, <2>2
    <3>2. lifecycle[1].index < 0 /\ lifecycle[1].index \in Nat
      BY <1>2, <1>4, <2>1, <3>1
    <3>. QED
      BY <3>2
  <2>. QED
    BY <2>2
<1>6. ASSUME NEW i \in 1 .. n
      PROVE  /\ cut[i - 1] <= cut[i]
             /\ \A k \in cut[i - 1] + 1 .. cut[i] : lifecycle[k].index = i - 1
             /\ cut[i] = e \/ lifecycle[cut[i] + 1].index # i - 1
             /\ IF Continues(i) THEN cut[i] = cut[i - 1]
                ELSE cut[i - 1] < cut[i] => lifecycle[cut[i]].state = "Initializing"
  <2>1. i - 1 \in 0 .. n /\ i \in 0 .. n /\ i \in Nat
    BY <1>1
  <2>2. cut[i - 1] \in 0 .. e /\ cut[i] \in 0 .. e
    BY <1>3, <2>1
  <2>3. cut[i - 1] <= cut[i]
    <3>1. CASE cut[i - 1] = 0
      BY <1>1, <2>2, <3>1
    <3>2. CASE cut[i - 1] # 0
      <4>1. cut[i - 1] \in 1 .. e /\ cut[i - 1] <= cut[i - 1]
        BY <1>1, <2>2, <3>2
      <4>2. lifecycle[cut[i - 1]].index < i - 1 /\ lifecycle[cut[i - 1]].index \in Nat
        BY <1>2, <1>4, <2>1, <4>1
      <4>3. lifecycle[cut[i - 1]].index < i
        BY <2>1, <4>2
      <4>. QED
        BY <1>4, <2>1, <4>1, <4>3
    <3>. QED
      BY <3>1, <3>2
  <2>4. ASSUME NEW k \in cut[i - 1] + 1 .. cut[i] PROVE lifecycle[k].index = i - 1
    <3>1. k \in 1 .. e /\ ~(k <= cut[i - 1]) /\ k <= cut[i]
      BY <1>1, <2>2
    <3>2. lifecycle[k].index < i /\ ~(lifecycle[k].index < i - 1) /\ lifecycle[k].index \in Nat
      BY <1>2, <1>4, <2>1, <3>1
    <3>. QED
      BY <2>1, <3>2
  <2>5. cut[i] = e \/ lifecycle[cut[i] + 1].index # i - 1
    <3>1. CASE cut[i] # e
      <4>1. cut[i] + 1 \in 1 .. e /\ ~(cut[i] + 1 <= cut[i])
        BY <1>1, <2>2, <3>1
      <4>2. ~(lifecycle[cut[i] + 1].index < i) /\ lifecycle[cut[i] + 1].index \in Nat
        BY <1>2, <1>4, <2>1, <4>1
      <4>. QED
        BY <2>1, <4>2
    <3>. QED
      BY <3>1
  <2>6. IF Continues(i) THEN cut[i] = cut[i - 1]
        ELSE cut[i - 1] < cut[i] => lifecycle[cut[i]].state = "Initializing"
    BY DEF n, Separated
  <2>. QED
    BY <2>3, <2>4, <2>5, <2>6
<1>. QED
  BY <1>1, <1>3, <1>5, <1>6 DEF Placed, n, e

\* So is the absence of events.
LEMMA NothingPlaced ==
    ASSUME Types, NEW cut, cut = [i \in 0 .. Len(records) |-> 0]
    PROVE  Placed(<<>>, cut)
<1>1. Len(records) \in Nat
  BY DEF Types
<1>2. <<>> \in Seq(LifecycleEvents) /\ Len(<<>>) = 0
  OBVIOUS
<1>3. cut \in [0 .. Len(records) -> 0 .. 0] /\ \A i \in 0 .. Len(records) : cut[i] = 0
  OBVIOUS
<1>4. ASSUME NEW i \in 1 .. Len(records) PROVE cut[i] = 0 /\ cut[i - 1] = 0
  BY <1>1, <1>3
<1>. QED
  BY <1>1, <1>2, <1>3, <1>4 DEF Placed

\* A replay after record i: it has thrown at a heartbeat, or it is where the live
\* manager was.
Replayed(r, i, cut) ==
    \/ r.thrown = TRUE /\ \E j \in 1 .. i : ThrowingRecord(j)
    \/ \E b \in Books : \E s, l :
           /\ r = Replaying(b, s, LastConnection(i), cut[i], l)
           /\ b.last_sequence = LastBook(i).last_sequence
           /\ i > 0 => b = after[i].book /\ s = after[i].sequence

\* One turn takes the replay from one record to the next.
LEMMA TurnReplays ==
    ASSUME Types, Chained, NEW events, NEW cut, Placed(events, cut), NEW i \in 1 .. Len(records), NEW r,
           Replayed(r, i - 1, cut)
    PROVE  Replayed(Turn(r, events, i), i, cut)
<1>1. Len(records) \in Nat /\ i \in Nat /\ i - 1 \in Nat /\ i - 1 \in 0 .. Len(records) /\ i \in 0 .. Len(records)
  BY DEF Types
<1>2. CASE r.thrown = TRUE /\ \E j \in 1 .. i - 1 : ThrowingRecord(j)
  <2>1. Turn(r, events, i) = r
    BY <1>2, Zenon DEF Turn
  <2>2. \E j \in 1 .. i : ThrowingRecord(j)
    BY <1>1, <1>2
  <2>. QED
    BY <1>2, <2>1, <2>2 DEF Replayed
<1>3. ASSUME NEW b \in Books, NEW s, NEW l, r = Replaying(b, s, LastConnection(i - 1), cut[i - 1], l),
             b.last_sequence = LastBook(i - 1).last_sequence,
             i - 1 > 0 => b = after[i - 1].book /\ s = after[i - 1].sequence
      PROVE  Replayed(Turn(r, events, i), i, cut)
  <2>1. PICK from, to, old, next, m :
            from = cut[i - 1] /\ to = cut[i] /\ old = LastConnection(i - 1) /\ next = records[i].connection
            /\ m = records[i].message
    OBVIOUS
  <2>2. /\ from \in Nat /\ to \in Nat /\ from <= to /\ to <= Len(events) /\ events \in Seq(LifecycleEvents)
        /\ \A k \in from + 1 .. to : events[k].index = i - 1
        /\ to = Len(events) \/ events[to + 1].index # i - 1
    <3>1. cut[i] \in 0 .. Len(events) /\ cut[i - 1] \in 0 .. Len(events)
      BY <1>1 DEF Placed
    <3>2. events \in Seq(LifecycleEvents) /\ Len(events) \in Nat
      BY DEF Placed
    <3>. QED
      BY <2>1, <3>1, <3>2 DEF Placed
  <2>3. IF Continues(i) THEN to = from ELSE from < to => events[to].state = "Initializing"
    BY <2>1 DEF Placed
  <2>4. PICK b1, s1 : b1 = Since(b, from, to, events) /\ s1 = IF to = from THEN s ELSE NoSequence
    OBVIOUS
  <2>5. b1 \in Books /\ b1.last_sequence = b.last_sequence /\ (to # from => b1.state = events[to].state)
    <3>1. to # from => events[to] \in LifecycleEvents
      BY <2>2
    <3>. QED
      BY <2>4, <3>1 DEF Since, Books, LifecycleEvents
  <2>6. r = Replaying(b, s, old, from, l)
    BY <1>3, <2>1
  <2>7. PICK opened \in BOOLEAN :
            ApplyLifecycle(r, events, i - 1) = Replaying(b1, s1, old, to, opened) /\ (to = from => opened = FALSE)
    <3>1. PICK index : index = i - 1
      OBVIOUS
    <3>2. /\ \A k \in from + 1 .. to : events[k].index = index
          /\ to = Len(events) \/ events[to + 1].index # index
      BY <2>2, <3>1
    <3>3. Applied(ApplyLifecycle(Replaying(b, s, old, from, l), events, index), b, s, old, from, to, events)
      BY <1>3, <2>2, <3>2, LifecycleApplied
    <3>. QED
      BY <2>4, <2>6, <3>1, <3>3, Zenon DEF Applied
  <2>8. r.thrown = FALSE
    BY <2>6 DEF Replaying
  <2>9. PICK x : x = ChangeConnection(ApplyLifecycle(r, events, i - 1), next)
    OBVIOUS
  <2>10. Turn(r, events, i) = ProcessRecord(x, m)
    BY <2>1, <2>8, <2>9, Zenon DEF Turn
  <2>11. PICK found, done : found = Found(i) /\ done = after[i]
    OBVIOUS
  <2>12. found.book \in Books /\ x = Replaying(found.book, found.sequence, next, to, opened)
    <3>1. CASE Continues(i)
      <4>1. i - 1 > 0
        BY <1>1, <3>1 DEF Continues, LastConnection, NoConnection, Chained
      <4>2. b1 = b /\ s1 = s
        BY <2>3, <2>4, <3>1 DEF Since
      <4>3. found = after[i - 1]
        BY <2>11, <3>1 DEF Found
      <4>4. next = old
        BY <2>1, <3>1 DEF Continues
      <4>5. x = Replaying(b, s, next, to, opened)
        BY <2>7, <2>9, <4>2, <4>4, ConnectionKept
      <4>. QED
        BY <1>3, <4>1, <4>3, <4>5
    <3>2. CASE ~Continues(i)
      <4>1. OpenedBy(opened, b1)
        BY <2>2, <2>3, <2>5, <2>7, <3>2 DEF OpenedBy
      <4>2. old # next
        BY <2>1, <3>2 DEF Continues
      <4>3. x = Replaying(Opened(b1).book, Opened(b1).sequence, next, to, opened)
        <5>1. ChangeConnection(Replaying(b1, s1, old, to, opened), next) =
                  Replaying(Opened(b1).book, Opened(b1).sequence, next, to, opened)
          BY <2>5, <4>1, <4>2, ConnectionChanged
        <5>. QED
          BY <2>7, <2>9, <5>1, Zenon
      <4>4. found = Opened(b1)
        BY <1>3, <2>5, <2>11, <3>2 DEF Found, Opened
      <4>5. found.book \in Books
        BY <1>3, <2>5, <4>4 DEF Opened, Books, BookStates
      <4>. QED
        BY <4>3, <4>4, <4>5
    <3>. QED
      BY <3>1, <3>2
  <2>13. done = Processed(found, m)
    BY <2>1, <2>11 DEF Chained
  <2>14. \/ Turn(r, events, i).thrown = TRUE /\ m.kind = "bad_heartbeat" /\ done.book.state = "Invalid"
         \/ Turn(r, events, i) = Replaying(done.book, done.sequence, next, to, opened)
    <3>1. PICK b2, s2 : b2 = found.book /\ s2 = found.sequence
      OBVIOUS
    <3>2. b2 \in Books /\ x = Replaying(b2, s2, next, to, opened)
      BY <2>12, <3>1
    <3>3. Taken(ProcessRecord(x, m), found, m, next, to, opened)
      BY <3>1, <3>2, RecordProcessed
    <3>. QED
      BY <2>10, <2>13, <3>3, Zenon DEF Taken
  <2>15. done.book \in Books
    <3>1. i \in 1 .. Len(after) /\ after \in Seq(Moments)
      BY DEF Chained, Types
    <3>2. after[i] \in Moments
      BY <3>1
    <3>. QED
      BY <2>11, <3>2 DEF Moments
  <2>16. CASE Turn(r, events, i).thrown = TRUE /\ m.kind = "bad_heartbeat" /\ done.book.state = "Invalid"
    <3>1. i \in 1 .. i /\ ThrowingRecord(i)
      BY <1>1, <2>1, <2>11, <2>16 DEF ThrowingRecord
    <3>. QED
      BY <2>16, <3>1 DEF Replayed
  <2>17. CASE Turn(r, events, i) = Replaying(done.book, done.sequence, next, to, opened)
    <3>1. next = LastConnection(i) /\ LastBook(i) = done.book /\ to = cut[i]
      BY <1>1, <2>1, <2>11 DEF LastConnection, LastBook
    <3>. QED
      BY <2>11, <2>15, <2>17, <3>1 DEF Replayed
  <2>. QED
    BY <2>14, <2>16, <2>17
<1>. QED
  BY <1>2, <1>3 DEF Replayed

\* The replay of any number of records.
LEMMA RecordsReplayed ==
    ASSUME Types, Chained, NEW events, NEW cut, Placed(events, cut), NEW count \in 0 .. Len(records)
    PROVE  Replayed(ReplayRecords(events, count), count, cut)
<1>1. Len(records) \in Nat /\ count \in Nat
  BY DEF Types
<1>2. PICK g : /\ g[0] = ReplayInit(events)
               /\ \A i \in 1 .. count : g[i] = Turn(g[i - 1], events, i)
               /\ g[count] = ReplayRecords(events, count)
  BY <1>1, ReplayExists
<1>. DEFINE S == {n \in Nat : n <= count => Replayed(g[n], n, cut)}
<1>3. 0 \in S
  <2>1. PICK mark \in {"Initializing", "Disconnected"} : mark = IF events = <<>> THEN "Initializing" ELSE "Disconnected"
    OBVIOUS
  <2>2. PICK b : b = [state |-> mark, last_sequence |-> NoSequence]
    OBVIOUS
  <2>3. b \in Books /\ b.last_sequence = NoSequence
    BY <2>1, <2>2 DEF Books, BookStates, Numbers
  <2>4. ReplayInit(events) = Replaying(b, NoSequence, NoConnection, 0, FALSE)
    BY <2>1, <2>2, Zenon DEF ReplayInit, Replaying
  <2>5. LastConnection(0) = NoConnection /\ LastBook(0).last_sequence = NoSequence /\ cut[0] = 0
    BY DEF LastConnection, LastBook, Placed
  <2>6. g[0] = Replaying(b, NoSequence, LastConnection(0), cut[0], FALSE)
    BY <1>2, <2>4, <2>5, Zenon
  <2>7. ~(0 > 0)
    OBVIOUS
  <2>8. Replayed(g[0], 0, cut)
    BY <2>3, <2>5, <2>6, <2>7, Zenon DEF Replayed
  <2>. QED
    BY <2>8
<1>4. ASSUME NEW n \in Nat, n \in S PROVE n + 1 \in S
  <2>. SUFFICES ASSUME n + 1 <= count PROVE Replayed(g[n + 1], n + 1, cut)
    OBVIOUS
  <2>1. n + 1 \in 1 .. count /\ n + 1 \in 1 .. Len(records) /\ (n + 1) - 1 = n /\ n <= count
    BY <1>1
  <2>2. g[n + 1] = Turn(g[n], events, n + 1) /\ Replayed(g[n], n, cut)
    BY <1>2, <1>4, <2>1
  <2>3. PICK i : i = n + 1
    OBVIOUS
  <2>4. i \in 1 .. Len(records) /\ i - 1 = n /\ Replayed(g[n], i - 1, cut)
    BY <2>1, <2>2, <2>3
  <2>5. Replayed(Turn(g[n], events, i), i, cut)
    BY <2>4, TurnReplays
  <2>. QED
    BY <2>2, <2>3, <2>5
<1>5. \A n \in Nat : n \in S
  <2>. HIDE DEF S
  <2>. QED
    BY <1>3, <1>4, SetInduction
<1>6. Replayed(g[count], count, cut)
  BY <1>1, <1>5
<1>. QED
  BY <1>2, <1>6

\* Whatever its index, apply_lifecycle() consumes some of the events.
LEMMA SomeApplied ==
    ASSUME NEW b \in Books, NEW s, NEW number, NEW l, NEW events \in Seq(LifecycleEvents), NEW index,
           NEW from \in 0 .. Len(events)
    PROVE  \E to \in from .. Len(events) :
               Applied(ApplyLifecycle(Replaying(b, s, number, from, l), events, index), b, s, number, from, to, events)
<1>. DEFINE T == {k \in from .. Len(events) : k = Len(events) \/ events[k + 1].index # index}
<1>1. Len(events) \in Nat /\ from \in Nat
  OBVIOUS
<1>2. Len(events) \in T /\ T \subseteq Nat
  BY <1>1
<1>3. PICK to \in T : \A k \in T : to <= k
  <2>. HIDE DEF T
  <2>. QED
    BY <1>2, LeastNatural
<1>4. to \in from .. Len(events) /\ to \in Nat /\ from <= to /\ to <= Len(events)
  BY <1>1
<1>5. ASSUME NEW k \in from + 1 .. to PROVE events[k].index = index
  <2>1. k - 1 \in from .. Len(events) /\ k - 1 # Len(events) /\ k - 1 \in Nat /\ ~(to <= k - 1) /\ (k - 1) + 1 = k
    BY <1>1, <1>4
  <2>2. k - 1 \notin T
    BY <1>3, <2>1
  <2>3. events[(k - 1) + 1].index = index
    BY <2>1, <2>2
  <2>. QED
    BY <2>1, <2>3
<1>6. to = Len(events) \/ events[to + 1].index # index
  OBVIOUS
<1>. HIDE DEF T
<1>7. Applied(ApplyLifecycle(Replaying(b, s, number, from, l), events, index), b, s, number, from, to, events)
  BY <1>1, <1>4, <1>5, <1>6, LifecycleApplied
<1>. QED
  BY <1>4, <1>7

\* While no envelope was refused, the events after the last record are all consumed.
LEMMA RestApplied ==
    ASSUME Types, Indexed, received = Len(records), NEW cut, Cuts(cut), NEW b \in Books, NEW s, NEW number, NEW l
    PROVE  /\ Applied(ApplyLifecycle(Replaying(b, s, number, cut[Len(records)], l), lifecycle, Len(records)),
                      b, s, number, cut[Len(records)], Len(lifecycle), lifecycle)
           /\ cut[Len(records)] \in 0 .. Len(lifecycle)
<1>1. PICK n, e, from : n = Len(records) /\ e = Len(lifecycle) /\ from = cut[Len(records)]
  OBVIOUS
<1>2. n \in Nat /\ e \in Nat /\ n \in 0 .. n
  BY <1>1 DEF Types
<1>3. from \in 0 .. e
  BY <1>1, <1>2 DEF Cuts
<1>4. ASSUME NEW k \in from + 1 .. e PROVE lifecycle[k].index = n
  <2>1. k \in 1 .. e /\ ~(k <= from)
    BY <1>2, <1>3
  <2>2. lifecycle[k] \in LifecycleEvents
    BY <1>1, <2>1 DEF Types
  <2>3. lifecycle[k].index \in Nat
    BY <2>2 DEF LifecycleEvents
  <2>4. lifecycle[k].index <= n
    BY <1>1, <2>1 DEF Indexed
  <2>5. ~(lifecycle[k].index < n)
    BY <1>1, <1>2, <2>1 DEF Cuts
  <2>. QED
    BY <1>2, <2>3, <2>4, <2>5
<1>5. PICK events : events = lifecycle
  OBVIOUS
<1>6. /\ events \in Seq(LifecycleEvents) /\ from \in Nat /\ from <= e /\ e <= Len(events) /\ e = Len(events)
      /\ \A k \in from + 1 .. e : events[k].index = n
  BY <1>1, <1>2, <1>3, <1>4, <1>5 DEF Types
<1>7. Applied(ApplyLifecycle(Replaying(b, s, number, from, l), events, n), b, s, number, from, e, events)
  BY <1>2, <1>6, LifecycleApplied
<1>. QED
  BY <1>1, <1>3, <1>5, <1>7

\* The replay of the whole log gives the live book and tracker.
LEMMA WholeLog ==
    ASSUME Inv
    PROVE  LogDeterminesBook
<1>. SUFFICES ASSUME lifecycle # <<>>, received = Len(records), NEW r,
                     r = Replay("in_progress", lifecycle, Len(records))
              PROVE  IF r.thrown THEN \E i \in DOMAIN records : ThrowingRecord(i)
                     ELSE r.book = book /\ r.sequence = sequence
  BY DEF LogDeterminesBook
<1>1. Types /\ Chained /\ Logged /\ Indexed
  BY DEF Inv
<1>2. PICK cut : Cuts(cut) /\ Separated(cut) /\ Present(cut[Len(records)])
  BY <1>1 DEF Logged
<1>3. PICK n, e, last : n = Len(records) /\ e = Len(lifecycle) /\ last = cut[Len(records)]
  OBVIOUS
<1>4. n \in Nat /\ e \in Nat /\ e > 0 /\ DOMAIN records = 1 .. n /\ n \in 0 .. Len(records)
  BY <1>1, <1>3 DEF Types
<1>5. PICK read, done : read = ReplayRecords(lifecycle, n) /\ done = ApplyLifecycle(read, lifecycle, n)
  OBVIOUS
<1>6. Replayed(read, n, cut)
  <2>1. Placed(lifecycle, cut)
    BY <1>1, <1>2, LogPlaced
  <2>2. PICK events : events = lifecycle
    OBVIOUS
  <2>3. Replayed(ReplayRecords(events, n), n, cut)
    BY <1>1, <1>4, <2>1, <2>2, RecordsReplayed
  <2>. QED
    BY <1>5, <2>2, <2>3
<1>7. r = IF read.thrown THEN read ELSE done
  BY <1>3, <1>5 DEF Replay
<1>8. CASE read.thrown = TRUE /\ \E j \in 1 .. n : ThrowingRecord(j)
  <2>1. r = read /\ r.thrown
    BY <1>7, <1>8
  <2>. QED
    BY <1>4, <1>8, <2>1
<1>9. ASSUME NEW b \in Books, NEW s, NEW l, read = Replaying(b, s, LastConnection(n), cut[n], l),
             b.last_sequence = LastBook(n).last_sequence, n > 0 => b = after[n].book /\ s = after[n].sequence
      PROVE  r.thrown = FALSE /\ r.book = book /\ r.sequence = sequence
  <2>1. r = done
    <3>1. read.thrown = FALSE
      BY <1>9 DEF Replaying
    <3>. QED
      BY <1>7, <3>1
  <2>2. PICK number : number = LastConnection(n)
    OBVIOUS
  <2>3. /\ Applied(ApplyLifecycle(Replaying(b, s, number, last, l), lifecycle, n), b, s, number, last, e, lifecycle)
        /\ last \in 0 .. e
    BY <1>1, <1>2, <1>3, RestApplied
  <2>4. read = Replaying(b, s, number, last, l)
    BY <1>3, <1>9, <2>2
  <2>5. Applied(done, b, s, number, last, e, lifecycle)
    BY <1>5, <2>3, <2>4
  <2>6. PICK opened :
            done = Replaying(Since(b, last, e, lifecycle), IF e = last THEN s ELSE NoSequence, number, e, opened)
    BY <2>5, Zenon DEF Applied
  <2>7. /\ done.book = Since(b, last, e, lifecycle) /\ done.sequence = IF e = last THEN s ELSE NoSequence
        /\ done.thrown = FALSE
    BY <2>6 DEF Replaying
  <2>8. /\ book.last_sequence = b.last_sequence
        /\ IF last = e THEN n > 0 /\ book = after[n].book /\ sequence = after[n].sequence
           ELSE book.state = lifecycle[e].state /\ sequence = NoSequence
    BY <1>2, <1>3, <1>4, <1>9 DEF Present
  <2>9. CASE last = e
    BY <1>9, <2>1, <2>7, <2>8, <2>9 DEF Since
  <2>10. CASE last # e
    <3>1. book \in Books
      BY <1>1 DEF Types
    <3>2. book = [b EXCEPT !.state = lifecycle[e].state]
      BY <2>8, <2>10, <3>1 DEF Books
    <3>. QED
      BY <2>1, <2>7, <2>8, <2>10, <3>2 DEF Since
  <2>. QED
    BY <2>9, <2>10
<1>10. CASE \E b \in Books : \E s, l :
                /\ read = Replaying(b, s, LastConnection(n), cut[n], l)
                /\ b.last_sequence = LastBook(n).last_sequence
                /\ n > 0 => b = after[n].book /\ s = after[n].sequence
  <2>1. r.thrown = FALSE /\ r.book = book /\ r.sequence = sequence
    BY <1>9, <1>10
  <2>. QED
    BY <2>1
<1>. QED
  BY <1>6, <1>8, <1>10 DEF Replayed

\* The live manager and the replay agree: at every moment of a started run the
\* records and lifecycle events observed so far determine the live book and
\* tracker, unless a heartbeat ends the replay.
THEOREM LogReplays == SessionSpec => []LogDeterminesBook
  BY SessionInvariant, WholeLog, PTL

\* The replay of the records alone gives the book of the last one.
LEMMA RecordsAlone ==
    ASSUME Inv
    PROVE  PrefixReplayMatches
<1>. SUFFICES ASSUME Len(records) > 0, NEW r, r = ReplayRecords(<<>>, Len(records)), ~r.thrown
              PROVE  r.book = after[Len(records)].book /\ r.sequence = after[Len(records)].sequence
  BY DEF PrefixReplayMatches
<1>1. Types /\ Chained
  BY DEF Inv
<1>2. PICK n, cut : n = Len(records) /\ cut = [i \in 0 .. Len(records) |-> 0]
  OBVIOUS
<1>3. Placed(<<>>, cut)
  BY <1>1, <1>2, NothingPlaced
<1>4. PICK none : none = <<>>
  OBVIOUS
<1>5. n \in 0 .. Len(records) /\ n > 0
  BY <1>1, <1>2 DEF Types
<1>6. Replayed(ReplayRecords(none, n), n, cut)
  BY <1>1, <1>3, <1>4, <1>5, RecordsReplayed
<1>7. Replayed(r, n, cut) /\ r.thrown # TRUE
  BY <1>2, <1>4, <1>6
<1>8. PICK b, s, l : r = Replaying(b, s, LastConnection(n), cut[n], l)
                               /\ (n > 0 => b = after[n].book /\ s = after[n].sequence)
  BY <1>7 DEF Replayed
<1>9. r.book = b /\ r.sequence = s
  BY <1>8 DEF Replaying
<1>. QED
  BY <1>2, <1>5, <1>8, <1>9

\* A capture without lifecycle events replays, after every record, to the book and
\* tracker of that moment: connection changes can be inferred from the records.
THEOREM PrefixReplays == SessionSpec => []PrefixReplayMatches
  BY SessionInvariant, RecordsAlone, PTL

\* The events are in order and hold the states a manifest may name.
LEMMA EventsValid ==
    ASSUME Types, Indexed, NEW status, NEW count, status = "complete" => count = received
    PROVE  ValidEvents(status, lifecycle, count)
<1>1. DOMAIN lifecycle = 1 .. Len(lifecycle) /\ \A i \in 1 .. Len(lifecycle) : lifecycle[i] \in LifecycleEvents
  BY DEF Types
<1>2. \A i \in DOMAIN lifecycle : lifecycle[i].state \in BookStates \ {"Valid"}
  BY <1>1 DEF LifecycleEvents
<1>. QED
  BY <1>1, <1>2 DEF ValidEvents, Indexed

\* A manifest that says complete is consistent with the log.
LEMMA CompleteReplays ==
    ASSUME Inv
    PROVE  CompleteIsConsistent
<1>. SUFFICES ASSUME manifest.status = "complete" PROVE CompleteIsConsistent
  BY DEF CompleteIsConsistent
<1>1. Types /\ Chained /\ Logged /\ Indexed
  BY DEF Inv
<1>2. manifest.records = Len(records) /\ received = Len(records)
  BY DEF Inv, Finalized, Indexed
<1>3. PICK n, e, events : n = Len(records) /\ e = Len(lifecycle) /\ events = lifecycle
  OBVIOUS
<1>4. ValidEvents("complete", lifecycle, n) /\ ConsistentProgress("complete", n)
  BY <1>1, <1>2, <1>3, EventsValid DEF ConsistentProgress
<1>5. PICK cut : Cuts(cut) /\ Separated(cut)
  BY <1>1 DEF Logged
<1>6. n \in 0 .. Len(records)
  BY <1>1, <1>3 DEF Types
<1>7. PICK read : read = ReplayRecords(events, n)
  OBVIOUS
<1>8. Replayed(read, n, cut)
  BY <1>1, <1>3, <1>5, <1>6, <1>7, LogPlaced, RecordsReplayed
<1>9. read.thrown \/ ApplyLifecycle(read, events, n).consumed = e
  <2>1. CASE read.thrown = TRUE
    BY <2>1
  <2>2. ASSUME NEW b \in Books, NEW s, NEW l, read = Replaying(b, s, LastConnection(n), cut[n], l)
        PROVE  ApplyLifecycle(read, events, n).consumed = e
    <3>1. PICK number, last, done : number = LastConnection(n) /\ last = cut[n] /\ done = ApplyLifecycle(read, events, n)
      OBVIOUS
    <3>2. Applied(ApplyLifecycle(Replaying(b, s, number, last, l), lifecycle, n), b, s, number, last, e, lifecycle)
      BY <1>1, <1>2, <1>3, <1>5, <3>1, RestApplied
    <3>3. Applied(done, b, s, number, last, e, lifecycle)
      BY <1>3, <2>2, <3>1, <3>2
    <3>4. PICK opened :
              done = Replaying(Since(b, last, e, lifecycle), IF e = last THEN s ELSE NoSequence, number, e, opened)
      BY <3>3, Zenon DEF Applied
    <3>5. done.consumed = e
      BY <3>4 DEF Replaying
    <3>. QED
      BY <3>1, <3>5
  <2>. QED
    BY <1>8, <2>1, <2>2 DEF Replayed
<1>10. /\ ValidEvents("complete", lifecycle, manifest.records)
       /\ ConsistentProgress("complete", manifest.records)
  BY <1>2, <1>3, <1>4
<1>11. LET r == ReplayRecords(lifecycle, manifest.records)
       IN r.thrown \/ ApplyLifecycle(r, lifecycle, manifest.records).consumed = Len(lifecycle)
  BY <1>2, <1>3, <1>7, <1>9
<1>. QED
  BY <1>10, <1>11 DEF CompleteIsConsistent

\* A manifest that says failed replays to the records it counts.
LEMMA FailedReplays ==
    ASSUME Inv
    PROVE  FailedReplayIsPrefix
<1>1. Types /\ Chained /\ Logged /\ Indexed /\ Finalized
  BY DEF Inv
<1>2. SUFFICES ASSUME manifest.status = "failed", NEW n, n = manifest.records, NEW r,
                      r = Replay("failed", lifecycle, n)
               PROVE  /\ ValidEvents("failed", lifecycle, n)
                      /\ ~r.thrown => /\ r.book.state = "Invalid"
                                      /\ n > 0 => r.book.last_sequence = after[n].book.last_sequence
  BY DEF FailedReplayIsPrefix
<1>3. ValidEvents("failed", lifecycle, n)
  BY <1>1, EventsValid
<1>4. n \in 0 .. Len(records)
  BY <1>1, <1>2 DEF Finalized
<1>5. PICK cut : Cuts(cut) /\ Separated(cut)
  BY <1>1 DEF Logged
<1>6. PICK events, read, done :
          events = lifecycle /\ read = ReplayRecords(events, n) /\ done = ApplyLifecycle(read, events, n)
  OBVIOUS
<1>7. Placed(events, cut)
  BY <1>1, <1>5, <1>6, LogPlaced
<1>8. Replayed(read, n, cut)
  BY <1>1, <1>4, <1>6, <1>7, RecordsReplayed
<1>9. r = IF read.thrown THEN read ELSE [done EXCEPT !.book.state = "Invalid", !.sequence = NoSequence]
  BY <1>2, <1>6 DEF Replay
<1>10. CASE read.thrown = TRUE
  BY <1>3, <1>9, <1>10
<1>11. ASSUME NEW b \in Books, NEW s, NEW l, read = Replaying(b, s, LastConnection(n), cut[n], l),
              n > 0 => b = after[n].book /\ s = after[n].sequence
       PROVE  /\ r.book.state = "Invalid"
              /\ n > 0 => r.book.last_sequence = after[n].book.last_sequence
  <2>1. PICK number, from : number = LastConnection(n) /\ from = cut[n]
    OBVIOUS
  <2>2. events \in Seq(LifecycleEvents) /\ from \in 0 .. Len(events)
    BY <1>4, <1>7, <2>1 DEF Placed
  <2>3. PICK to \in from .. Len(events) :
            Applied(ApplyLifecycle(Replaying(b, s, number, from, l), events, n), b, s, number, from, to, events)
    BY <2>2, SomeApplied
  <2>4. Applied(done, b, s, number, from, to, events)
    BY <1>6, <1>11, <2>1, <2>3
  <2>5. PICK opened :
            done = Replaying(Since(b, from, to, events), IF to = from THEN s ELSE NoSequence, number, to, opened)
    BY <2>4, Zenon DEF Applied
  <2>6. PICK b1, s1, no : /\ b1 = Since(b, from, to, events) /\ s1 = IF to = from THEN s ELSE NoSequence
                          /\ no = FALSE
    OBVIOUS
  <2>7. done = [book |-> b1, sequence |-> s1, connection |-> number, consumed |-> to,
                lifecycle_connected |-> opened, thrown |-> no]
    BY <2>5, <2>6, Zenon DEF Replaying
  <2>8. b1 = [b EXCEPT !.state = b1.state] /\ b1.last_sequence = b.last_sequence /\ DOMAIN b1 = {"state", "last_sequence"}
    BY <2>6 DEF Since, Books
  <2>9. read.thrown = FALSE
    BY <1>11 DEF Replaying
  <2>10. r = [done EXCEPT !.book.state = "Invalid", !.sequence = NoSequence]
    BY <1>9, <2>9
  <2>11. r.book = [b1 EXCEPT !.state = "Invalid"]
    BY <2>7, <2>10
  <2>12. r.book.state = "Invalid" /\ r.book.last_sequence = b1.last_sequence
    BY <2>8, <2>11
  <2>. QED
    BY <1>11, <2>8, <2>12
<1>. QED
  BY <1>3, <1>8, <1>10, <1>11 DEF Replayed

\* A finalized manifest never contradicts its log: a complete one passes every
\* check of the replay, a failed one replays to an Invalid book at its last record.
THEOREM FinalizedManifestsReplay == SessionSpec => []FinalizedReplays
<1>1. Inv => FinalizedReplays
  BY CompleteReplays, FailedReplays DEF FinalizedReplays
<1>. QED
  BY <1>1, SessionInvariant, PTL

-----------------------------------------------------------------------------
(***************************************************************************)
(* What the raw replay computes.                                           *)
(***************************************************************************)
Pipeline(b, s, number, halted) == [book |-> b, sequence |-> s, connection |-> number, stopped |-> halted]

\* The pipeline after record i: where the live manager was, unless the record's
\* heartbeat threw.
Piped(p, i) ==
    \E b \in Books : \E s, halted :
        /\ p = Pipeline(b, s, LastConnection(i), halted)
        /\ b.last_sequence = LastBook(i).last_sequence
        /\ i > 0 => /\ halted = FALSE \/ after[i].book.state = "Invalid"
                    /\ ~ThrowingRecord(i) => b = after[i].book /\ s = after[i].sequence

\* One turn of its loop.
PipelineTurn(p, i) ==
    IF records[i].connection < p.connection THEN [p EXCEPT !.book.state = "Invalid", !.stopped = TRUE]
    ELSE PipelineProcess(IF records[i].connection = p.connection THEN p
                         ELSE PipelineReset(p, records[i].connection), records[i].message)

\* The recursive definition of PipelineReplay defines a function.
LEMMA PipelineExists ==
    ASSUME NEW count \in Nat
    PROVE  \E g : /\ g[0] = PipelineInit
                  /\ \A i \in 1 .. count : g[i] = PipelineTurn(g[i - 1], i)
                  /\ g[count] = PipelineReplay(count)
<1>. DEFINE Upto(g, n) == g = [i \in 0 .. n |-> IF i = 0 THEN PipelineInit ELSE PipelineTurn(g[i - 1], i)]
            S == {n \in Nat : \E g : Upto(g, n)}
<1>1. 0 \in S
  <2>1. Upto([i \in 0 .. 0 |-> PipelineInit], 0)
    OBVIOUS
  <2>. QED
    BY <2>1
<1>2. ASSUME NEW n \in Nat, n \in S PROVE n + 1 \in S
  <2>1. PICK g : Upto(g, n)
    BY <1>2
  <2>. DEFINE h == [i \in 0 .. n + 1 |-> IF i <= n THEN g[i] ELSE PipelineTurn(g[n], n + 1)]
  <2>2. Upto(h, n + 1)
    <3>1. ASSUME NEW i \in 0 .. n + 1
          PROVE  h[i] = IF i = 0 THEN PipelineInit ELSE PipelineTurn(h[i - 1], i)
      <4>1. CASE i <= n
        BY <2>1, <4>1
      <4>2. CASE i = n + 1
        BY <2>1, <4>2
      <4>. QED
        BY <4>1, <4>2
    <3>. QED
      BY <3>1
  <2>. HIDE DEF Upto, h
  <2>. QED
    BY <2>2
<1>3. \A n \in Nat : n \in S
  <2>. HIDE DEF S
  <2>. QED
    BY <1>1, <1>2, SetInduction
<1>4. \E g : Upto(g, count)
  BY <1>3
<1>. DEFINE step[i \in 0 .. count] ==
                IF i = 0 THEN PipelineInit
                ELSE LET p == step[i - 1]
                         connection == records[i].connection
                     IN IF connection < p.connection
                        THEN [p EXCEPT !.book.state = "Invalid", !.stopped = TRUE]
                        ELSE PipelineProcess(IF connection = p.connection THEN p
                                             ELSE PipelineReset(p, connection), records[i].message)
<1>5. Upto(step, count)
  BY <1>4, Zenon DEF PipelineTurn
<1>6. PipelineReplay(count) = step[count]
  BY Zenon DEF PipelineReplay
<1>7. step[0] = PipelineInit /\ \A i \in 1 .. count : step[i] = PipelineTurn(step[i - 1], i)
  <2>. HIDE DEF step
  <2>. QED
    BY <1>5
<1>. HIDE DEF step
<1>. QED
  BY <1>6, <1>7

\* p has processed m as the live processor did, a throwing heartbeat aside.
Passed(p, found, m, number) ==
    \E b \in Books : \E halted :
        /\ p = Pipeline(b, Processed(found, m).sequence, number, halted)
        /\ b.last_sequence = Processed(found, m).book.last_sequence
        /\ halted = FALSE \/ Processed(found, m).book.state = "Invalid"
        /\ b = Processed(found, m).book \/ (Processed(found, m).book.state = "Invalid" /\ m.kind = "bad_heartbeat")

\* CoinbaseMessagePipeline::process against CoinbaseMessageProcessor::process.
LEMMA PipelinePasses ==
    ASSUME NEW m \in Messages, NEW found, NEW b \in Books, NEW s, found.book = b, found.sequence = s, NEW number
    PROVE  Passed(PipelineProcess(Pipeline(b, s, number, FALSE), m), found, m, number)
<1>1. PICK no : no = FALSE
  OBVIOUS
<1>2. PICK p : p = Pipeline(b, s, number, FALSE)
  OBVIOUS
<1>3. p = [book |-> b, sequence |-> s, connection |-> number, stopped |-> no]
  BY <1>1, <1>2, Zenon DEF Pipeline
<1>4. p.book = found.book /\ p.sequence = found.sequence /\ p.book = b
  BY <1>3
<1>5. p.stopped = FALSE
  BY <1>2 DEF Pipeline
<1>6. PICK outcome, done : outcome = Processor(found)!Outcome(m) /\ done = Processed(found, m)
  OBVIOUS
<1>7. /\ Processor(p)!Outcome(m) = outcome /\ Processor(p)!ProcessedBook(m) = done.book
      /\ Processor(p)!ProcessedSequence(m) = done.sequence
  <2>1. done.book = Processor(found)!ProcessedBook(m) /\ done.sequence = Processor(found)!ProcessedSequence(m)
    BY <1>6 DEF Processed
  <2>. QED
    BY <1>4, <1>6, <2>1, ProcessedSame
<1>8. PICK halted : halted = (outcome \in Errors \ {"HeartbeatThrows"})
  OBVIOUS
<1>9. PICK b1 : b1 = IF outcome = "HeartbeatThrows" THEN b ELSE done.book
  OBVIOUS
<1>10. PICK x : x = PipelineProcess(p, m)
  OBVIOUS
<1>11. x = [p EXCEPT !.stopped = halted, !.sequence = done.sequence,
                     !.book = IF outcome = "HeartbeatThrows" THEN @ ELSE done.book]
  BY <1>5, <1>7, <1>8, <1>10, Zenon DEF PipelineProcess
<1>12. x = [book |-> b1, sequence |-> done.sequence, connection |-> number, stopped |-> halted]
  BY <1>3, <1>9, <1>11
<1>13. x = Pipeline(b1, done.sequence, number, halted)
  BY <1>12, Zenon DEF Pipeline
<1>14. done.book = IF outcome = "BookUpdated" THEN [state |-> "Valid", last_sequence |-> m.sequence]
                   ELSE IF outcome \in Errors THEN [b EXCEPT !.state = "Invalid"] ELSE b
  BY <1>4, <1>6 DEF Processed, Processor!ProcessedBook, Processor!Errors, Errors
<1>15. done.book \in Books
  <2>1. m.sequence \in Numbers
    BY SessionAssumption DEF Messages, Numbers
  <2>. QED
    BY <1>14, <2>1 DEF Books, BookStates
<1>16. outcome \in Errors => done.book.state = "Invalid" /\ done.book.last_sequence = b.last_sequence
  BY <1>14 DEF Errors, Books
<1>17. outcome = "HeartbeatThrows" => m.kind = "bad_heartbeat" /\ outcome \in Errors
  BY <1>6 DEF Processor!Outcome, Processor!Observe, Processor!NoSequence, Processor!Skipped, Processor!OtherKinds,
              Processor!NotL2Outcome, Errors
<1>18. halted = FALSE \/ done.book.state = "Invalid"
  <2>1. CASE outcome \in Errors
    BY <1>16, <2>1
  <2>2. CASE outcome \notin Errors
    <3>1. (outcome \in Errors \ {"HeartbeatThrows"}) = FALSE
      BY <2>2
    <3>. QED
      BY <1>8, <3>1, Zenon
  <2>. QED
    BY <2>1, <2>2
<1>19. b1 \in Books /\ b1.last_sequence = done.book.last_sequence
  BY <1>9, <1>15, <1>16, <1>17
<1>20. b1 = done.book \/ (done.book.state = "Invalid" /\ m.kind = "bad_heartbeat")
  BY <1>9, <1>16, <1>17
<1>. QED
  BY <1>2, <1>6, <1>10, <1>13, <1>18, <1>19, <1>20, Zenon DEF Passed

\* One turn takes the pipeline from one record to the next.
LEMMA TurnPipes ==
    ASSUME Types, Chained, NEW i \in 1 .. Len(records), NEW p, Piped(p, i - 1)
    PROVE  Piped(PipelineTurn(p, i), i)
<1>1. Len(records) \in Nat /\ i \in Nat /\ i - 1 \in Nat
  BY DEF Types
<1>2. PICK b, s, halted :
          /\ b \in Books
          /\ p = Pipeline(b, s, LastConnection(i - 1), halted)
          /\ b.last_sequence = LastBook(i - 1).last_sequence
          /\ i - 1 > 0 => /\ halted = FALSE \/ after[i - 1].book.state = "Invalid"
                          /\ ~ThrowingRecord(i - 1) => b = after[i - 1].book /\ s = after[i - 1].sequence
  BY DEF Piped
<1>3. PICK old, next, m : old = LastConnection(i - 1) /\ next = records[i].connection /\ m = records[i].message
  OBVIOUS
<1>4. records[i] \in Envelopes
  BY DEF Types
<1>5. next \in Nat /\ m \in Messages
  BY <1>3, <1>4 DEF Envelopes
<1>6. old <= next /\ (Continues(i) => next = old /\ i - 1 > 0 /\ after[i - 1].book.state # "Invalid")
  BY <1>1, <1>3 DEF Chained, Continues, LastConnection, NoConnection
<1>7. old \in Nat
  <2>1. CASE i - 1 = 0
    BY <1>3, <2>1 DEF LastConnection, NoConnection
  <2>2. CASE i - 1 # 0
    <3>1. i - 1 \in 1 .. Len(records)
      BY <1>1, <2>2
    <3>2. records[i - 1] \in Envelopes
      BY <3>1 DEF Types
    <3>. QED
      BY <1>3, <2>2, <3>2 DEF LastConnection, Envelopes
  <2>. QED
    BY <2>1, <2>2
<1>8. p = Pipeline(b, s, old, halted) /\ p.connection = old
  BY <1>2, <1>3 DEF Pipeline
<1>9. PipelineTurn(p, i) = PipelineProcess(IF next = old THEN p ELSE PipelineReset(p, next), m)
  <2>1. ~(next < old)
    BY <1>5, <1>6, <1>7
  <2>. QED
    BY <1>3, <1>8, <2>1, Zenon DEF PipelineTurn
<1>10. PICK found, done : found = Found(i) /\ done = after[i]
  OBVIOUS
<1>11. PICK x : x = IF next = old THEN p ELSE PipelineReset(p, next)
  OBVIOUS
<1>12. found.book \in Books /\ x = Pipeline(found.book, found.sequence, next, FALSE)
  <2>1. CASE Continues(i)
    <3>1. found = after[i - 1]
      BY <1>10, <2>1 DEF Found
    <3>2. ~ThrowingRecord(i - 1)
      BY <1>6, <2>1 DEF ThrowingRecord
    <3>3. halted = FALSE /\ b = found.book /\ s = found.sequence
      BY <1>2, <1>6, <2>1, <3>1, <3>2
    <3>4. next = old
      BY <1>6, <2>1
    <3>5. x = Pipeline(b, s, next, halted)
      BY <1>8, <1>11, <3>4
    <3>. QED
      BY <1>2, <3>3, <3>5
  <2>2. CASE ~Continues(i)
    <3>1. next # old
      BY <1>3, <2>2 DEF Continues
    <3>2. found = Opened(b)
      BY <1>2, <1>10, <2>2 DEF Found, Opened
    <3>3. found.book = [b EXCEPT !.state = "Initializing"] /\ found.sequence = NoSequence /\ found.book \in Books
      BY <1>2, <3>2 DEF Opened, Books, BookStates
    <3>4. PICK no : no = FALSE
      OBVIOUS
    <3>5. p = [book |-> b, sequence |-> s, connection |-> old, stopped |-> halted]
      BY <1>8, Zenon DEF Pipeline
    <3>6. x = [p EXCEPT !.stopped = no, !.sequence = NoSequence, !.book.state = "Initializing", !.connection = next]
      BY <1>11, <3>1, <3>4, Zenon DEF PipelineReset
    <3>7. x = [book |-> found.book, sequence |-> found.sequence, connection |-> next, stopped |-> no]
      BY <3>3, <3>5, <3>6
    <3>8. x = Pipeline(found.book, found.sequence, next, FALSE)
      BY <3>4, <3>7, Zenon DEF Pipeline
    <3>. QED
      BY <3>3, <3>8
  <2>. QED
    BY <2>1, <2>2
<1>13. done = Processed(found, m)
  BY <1>3, <1>10 DEF Chained
<1>14. Passed(PipelineTurn(p, i), found, m, next)
  <2>1. PICK b2, s2 : b2 = found.book /\ s2 = found.sequence
    OBVIOUS
  <2>2. b2 \in Books /\ x = Pipeline(b2, s2, next, FALSE)
    BY <1>12, <2>1, Zenon
  <2>3. Passed(PipelineProcess(Pipeline(b2, s2, next, FALSE), m), found, m, next)
    BY <1>5, <2>1, <2>2, PipelinePasses, Zenon
  <2>. QED
    BY <1>9, <1>11, <2>2, <2>3, Zenon
<1>15. PICK b1, halts :
           /\ b1 \in Books
           /\ PipelineTurn(p, i) = Pipeline(b1, done.sequence, next, halts)
           /\ b1.last_sequence = done.book.last_sequence
           /\ halts = FALSE \/ done.book.state = "Invalid"
           /\ b1 = done.book \/ (done.book.state = "Invalid" /\ m.kind = "bad_heartbeat")
  BY <1>13, <1>14, Zenon DEF Passed
<1>16. next = LastConnection(i) /\ LastBook(i) = done.book
  BY <1>1, <1>3, <1>10 DEF LastConnection, LastBook
<1>17. ~ThrowingRecord(i) => b1 = done.book
  BY <1>3, <1>10, <1>15 DEF ThrowingRecord
<1>. QED
  BY <1>10, <1>15, <1>16, <1>17 DEF Piped

\* The raw replay of the records so far.
LEMMA RecordsPiped ==
    ASSUME Types, Chained
    PROVE  Piped(PipelineReplay(Len(records)), Len(records))
<1>1. PICK count : count = Len(records)
  OBVIOUS
<1>2. count \in Nat
  BY <1>1 DEF Types
<1>3. PICK g : /\ g[0] = PipelineInit
               /\ \A i \in 1 .. count : g[i] = PipelineTurn(g[i - 1], i)
               /\ g[count] = PipelineReplay(count)
  BY <1>2, PipelineExists
<1>. DEFINE S == {n \in Nat : n <= count => Piped(g[n], n)}
<1>4. 0 \in S
  <2>1. PICK b : b = [state |-> "Initializing", last_sequence |-> NoSequence]
    OBVIOUS
  <2>2. b \in Books /\ b.last_sequence = LastBook(0).last_sequence
    BY <2>1 DEF Books, BookStates, Numbers, LastBook
  <2>3. PipelineInit = Pipeline(b, NoSequence, NoConnection, FALSE) /\ NoConnection = LastConnection(0)
    BY <2>1, Zenon DEF PipelineInit, Pipeline, LastConnection
  <2>4. ~(0 > 0)
    OBVIOUS
  <2>5. Piped(g[0], 0)
    BY <1>3, <2>2, <2>3, <2>4, Zenon DEF Piped
  <2>. QED
    BY <2>5
<1>5. ASSUME NEW n \in Nat, n \in S PROVE n + 1 \in S
  <2>. SUFFICES ASSUME n + 1 <= count PROVE Piped(g[n + 1], n + 1)
    OBVIOUS
  <2>1. PICK i : i = n + 1
    OBVIOUS
  <2>2. i \in 1 .. count /\ i \in 1 .. Len(records) /\ i - 1 = n /\ n <= count
    BY <1>1, <1>2, <2>1
  <2>3. g[i] = PipelineTurn(g[n], i) /\ Piped(g[n], i - 1)
    BY <1>3, <1>5, <2>2
  <2>4. Piped(PipelineTurn(g[n], i), i)
    BY <2>2, <2>3, TurnPipes
  <2>. QED
    BY <2>1, <2>3, <2>4
<1>6. \A n \in Nat : n \in S
  <2>. HIDE DEF S
  <2>. QED
    BY <1>4, <1>5, SetInduction
<1>7. Piped(g[count], count)
  BY <1>2, <1>6
<1>. QED
  BY <1>1, <1>3, <1>7

\* The older pipeline and the live processor, two pieces of code, agree after every
\* record of every capture whose last heartbeat did not throw.
THEOREM LegacyReplays == SessionSpec => []LegacyReplayMatches
<1>1. ASSUME Inv PROVE LegacyReplayMatches
  <2>1. PICK n, p : n = Len(records) /\ p = PipelineReplay(Len(records))
    OBVIOUS
  <2>2. Piped(p, n)
    BY <1>1, <2>1, RecordsPiped DEF Inv
  <2>3. PICK b, s, halted :
            /\ p = Pipeline(b, s, LastConnection(n), halted)
            /\ n > 0 /\ ~ThrowingRecord(n) => b = after[n].book /\ s = after[n].sequence
    BY <2>2 DEF Piped
  <2>4. p.book = b /\ p.sequence = s
    BY <2>3 DEF Pipeline
  <2>. QED
    BY <2>1, <2>3, <2>4 DEF LegacyReplayMatches
<1>. QED
  BY <1>1, SessionInvariant, PTL
=============================================================================

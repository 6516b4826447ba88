----------------------------- MODULE OrderBook -----------------------------
(***************************************************************************)
(* core::OrderBook: one venue's book of one instrument.                    *)
(*                                                                         *)
(* The two std::maps bids_ and asks_ are one partial function `levels`     *)
(* from <<side, price>> to quantity.  Prices and quantities are the raw    *)
(* fixed-point integers; `home` says whether an event carries the book's   *)
(* own venue and instrument.  An overload of apply is an operator from the *)
(* book before the call to the pair of its return value and the book       *)
(* after it.                                                               *)
(***************************************************************************)
EXTENDS Integers, Sequences, SequencesExt, FiniteSetsExt

CONSTANTS Events,   \* the events callers may apply: [kind, home, sequence, levels]
          MaxEvents \* bound: events per span

Levels == [side : {"Bid", "Ask"}, price : Int, quantity : Int]

ASSUME OrderBookAssumption ==
    /\ Events \subseteq [kind : {"snapshot", "update"}, home : BOOLEAN,
                         sequence : Nat, levels : Seq(Levels)]
    /\ MaxEvents \in Nat

VARIABLE book  \* [state, levels, last_sequence]

BookStates == {"Initializing", "Valid", "Stale", "Resyncing", "Disconnected", "Invalid"}
Marks == BookStates \ {"Valid"}
NoSequence == -1

Accept(b) == [ok |-> TRUE, book |-> b]
Reject(b) == [ok |-> FALSE, book |-> b]

\* A span is a bounded sequence of events.
Spans == UNION {[1 .. n -> Events] : n \in 0 .. MaxEvents}

-----------------------------------------------------------------------------
(***************************************************************************)
(* Validation, staging and commit.                                         *)
(***************************************************************************)
Key(level) == <<level.side, level.price>>

ValidLevel(level, snapshot) ==
    /\ level.price > 0
    /\ IF snapshot THEN level.quantity > 0 ELSE level.quantity >= 0

Keys(levels) == {Key(levels[i]) : i \in DOMAIN levels}

\* insert_or_assign in order: the last entry of a key wins.
LastEntry(levels, k) == levels[Max({i \in DOMAIN levels : Key(levels[i]) = k})]

AsMap(levels) == [k \in Keys(levels) |-> LastEntry(levels, k).quantity]

\* emplace fails on a key that is already there.
DuplicateFree(levels) ==
    \A i, j \in DOMAIN levels : Key(levels[i]) = Key(levels[j]) => i = j

Stageable(event) ==
    /\ event.home
    /\ \A i \in DOMAIN event.levels : ValidLevel(event.levels[i], FALSE)

\* Mutant of CommitChanges: tombstones rest in the book.
KeepsTombstones(levels, changes) ==
    [k \in DOMAIN levels \cup DOMAIN changes |->
        IF k \in DOMAIN changes THEN changes[k] ELSE levels[k]]

\* Zero quantities are tombstones: they erase, or do nothing.
CommitChanges(levels, changes) ==
    [k \in {x \in DOMAIN levels \cup DOMAIN changes :
               x \in DOMAIN changes => changes[x] # 0} |->
        IF k \in DOMAIN changes THEN changes[k] ELSE levels[k]]

-----------------------------------------------------------------------------
(***************************************************************************)
(* The three overloads of apply.                                           *)
(***************************************************************************)
\* Mutant of ApplySnapshot: levels are merged into the book, not swapped.
MergingSnapshot(b, event) ==
    IF /\ event.home
       /\ \A i \in DOMAIN event.levels : ValidLevel(event.levels[i], TRUE)
       /\ DuplicateFree(event.levels)
    THEN Accept([state |-> "Valid", levels |-> CommitChanges(b.levels, AsMap(event.levels)),
                 last_sequence |-> event.sequence])
    ELSE Reject(b)

ApplySnapshot(b, event) ==
    IF /\ event.home
       /\ \A i \in DOMAIN event.levels : ValidLevel(event.levels[i], TRUE)
       /\ DuplicateFree(event.levels)
    THEN Accept([state |-> "Valid", levels |-> AsMap(event.levels),
                 last_sequence |-> event.sequence])
    ELSE Reject(b)

ApplyUpdate(b, event) ==
    IF b.state = "Valid" /\ Stageable(event)
    THEN Accept([b EXCEPT !.levels = CommitChanges(@, AsMap(event.levels)),
                          !.last_sequence = event.sequence])
    ELSE Reject(b)

ApplyEvent(b, event) ==
    IF event.kind = "snapshot" THEN ApplySnapshot(b, event) ELSE ApplyUpdate(b, event)

HasSnapshot(events) == \E i \in DOMAIN events : events[i].kind = "snapshot"

\* A span with a snapshot: every event on a copy, all or nothing.
ApplyStagedCopy(b, events) ==
    LET staged[i \in 0 .. Len(events)] ==
            IF i = 0 THEN Accept(b)
            ELSE IF staged[i - 1].ok THEN ApplyEvent(staged[i - 1].book, events[i])
            ELSE staged[i - 1]
        result == staged[Len(events)]
    IN IF result.ok THEN result ELSE Reject(b)

\* Mutant of AllChanges: events of a span are staged last to first.
BackwardChanges(events) ==
    LET all[i \in 0 .. Len(events)] == IF i = 0 THEN <<>> ELSE events[i].levels \o all[i - 1]
    IN all[Len(events)]

AllChanges(events) ==
    LET all[i \in 0 .. Len(events)] == IF i = 0 THEN <<>> ELSE all[i - 1] \o events[i].levels
    IN all[Len(events)]

\* A span of updates only: one staging area for all of them, one commit.
ApplyUpdates(b, events) ==
    IF b.state = "Valid" /\ \A i \in DOMAIN events : Stageable(events[i])
    THEN Accept([b EXCEPT !.levels = CommitChanges(@, AsMap(AllChanges(events))),
                          !.last_sequence = Last(events).sequence])
    ELSE Reject(b)

ApplySpan(b, events) ==
    IF events = <<>> THEN Accept(b)
    ELSE IF HasSnapshot(events) THEN ApplyStagedCopy(b, events)
    ELSE ApplyUpdates(b, events)

-----------------------------------------------------------------------------
(***************************************************************************)
(* The state machine: a caller applies events and marks the state.         *)
(***************************************************************************)
vars == book

EmptyBook == [state |-> "Initializing", levels |-> <<>>, last_sequence |-> NoSequence]

Init == book = EmptyBook

Apply(events) == book' = ApplySpan(book, events).book
ApplyOne(event) == book' = ApplyEvent(book, event).book
Mark(state) == book' = [book EXCEPT !.state = state]

Next == \/ \E events \in Spans : Apply(events)
        \/ \E event \in Events : ApplyOne(event)
        \/ \E state \in Marks : Mark(state)

Spec == Init /\ [][Next]_vars

-----------------------------------------------------------------------------
(***************************************************************************)
(* Properties.                                                             *)
(***************************************************************************)

\* Every resting level has a positive price and a positive quantity: no
\* sequence of snapshots, updates and tombstones leaves a deleted or an
\* invalid level in bids_ or asks_.
TypeOK ==
    /\ book.state \in BookStates
    /\ book.last_sequence \in Nat \cup {NoSequence}
    /\ \A k \in DOMAIN book.levels :
           k[1] \in {"Bid", "Ask"} /\ k[2] > 0 /\ book.levels[k] > 0

\* Reference semantics: one change after the other, straight into the book.
OneChange(levels, c) ==
    LET others == [k \in DOMAIN levels \ {Key(c)} |-> levels[k]]
    IN IF c.quantity = 0 THEN others
       ELSE [k \in DOMAIN others \cup {Key(c)} |->
                IF k = Key(c) THEN c.quantity ELSE others[k]]

Acceptable(b, event) ==
    /\ event.home
    /\ event.kind = "update" => b.state = "Valid"
    /\ \A i \in DOMAIN event.levels : ValidLevel(event.levels[i], event.kind = "snapshot")
    /\ event.kind = "snapshot" => DuplicateFree(event.levels)

Changed(levels, changes) ==
    LET after[i \in 0 .. Len(changes)] ==
            IF i = 0 THEN levels ELSE OneChange(after[i - 1], changes[i])
    IN after[Len(changes)]

OneEvent(b, event) ==
    [state |-> "Valid", last_sequence |-> event.sequence,
     levels |-> Changed(IF event.kind = "snapshot" THEN <<>> ELSE b.levels, event.levels)]

\* after[i] is the book after the first i events.
Sequentially(b, events) ==
    LET after[i \in 0 .. Len(events)] ==
            IF i = 0 THEN Accept(b)
            ELSE IF after[i - 1].ok /\ Acceptable(after[i - 1].book, events[i])
                 THEN Accept(OneEvent(after[i - 1].book, events[i]))
                 ELSE Reject(b)
    IN after[Len(events)]

\* apply(span), with its staging areas, tombstones and staged copy, accepts
\* exactly what applying event after event and change after change accepts,
\* yields the same book, and yields the unchanged book when any event of the
\* span is refused ("Rejection preserves levels, sequence, and state").
SpanIsSequential == \A events \in Spans : ApplySpan(book, events) = Sequentially(book, events)

\* A span that begins with a snapshot gives the same book whatever the book
\* held before: nothing from before a disconnection survives resynchronisation.
SnapshotForgets ==
    \A events \in Spans :
        events # <<>> /\ events[1].kind = "snapshot" =>
            LET before == ApplySpan(book, events)
                fresh == ApplySpan(EmptyBook, events)
            IN before.ok = fresh.ok /\ (before.ok => before.book = fresh.book)
=============================================================================

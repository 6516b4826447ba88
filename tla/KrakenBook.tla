----------------------------- MODULE KrakenBook -----------------------------
(***************************************************************************)
(* KrakenBookProcessor and KrakenChecksumBook: the book of a subscription  *)
(* of limited depth, kept from deltas and checked against the checksum     *)
(* that comes with each of them.                                           *)
(*                                                                         *)
(* A side of a book is part of one partial function from <<side, price>>   *)
(* to quantity, as in OrderBook.  The CRC32 of the best levels is those    *)
(* levels: Kraken prints a pair's prices and quantities with a fixed       *)
(* precision, so different levels give different digits, and collisions of *)
(* the CRC are left out.  So are the metrics and the time stamps.          *)
(*                                                                         *)
(* The exchange is external: it keeps `venue`, of any depth and possibly   *)
(* crossed, sends the best Depth levels as a snapshot, and then what       *)
(* changed among them; a level that others push out of the best Depth is   *)
(* not reported.  Changes, and whole messages, may go missing on the way.  *)
(***************************************************************************)
EXTENDS Integers, Sequences, SequencesExt, FiniteSetsExt, Functions

CONSTANTS Resting,        \* the quantities that may rest at a <<side, price>>
          Depth,          \* the subscription's depth
          ChecksumDepth,  \* levels per side under the checksum
          MaxMoves        \* bound: slots that change from one message to the next

Slots == DOMAIN Resting

ASSUME KrakenAssumption ==
    /\ Slots \subseteq {"Bid", "Ask"} \X (Nat \ {0})
    /\ \A k \in Slots : Resting[k] \subseteq Nat \ {0}
    /\ ChecksumDepth \in Nat \ {0} /\ Depth \in Nat /\ Depth >= ChecksumDepth
    /\ MaxMoves \in Nat

VARIABLES
    processor,  \* [book, checksum_book, checksum]
    venue,      \* the exchange's book
    missed      \* history: changes have gone missing since the last snapshot

vars == <<processor, venue, missed>>

OB == INSTANCE OrderBook WITH Events <- {}, MaxEvents <- 0, book <- processor.book

Venues ==
    UNION {{levels \in [S -> UNION Range(Resting)] : \A k \in S : levels[k] \in Resting[k]} :
           S \in SUBSET Slots}

-----------------------------------------------------------------------------
(***************************************************************************)
(* KrakenChecksumBook.                                                     *)
(***************************************************************************)
Better(k, j) == k[1] = j[1] /\ IF k[1] = "Bid" THEN k[2] > j[2] ELSE k[2] < j[2]

\* The best n levels of each side: the first n of each map.
Top(levels, n) ==
    Restrict(levels, {k \in DOMAIN levels :
                         Cardinality({j \in DOMAIN levels : Better(j, k)}) < n})

\* apply(change): a zero quantity erases, any other is inserted or assigned.  That the
\* number and its digits are both zero or neither is not asked here: process() takes
\* both from one token, so the level is never inconsistent.
ApplyChange(levels, c) ==
    LET key == <<c.side, c.price>>
    IN [k \in IF c.quantity = 0 THEN DOMAIN levels \ {key} ELSE DOMAIN levels \cup {key} |->
           IF k = key THEN c.quantity ELSE levels[k]]

\* replace_snapshot: from an empty book, unless a level is empty or comes twice.
WellFormedSnapshot(changes) ==
    /\ \A i \in DOMAIN changes : changes[i].quantity # 0
    /\ OB!DuplicateFree(changes)

\* Mutant of Truncate: one level too few stays.
TruncateShort(levels) == Top(levels, Depth - 1)

Truncate(levels) == Top(levels, Depth)
Checksum(levels) == Top(levels, ChecksumDepth)

AsLevel(levels, k) == [side |-> k[1], price |-> k[2], quantity |-> levels[k]]

\* levels(): the resting levels, each price once.
LevelSeq(levels) == SetToSeq({AsLevel(levels, k) : k \in DOMAIN levels})

-----------------------------------------------------------------------------
(***************************************************************************)
(* KrakenBookProcessor.  apply and process are operators from the          *)
(* processor before the call to the pair of the return value and the       *)
(* processor after it.                                                     *)
(***************************************************************************)
EmptyProcessor == [book |-> OB!EmptyBook, checksum_book |-> <<>>, checksum |-> <<>>]

\* book_.invalidate(), mark_stale(), mark_disconnected(), mark_initializing().
Marked(p, state) == [p EXCEPT !.book.state = state]

\* What the parser makes of a message that is not a book.
Harmless == {"Heartbeat", "SubscriptionSuccess", "Ignored"}
Failures == {"SubscriptionFailure", "Error"}
ParseKinds == Harmless \cup Failures \cup {"Book"}

\* candidate, a fresh OrderBook that takes the staged levels as a snapshot.
Candidate(levels) ==
    OB!ApplySnapshot(OB!EmptyBook, [home |-> TRUE, sequence |-> OB!NoSequence,
                                    levels |-> LevelSeq(levels)])

\* best_bid() >= best_ask() of a two-sided book.
Crossed(levels) ==
    \E k, j \in DOMAIN levels : k[1] = "Bid" /\ j[1] = "Ask" /\ k[2] >= j[2]

\* `next` before the checksum is compared.
Staged(p, m) ==
    Truncate(FoldLeft(ApplyChange, IF m.snapshot THEN <<>> ELSE p.checksum_book, m.changes))

\* The book of a message that passed every check, and both copies of it.
Install(next) ==
    [book |-> Candidate(next).book, checksum_book |-> next, checksum |-> Checksum(next)]

\* Mutant of Acceptable: the checksum of an update is not compared.
TrustsUpdates(p, m) ==
    LET next == Staged(p, m)
    IN /\ m.snapshot => WellFormedSnapshot(m.changes) /\ Checksum(next) = m.checksum
       /\ Candidate(next).ok
       /\ ~Crossed(next)

\* Every check before the new book is installed.
Acceptable(p, m) ==
    LET next == Staged(p, m)
    IN /\ m.snapshot => WellFormedSnapshot(m.changes)
       /\ Checksum(next) = m.checksum
       /\ Candidate(next).ok
       /\ ~Crossed(next)

Returns(ok, p) == [ok |-> ok, processor |-> p]

\* Mutant of ApplyBook: an update revives a book that awaits a snapshot.
AppliesAlways(p, m) ==
    IF Acceptable(p, m) THEN Returns(TRUE, Install(Staged(p, m)))
    ELSE Returns(FALSE, Marked(p, "Invalid"))

\* apply(message): AwaitingSnapshot; Snapshot or Update; ChecksumMismatch or ApplyError.
ApplyBook(p, m) ==
    IF ~m.snapshot /\ p.book.state # "Valid" THEN Returns(FALSE, p)
    ELSE IF Acceptable(p, m) THEN Returns(TRUE, Install(Staged(p, m)))
    ELSE Returns(FALSE, Marked(p, "Invalid"))

\* process(raw): kinds that are no book first.
Process(p, kind, m) ==
    CASE kind = "Book" -> ApplyBook(p, m)
      [] kind \in Failures -> Returns(FALSE, Marked(p, "Invalid"))
      [] OTHER -> Returns(TRUE, p)

-----------------------------------------------------------------------------
(***************************************************************************)
(* The exchange's side of the stream.                                      *)
(***************************************************************************)
\* The changes that take a subscriber from one book to the next.
Delta(before, now) ==
    LET old == Top(before, Depth)
        new == Top(now, Depth)
    IN {AsLevel(new, k) : k \in {x \in DOMAIN new : x \notin DOMAIN old \/ old[x] # new[x]}}
       \cup {[side |-> k[1], price |-> k[2], quantity |-> 0] : k \in DOMAIN old \ DOMAIN now}

Whole(levels) == {AsLevel(levels, k) : k \in DOMAIN Top(levels, Depth)}

\* The exchange's books after at most MaxMoves changes.
Moves ==
    {now \in Venues : now # venue /\ Cardinality(
        {k \in Slots : \/ k \in DOMAIN now /\ k \notin DOMAIN venue
                       \/ k \notin DOMAIN now /\ k \in DOMAIN venue
                       \/ k \in DOMAIN now /\ k \in DOMAIN venue /\ now[k] # venue[k]}) <= MaxMoves}

NoMessage == [snapshot |-> FALSE, changes |-> <<>>, checksum |-> <<>>]

Message(snapshot, changes, levels) ==
    [snapshot |-> snapshot, changes |-> changes, checksum |-> Checksum(levels)]

-----------------------------------------------------------------------------
Init ==
    /\ processor = EmptyProcessor
    /\ venue \in Venues /\ missed = TRUE

\* An update is processed, with all of its changes or some of them.
Update(now, part) ==
    /\ venue' = now
    /\ missed' = (missed \/ part # Delta(venue, now))
    /\ processor' = Process(processor, "Book", Message(FALSE, SetToSeq(part), now)).processor

\* An update that never arrives.
Lose(now) ==
    /\ venue' = now
    /\ missed' = TRUE
    /\ UNCHANGED processor

\* The snapshot of a new subscription, whole or with levels missing.
Snapshot(part) ==
    /\ missed' = (part # Whole(venue))
    /\ processor' = Process(processor, "Book", Message(TRUE, SetToSeq(part), venue)).processor
    /\ UNCHANGED venue

\* A snapshot that repeats a level.
RepeatingSnapshot(level) ==
    /\ missed' = TRUE
    /\ processor' = Process(processor, "Book", Message(TRUE, <<level, level>>, venue)).processor
    /\ UNCHANGED venue

Other(kind) ==
    /\ processor' = Process(processor, kind, NoMessage).processor
    /\ UNCHANGED <<venue, missed>>

\* reset_connection(), stale(), disconnect() and invalidate().
Mark(state) ==
    /\ processor' = Marked(processor, state)
    /\ UNCHANGED <<venue, missed>>

Next ==
    \/ \E now \in Moves :
           \/ \E part \in SUBSET Delta(venue, now) : Update(now, part)
           \/ Lose(now)
    \/ \E part \in SUBSET Whole(venue) : Snapshot(part)
    \/ \E level \in Whole(venue) : RepeatingSnapshot(level)
    \/ \E kind \in ParseKinds \ {"Book"} : Other(kind)
    \/ \E state \in {"Initializing", "Stale", "Disconnected", "Invalid"} : Mark(state)

Spec == Init /\ [][Next]_vars

-----------------------------------------------------------------------------
(***************************************************************************)
(* Properties.                                                             *)
(***************************************************************************)
Book == processor.book

\* What a Valid book is worth.  It is never crossed or locked, whatever the
\* messages; and as long as nothing went missing since the snapshot it is exactly
\* the best Depth levels of the exchange: dropping the worst levels locally, after
\* all changes of a message, agrees with an exchange that never reports the levels
\* it pushes out and repeats those that come back.
ValidIsSound ==
    Book.state = "Valid" =>
        /\ ~Crossed(Book.levels)
        /\ ~missed => Book.levels = Top(venue, Depth)

\* A book that stopped being Valid comes back through a snapshot only, and then
\* holds nothing the exchange does not hold now: an update whose checksum happens
\* to match does not revive it, although every accepted message installs a fresh
\* Valid book.
OnlySnapshotRevives ==
    [][Book.state # "Valid" /\ Book'.state = "Valid" =>
           /\ venue' = venue
           /\ \A k \in DOMAIN Book'.levels :
                  k \in DOMAIN Top(venue, Depth) /\ Book'.levels[k] = venue[k]]_vars

\* Whatever went missing, a message that changes the book leaves it Valid only with
\* the exchange's levels under the checksum: a gap that reaches the top of the book
\* does not survive.  (Further down it can: checksum() stops after 10 levels.)
CheckedTopAgrees ==
    [][processor' # processor /\ Book'.state = "Valid" =>
           Checksum(Book'.levels) = Checksum(venue')]_vars
=============================================================================

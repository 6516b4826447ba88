-------------------------- MODULE KrakenFeedProofs --------------------------
(***************************************************************************)
(* Proofs about KrakenFeed: the feed is never stranded, a Valid book is    *)
(* made of the current connection's records, and the log it leaves behind  *)
(* replays to the book it had.                                             *)
(***************************************************************************)
EXTENDS KrakenFeed, TLAPS, WellFoundedInduction

-----------------------------------------------------------------------------
(***************************************************************************)
(* Induction over the natural numbers.                                     *)
(***************************************************************************)
\* Induction with a set in the place of a predicate, on the library's theorems about
\* well founded relations: a set that holds 0 and with every number its successor
\* holds them all.
LEMMA SetInduction ==
    ASSUME NEW S, 0 \in S, \A n \in Nat : n \in S => n + 1 \in S
    PROVE  \A n \in Nat : n \in S
<1>. DEFINE T == {n \in Nat : n \notin S}
<1>1. SUFFICES ASSUME T # {} PROVE FALSE
  OBVIOUS
<1>2. PICK less : less = OpToRel(<, Nat)
  OBVIOUS
<1>3. PICK m \in T : \A k \in T : ~ (<<k, m>> \in less)
  <2>1. T \subseteq Nat
    OBVIOUS
  <2>. HIDE DEF T
  <2>. QED
    BY <1>1, <1>2, <2>1, NatLessThanWellFounded, WFMin
<1>4. m - 1 \in T
  <2>1. m # 0 /\ m - 1 \in Nat /\ (m - 1) + 1 = m
    OBVIOUS
  <2>. QED
    BY <2>1
<1>5. <<m - 1, m>> \in less
  BY <1>2, <1>4 DEF OpToRel
<1>. QED
  BY <1>3, <1>4, <1>5

-----------------------------------------------------------------------------
(***************************************************************************)
(* Types.                                                                  *)
(***************************************************************************)
BookStates == {"Initializing", "Valid", "Stale", "Disconnected", "Invalid"}
Books == [state : BookStates, levels : Seq(Nat)]
Records == [connection : Nat, kind : Kinds]
Events == [index : Nat, state : {"Stale", "Disconnected"}]

FlagTypes ==
    /\ stopping \in BOOLEAN /\ recovering \in BOOLEAN /\ connected \in BOOLEAN
    /\ first_record \in BOOLEAN /\ seen_record \in BOOLEAN /\ retry \in BOOLEAN /\ failed \in BOOLEAN

LogTypes ==
    /\ connection \in Nat /\ book \in Books
    /\ records \in Seq(Records) /\ events \in Seq(Events) /\ after \in Seq(Books)

SessionTypes == sessions \in [DOMAIN sessions -> Session]

Types == FlagTypes /\ LogTypes /\ SessionTypes

-----------------------------------------------------------------------------
(***************************************************************************)
(* The sessions.                                                           *)
(***************************************************************************)
\* Only the current session is open, and only while the feed is neither stopping
\* nor recovering; a session that closes is not open.
OnlyCurrentOpen ==
    \A c \in DOMAIN sessions :
        /\ ~sessions[c].stopping => ~stopping /\ ~recovering /\ c = connection
        /\ sessions[c].stage = "closing" => sessions[c].stopping

\* A running feed that is not recovering has its session open and reads from it
\* exactly while it is connected; one that is recovering has its retry pending.
Running ==
    /\ connection = 0 => DOMAIN sessions = {} /\ ~retry /\ ~recovering /\ ~connected
    /\ stopping \/ recovering => ~connected
    /\ ~stopping /\ recovering => retry
    /\ ~stopping /\ ~recovering /\ connection > 0 =>
           /\ ~retry /\ connection \in DOMAIN sessions /\ ~sessions[connection].stopping
           /\ connected <=> sessions[connection].stage = "read"

Sessions == SessionTypes /\ FlagTypes /\ connection \in Nat /\ OnlyCurrentOpen /\ Running

\* The sessions recover() and stop() find, the caller's own already closing or gone.
Abortable(all) ==
    /\ all \in [DOMAIN all -> Session]
    /\ \A c \in DOMAIN all : /\ ~all[c].stopping => c = connection
                             /\ all[c].stage = "closing" => all[c].stopping

\* client->abort() leaves no session open.
LEMMA AbortLeavesNoneOpen ==
    ASSUME NEW all, Abortable(all)
    PROVE  /\ DOMAIN AbortClient(all) = DOMAIN all
           /\ \A c \in DOMAIN all : AbortClient(all)[c] \in Session /\ AbortClient(all)[c].stopping
<1>1. ASSUME NEW c \in DOMAIN all
      PROVE  /\ all[c] \in Session /\ Abort(all[c]) \in Session /\ Abort(all[c]).stopping
             /\ all[c].stopping \in BOOLEAN
  BY <1>1 DEF Abortable, Abort, Session
<1>. QED
  BY <1>1 DEF Abortable, AbortClient

\* The sessions of the feed are abortable, without one of them, with one closing.
LEMMA SessionsAbortable ==
    ASSUME Sessions, NEW c \in DOMAIN sessions
    PROVE  /\ Abortable(sessions) /\ Abortable(Without(c)) /\ Abortable(With(c, Closing(sessions[c])))
           /\ sessions[c] \in Session /\ connection > 0
<1>1. \A d \in DOMAIN sessions : sessions[d] \in Session
  BY DEF Sessions, SessionTypes
<1>2. Abortable(sessions)
  BY <1>1 DEF Sessions, SessionTypes, OnlyCurrentOpen, Abortable
<1>3. Abortable(Without(c))
  BY <1>2 DEF Without, Abortable
<1>4. Closing(sessions[c]) \in Session /\ Closing(sessions[c]).stopping
  BY <1>1 DEF Closing, Session, Stages
<1>5. Abortable(With(c, Closing(sessions[c])))
  <2>1. DOMAIN With(c, Closing(sessions[c])) = DOMAIN sessions
    BY DEF With
  <2>2. \A d \in DOMAIN sessions : With(c, Closing(sessions[c]))[d] = IF d = c THEN Closing(sessions[c]) ELSE sessions[d]
    BY DEF With
  <2>3. With(c, Closing(sessions[c])) \in [DOMAIN sessions -> Session]
    BY <1>1, <1>4 DEF With
  <2>. QED
    BY <1>2, <1>4, <2>1, <2>2, <2>3 DEF Abortable
<1>6. connection > 0
  BY DEF Sessions, Running
<1>. QED
  BY <1>1, <1>2, <1>3, <1>5, <1>6

\* recover() leaves a retry pending and nothing open.
LEMMA RecoverSessions ==
    ASSUME Sessions, NEW b, NEW stale, NEW recs, NEW all, Abortable(all), ~stopping, connection > 0,
           Recover(b, stale, recs, all), UNCHANGED <<stopping, connection>>
    PROVE  SessionTypes' /\ OnlyCurrentOpen' /\ Running'
<1>1. sessions' = AbortClient(all) /\ recovering' /\ ~connected' /\ retry'
  BY DEF Recover
<1>2. SessionTypes'
  BY <1>1, AbortLeavesNoneOpen DEF SessionTypes, AbortClient
<1>3. \A c \in DOMAIN sessions' : sessions'[c].stopping
  BY <1>1, AbortLeavesNoneOpen
<1>4. OnlyCurrentOpen'
  BY <1>3 DEF OnlyCurrentOpen
<1>5. Running'
  BY <1>1 DEF Running, Sessions
<1>. QED
  BY <1>2, <1>4, <1>5

\* stop() leaves nothing open.
LEMMA StopSessions ==
    ASSUME Sessions, NEW b, NEW all, Abortable(all), connection = 0 => all = sessions,
           StopThen(b, all), UNCHANGED <<recovering, connection>>
    PROVE  SessionTypes' /\ OnlyCurrentOpen' /\ Running'
<1>1. sessions' = AbortClient(all) /\ stopping' /\ ~connected' /\ (retry' = FALSE \/ retry' = retry)
  BY DEF StopThen
<1>2. SessionTypes'
  BY <1>1, AbortLeavesNoneOpen DEF SessionTypes, AbortClient
<1>3. DOMAIN sessions' = DOMAIN all /\ \A c \in DOMAIN sessions' : sessions'[c].stopping
  BY <1>1, AbortLeavesNoneOpen
<1>4. OnlyCurrentOpen'
  BY <1>3 DEF OnlyCurrentOpen
<1>5. Running'
  BY <1>1, <1>3 DEF Running, Sessions
<1>. QED
  BY <1>2, <1>4, <1>5

\* connect() opens one session, or leaves a retry pending.
LEMMA ConnectSessions ==
    ASSUME Sessions, Connect, ~stopping, connection = 0 \/ recovering
    PROVE  SessionTypes' /\ OnlyCurrentOpen' /\ Running'
<1>1. \A c \in DOMAIN sessions : sessions[c] \in Session /\ sessions[c].stopping
  BY DEF Sessions, SessionTypes, OnlyCurrentOpen, Running
<1>2. connection \in Nat /\ connection' = connection + 1 /\ ~stopping' /\ ~connected
  BY DEF Sessions, Connect, Running
<1>3. CASE ConnectOpens
  <2>1. Connecting \in Session /\ ~Connecting.stopping /\ Connecting.stage = "handshake"
    BY RequestsAssumption DEF Connecting, Session, Stages
  <2>2. sessions' = With(connection + 1, Connecting) /\ ~recovering' /\ ~retry' /\ ~connected'
    BY <1>2, <1>3 DEF ConnectOpens
  <2>3. /\ DOMAIN sessions' = DOMAIN sessions \cup {connection + 1}
        /\ sessions'[connection + 1] = Connecting
        /\ \A c \in DOMAIN sessions : c # connection + 1 => sessions'[c] = sessions[c]
    BY <2>2 DEF With
  <2>4. sessions' \in [DOMAIN sessions' -> Session]
    BY <1>1, <2>1, <2>2 DEF With
  <2>5. SessionTypes'
    BY <2>4 DEF SessionTypes
  <2>6. OnlyCurrentOpen'
    BY <1>1, <1>2, <2>1, <2>2, <2>3 DEF OnlyCurrentOpen, Sessions
  <2>7. Running'
    BY <1>2, <2>1, <2>2, <2>3 DEF Running
  <2>. QED
    BY <2>5, <2>6, <2>7
<1>4. CASE ConnectFails
  BY <1>1, <1>2, <1>4 DEF ConnectFails, SessionTypes, OnlyCurrentOpen, Running, Sessions
<1>. QED
  BY <1>3, <1>4 DEF Connect

\* The flags stay Booleans.
LEMMA FlagsTyped ==
    ASSUME FlagTypes, [Next]_vars
    PROVE  FlagTypes'
<1>. USE DEF FlagTypes, Connect, ConnectOpens, ConnectFails, StopThen, Recover, ErrorCallback, flags,
             feedVars
<1>1. CASE FirstConnect \/ RetryFires
  BY <1>1 DEF FirstConnect, RetryFires
<1>2. CASE TimePasses
  BY <1>2 DEF TimePasses
<1>3. CASE TickStops \/ TickFails \/ DrainFails
  BY <1>3 DEF TickStops, TickFails, DrainFails
<1>4. CASE TickForces \/ TickRecovers
  BY <1>4 DEF TickForces, TickRecovers
<1>5. ASSUME NEW c \in DOMAIN sessions, SessionStep(c) PROVE FlagTypes'
  <2>1. CASE HandshakeDone(c) \/ Subscribed(c) \/ AbortedCompletes(c)
    BY <2>1 DEF HandshakeDone, Subscribed, AbortedCompletes
  <2>2. CASE OperationFails(c) \/ CloseCompletes(c)
    BY <2>2 DEF OperationFails, CloseCompletes
  <2>3. CASE MessageRefused(c)
    BY <2>3 DEF MessageRefused
  <2>4. ASSUME NEW kind \in Kinds, Message(c, kind) PROVE FlagTypes'
    BY <2>4 DEF Message
  <2>. QED
    BY <1>5, <2>1, <2>2, <2>3, <2>4 DEF SessionStep
<1>6. CASE UNCHANGED vars
  BY <1>6 DEF vars
<1>. QED
  BY <1>1, <1>2, <1>3, <1>4, <1>5, <1>6 DEF Next, Finished

\* A step that leaves the sessions and what tells them apart alone.
LEMMA QuietSessions ==
    ASSUME Sessions, UNCHANGED <<sessions, stopping, recovering, connected, connection, retry>>
    PROVE  SessionTypes' /\ OnlyCurrentOpen' /\ Running'
  BY DEF Sessions, SessionTypes, OnlyCurrentOpen, Running

\* A session that has been aborted is dropped or closes.
LEMMA AbandonedSessions ==
    ASSUME Sessions, NEW c \in DOMAIN sessions, sessions[c].stopping,
           sessions' = Without(c) \/ sessions' = With(c, Closing(sessions[c])),
           UNCHANGED <<stopping, recovering, connected, connection, retry>>
    PROVE  SessionTypes' /\ OnlyCurrentOpen' /\ Running'
<1>1. Abortable(sessions) /\ Abortable(sessions')
  BY SessionsAbortable
<1>2. \A d \in DOMAIN sessions' : d \in DOMAIN sessions /\ (d # c => sessions'[d] = sessions[d])
  BY DEF Without, With
<1>3. c \in DOMAIN sessions' => sessions'[c].stopping
  <2>1. Closing(sessions[c]).stopping
    BY SessionsAbortable DEF Closing, Session
  <2>. QED
    BY <2>1 DEF Without, With
<1>4. \A d \in DOMAIN sessions : d # c => d \in DOMAIN sessions'
  BY DEF Without, With
<1>5. SessionTypes'
  BY <1>1 DEF SessionTypes, Abortable
<1>6. OnlyCurrentOpen'
  <2>1. \A d \in DOMAIN sessions' : sessions'[d].stage = "closing" => sessions'[d].stopping
    BY <1>1 DEF Abortable
  <2>. QED
    BY <1>2, <1>3, <2>1 DEF OnlyCurrentOpen, Sessions
<1>7. Running'
  BY <1>2, <1>4, SessionsAbortable DEF Running, Sessions
<1>. QED
  BY <1>5, <1>6, <1>7

\* Every step keeps the sessions as they should be.
LEMMA SessionsStep ==
    ASSUME Sessions, [Next]_vars
    PROVE  Sessions'
<1>. DEFINE Goal == SessionTypes' /\ OnlyCurrentOpen' /\ Running'
<1>1. FlagTypes' /\ connection' \in Nat
  <2>1. connection' \in {connection, connection + 1}
    <3>. USE DEF feedVars
    <3>1. CASE FirstConnect \/ RetryFires
      BY <3>1 DEF FirstConnect, RetryFires, Connect
    <3>2. CASE TimePasses \/ TickStops \/ TickFails \/ DrainFails \/ TickForces \/ TickRecovers
      BY <3>2 DEF TimePasses, TickStops, TickFails, DrainFails, TickForces, TickRecovers
    <3>3. ASSUME NEW c \in DOMAIN sessions, SessionStep(c) PROVE connection' = connection
      BY <3>3 DEF SessionStep, HandshakeDone, Subscribed, OperationFails, AbortedCompletes,
                  CloseCompletes, MessageRefused, Message
    <3>4. CASE UNCHANGED vars
      BY <3>4 DEF vars
    <3>. QED
      BY <3>1, <3>2, <3>3, <3>4 DEF Next, Finished
  <2>. QED
    BY <2>1, FlagsTyped DEF Sessions
<1>. SUFFICES Goal
  BY <1>1 DEF Sessions
<1>2. Abortable(sessions)
  BY DEF Sessions, SessionTypes, OnlyCurrentOpen, Abortable
<1>3. CASE FirstConnect
  BY <1>3, ConnectSessions DEF FirstConnect
<1>4. CASE RetryFires
  <2>1. ASSUME ~stopping, Connect PROVE Goal
    BY <1>4, <2>1, ConnectSessions DEF RetryFires, Sessions, Running
  <2>2. ASSUME stopping, UNCHANGED <<flags, connection, sessions>>, retry' = FALSE PROVE Goal
    BY <2>2 DEF flags, Sessions, SessionTypes, OnlyCurrentOpen, Running
  <2>. QED
    BY <1>4, <2>1, <2>2 DEF RetryFires
<1>5. CASE TimePasses \/ DrainFails
  BY <1>5, QuietSessions DEF TimePasses, DrainFails, flags
<1>6. CASE TickStops
  BY <1>2, <1>6, StopSessions DEF TickStops
<1>7. CASE TickFails
  BY <1>2, <1>7, StopSessions DEF TickFails
<1>8. CASE TickForces
  BY <1>2, <1>8, RecoverSessions DEF TickForces
<1>9. CASE TickRecovers
  <2>1. connection > 0
    BY <1>9 DEF TickRecovers, Sessions, Running
  <2>. QED
    BY <1>2, <1>9, <2>1, RecoverSessions DEF TickRecovers
<1>10. ASSUME NEW c \in DOMAIN sessions, SessionStep(c) PROVE Goal
  <2>. DEFINE s == sessions[c]
  <2>1. /\ Abortable(Without(c)) /\ Abortable(With(c, Closing(s)))
        /\ s \in Session /\ connection > 0
    BY SessionsAbortable
  <2>2. ~s.stopping => ~stopping /\ ~recovering /\ c = connection /\ ~retry /\ s.stage # "closing"
    BY <2>1 DEF Sessions, OnlyCurrentOpen, Running
  <2>3. ASSUME NEW t \in Session, ~s.stopping, ~t.stopping, t.stage # "closing",
               sessions' = With(c, t), connected' <=> t.stage = "read",
               UNCHANGED <<stopping, recovering, connection, retry>>
        PROVE  Goal
    <3>1. /\ DOMAIN sessions' = DOMAIN sessions
          /\ \A d \in DOMAIN sessions : sessions'[d] = IF d = c THEN t ELSE sessions[d]
      BY <2>3 DEF With
    <3>2. sessions' \in [DOMAIN sessions -> Session]
      BY <2>3 DEF With, Sessions, SessionTypes
    <3>3. SessionTypes'
      BY <3>1, <3>2 DEF SessionTypes
    <3>4. OnlyCurrentOpen'
      BY <2>2, <2>3, <3>1 DEF OnlyCurrentOpen, Sessions
    <3>5. Running'
      BY <2>1, <2>2, <2>3, <3>1 DEF Running, Sessions
    <3>. QED
      BY <3>3, <3>4, <3>5
  <2>4. CASE HandshakeDone(c)
    <3>1. s.stage = "handshake" /\ ~s.stopping
      BY <2>4 DEF HandshakeDone
    <3>2. 1 \in 0 .. Requests
      BY RequestsAssumption
    <3>3. FirstRequest(s) \in Session /\ ~FirstRequest(s).stopping /\ FirstRequest(s).stage = "subscribe"
      BY <2>1, <3>1, <3>2 DEF FirstRequest, Session, Stages
    <3>4. ~connected
      BY <2>1, <2>2, <3>1 DEF Sessions, Running
    <3>. QED
      BY <2>3, <2>4, <3>1, <3>3, <3>4 DEF HandshakeDone, feedVars, flags
  <2>5. CASE Subscribed(c)
    <3>1. s.stage = "subscribe" /\ ~s.stopping
      BY <2>5 DEF Subscribed
    <3>2. Reading(s) \in Session /\ ~Reading(s).stopping /\ Reading(s).stage = "read"
      BY <2>1, <3>1 DEF Reading, Session, Stages
    <3>. QED
      BY <2>3, <2>5, <3>1, <3>2 DEF Subscribed
  <2>6. ASSUME ErrorCallback(Without(c)), UNCHANGED <<stopping, connection>>,
               s.stopping \/ (~stopping /\ ~recovering)
        PROVE  Goal
    <3>1. ASSUME ~stopping, ~recovering, Recover(book, FALSE, records, Without(c)) PROVE Goal
      BY <2>1, <2>6, <3>1, RecoverSessions
    <3>2. ASSUME stopping \/ recovering, sessions' = Without(c), UNCHANGED <<recovering, connected, retry>>
          PROVE  Goal
      BY <2>6, <3>2, AbandonedSessions
    <3>. QED
      BY <2>6, <3>1, <3>2 DEF ErrorCallback
  <2>7. CASE OperationFails(c)
    BY <2>2, <2>6, <2>7 DEF OperationFails
  <2>8. CASE AbortedCompletes(c)
    BY <2>8, AbandonedSessions DEF AbortedCompletes, feedVars, flags
  <2>9. CASE CloseCompletes(c)
    <3>1. s.stopping
      BY <2>9 DEF CloseCompletes, Sessions, OnlyCurrentOpen
    <3>. QED
      BY <2>6, <2>9, <3>1, AbandonedSessions DEF CloseCompletes
  <2>10. CASE MessageRefused(c)
    BY <2>1, <2>10, StopSessions DEF MessageRefused
  <2>11. ASSUME NEW kind \in Kinds, Message(c, kind) PROVE Goal
    <3>. DEFINE found == AtRecord(book, first_record /\ seen_record)
                processed == Processed(found, kind, Len(records))
    <3>1. ASSUME UNCHANGED <<recovering, connected, events, retry, sessions, disturbances>> PROVE Goal
      BY <2>11, <3>1, QuietSessions DEF Message
    <3>2. ASSUME Recover(processed, FALSE, records', With(c, Closing(s))) PROVE Goal
      BY <2>1, <2>11, <3>2, RecoverSessions DEF Message
    <3>. QED
      BY <2>11, <3>1, <3>2 DEF Message
  <2>. QED
    BY <1>10, <2>4, <2>5, <2>7, <2>8, <2>9, <2>10, <2>11 DEF SessionStep
<1>11. CASE UNCHANGED vars
  BY <1>11, QuietSessions DEF vars, feedVars, flags
<1>. QED
  BY <1>3, <1>4, <1>5, <1>6, <1>7, <1>8, <1>9, <1>10, <1>11 DEF Next, Finished

-----------------------------------------------------------------------------
(***************************************************************************)
(* What the sessions show.                                                 *)
(***************************************************************************)
\* Before the first connection there is no session and no retry.
LEMMA InitSessions ==
    ASSUME Init
    PROVE  Sessions
<1>1. DOMAIN sessions = {} /\ sessions \in [DOMAIN sessions -> Session]
  BY DEF Init
<1>2. FlagTypes
  BY DEF Init, FlagTypes
<1>3. connection = 0 /\ ~retry /\ ~recovering /\ ~connected /\ ~stopping
  BY DEF Init
<1>4. OnlyCurrentOpen /\ Running
  BY <1>1, <1>3 DEF OnlyCurrentOpen, Running
<1>. QED
  BY <1>1, <1>2, <1>3, <1>4 DEF Sessions, SessionTypes

\* The flags, timers and sessions of run_kraken fit together in every state.
THEOREM FeedSessions == Spec => []Sessions
<1>1. Init => Sessions
  BY InitSessions
<1>2. Sessions /\ [Next]_vars => Sessions'
  BY SessionsStep
<1>. QED
  BY <1>1, <1>2, PTL DEF Spec

\* recover(), connect() and stop() never leave a running feed without its one way
\* forward: an open current session, or a pending retry.
THEOREM FeedNeverStranded == Spec => []NeverStranded
<1>1. Sessions => NeverStranded
  <2>. SUFFICES ASSUME Sessions, connection > 0 PROVE NeverStranded
    BY DEF NeverStranded
  <2>. DEFINE open == {c \in DOMAIN sessions : ~sessions[c].stopping}
  <2>1. stopping \/ recovering => open = {}
    BY DEF Sessions, OnlyCurrentOpen
  <2>2. stopping => NeverStranded
    BY <2>1 DEF NeverStranded
  <2>3. recovering /\ ~stopping => NeverStranded
    BY <2>1 DEF NeverStranded, Sessions, Running
  <2>4. ASSUME ~recovering, ~stopping PROVE NeverStranded
    <3>1. /\ ~retry /\ connection \in DOMAIN sessions /\ ~sessions[connection].stopping
          /\ connected <=> sessions[connection].stage = "read"
      BY <2>4 DEF Sessions, Running
    <3>2. open = {connection}
      BY <3>1 DEF Sessions, OnlyCurrentOpen
    <3>. QED
      BY <2>4, <3>1, <3>2 DEF NeverStranded
  <2>. QED
    BY <2>2, <2>3, <2>4
<1>. QED
  BY <1>1, FeedSessions, PTL

\* After stop() no handler or timer already queued records, connects, observes an
\* event or touches the book: recover() and the retry consult stopping, and a
\* message needs an open session.
THEOREM FeedStoppedIsFinal == Spec => StoppedIsFinal
<1>. DEFINE Final == stopping' /\ UNCHANGED <<connection, log, book>>
<1>1. ASSUME Sessions, [Next]_vars, stopping PROVE Final
  <2>. USE <1>1 DEF feedVars, flags, log
  <2>1. CASE FirstConnect \/ TimePasses \/ TickStops \/ TickFails \/ TickForces \/ TickRecovers
    BY <2>1 DEF FirstConnect, TimePasses, TickStops, TickFails, TickForces, TickRecovers
  <2>2. CASE RetryFires \/ DrainFails \/ Finished
    BY <2>2 DEF RetryFires, DrainFails, Finished, vars
  <2>3. ASSUME NEW c \in DOMAIN sessions, SessionStep(c) PROVE Final
    <3>1. sessions[c].stopping
      BY DEF Sessions, OnlyCurrentOpen
    <3>2. AbortedCompletes(c) \/ CloseCompletes(c)
      BY <2>3, <3>1 DEF SessionStep, HandshakeDone, Subscribed, OperationFails, MessageRefused, Message
    <3>. QED
      BY <3>2 DEF AbortedCompletes, CloseCompletes, ErrorCallback
  <2>4. CASE UNCHANGED vars
    BY <2>4 DEF vars
  <2>. QED
    BY <2>1, <2>2, <2>3, <2>4 DEF Next
<1>. QED
  BY <1>1, FeedSessions, PTL DEF Spec, StoppedIsFinal

-----------------------------------------------------------------------------
(***************************************************************************)
(* The log.                                                                *)
(***************************************************************************)
\* The records are numbered by their connections, in order; the first of a
\* connection but the first is told by both flags.
Numbered ==
    /\ Len(after) = Len(records)
    /\ seen_record <=> Len(records) > 0
    /\ ~first_record => Len(records) > 0
    /\ Len(records) > 0 => (first_record <=> records[Len(records)].connection # connection)
    /\ \A i \in 1 .. Len(records) : records[i].connection \in 1 .. connection
    /\ \A i \in 2 .. Len(records) : records[i - 1].connection <= records[i].connection
    /\ failed => stopping

\* Until a connection has brought a record, and while it is given up, the book is
\* not Valid; otherwise it is what the last record made of it.
Followed ==
    /\ recovering \/ first_record => book.state # "Valid"
    /\ ~stopping /\ ~recovering /\ ~first_record => book = after[Len(records)]

\* The book and the connection after record i.
LastBook(i) == IF i = 0 THEN EmptyBook ELSE after[i]
LastConnection(i) == IF i = 0 THEN NoConnection ELSE records[i].connection

\* Replay resets the book before record i.
Resets(i) == LastConnection(i - 1) \notin {NoConnection, records[i].connection}

\* The book b after the events from + 1 .. to of evts.
Since(b, from, to, evts) == IF to = from THEN b ELSE [b EXCEPT !.state = Event(evts[to].state)]

\* cut[i] events come before record i.
Cuts(cut) ==
    /\ cut \in [0 .. Len(records) -> 0 .. Len(events)]
    /\ \A k \in 1 .. Len(events) :
           /\ events[k].index <= Len(records)
           /\ \A i \in 0 .. Len(records) : events[k].index < i <=> k <= cut[i]

\* Replaying the records and the events between them gives the books the feed had.
Replays(cut) ==
    \A i \in 1 .. Len(records) :
        after[i] = Processed(AtRecord(Since(LastBook(i - 1), cut[i - 1], cut[i], events), Resets(i)),
                             records[i].kind, i - 1)

Logged ==
    \E cut : /\ Cuts(cut) /\ Replays(cut)
             /\ ~failed => book = Since(LastBook(Len(records)), cut[Len(records)], Len(events), events)

\* Two books of the same records, both Valid or neither.
Alike(b, d) == b.levels = d.levels /\ (b.state = "Valid" <=> d.state = "Valid")

\* The books of a replay that has no events.
Eventless(books) ==
    /\ books \in [0 .. Len(records) -> Books] /\ books[0] = EmptyBook
    /\ \A i \in 1 .. Len(records) :
           /\ books[i] = Processed(AtRecord(books[i - 1], Resets(i)), records[i].kind, i - 1)
           /\ Alike(books[i], after[i])

Approximated == \E books : Eventless(books)

\* ValidIsCurrent, and its records exist.
Current ==
    book.state = "Valid" =>
        /\ book.levels # <<>> /\ Head(book.levels) < Len(records)
        /\ ValidIsCurrent

Inv == Sessions /\ LogTypes /\ Numbered /\ Followed /\ Logged /\ Approximated /\ Current

-----------------------------------------------------------------------------
(***************************************************************************)
(* What a step may do to the log and the book.                             *)
(***************************************************************************)
logVars == <<records, events, after, first_record, seen_record, connection, recovering>>

\* Nothing; at most the feed stops, or fails and is stopped.
Quiet ==
    /\ UNCHANGED <<logVars, book>>
    /\ stopping => stopping'
    /\ failed => failed'
    /\ failed' = failed \/ stopping'

\* A failure that the book shows.
Invalidated == UNCHANGED logVars /\ book' = [book EXCEPT !.state = "Invalid"] /\ failed' /\ stopping'

\* recover(), from a handler or from inside connect().
GivenUp ==
    /\ ~stopping /\ ~stopping' /\ recovering' = TRUE
    /\ \/ connection' = connection /\ first_record' = first_record
       \/ connection' = connection + 1 /\ first_record' = TRUE
    /\ book' = RecoveredBook(book, TRUE) \/ book' = RecoveredBook(book, FALSE)
    /\ events' = Append(events, [index |-> Len(records), state |-> book'.state])
    /\ UNCHANGED <<records, after, seen_record, failed>>

\* connect().
Opened ==
    /\ ~stopping /\ ~stopping'
    /\ recovering \/ connection = 0
    /\ recovering' = FALSE /\ connection' = connection + 1 /\ first_record' = TRUE
    /\ UNCHANGED <<records, events, after, book, seen_record, failed>>

\* A message of the current connection is recorded and processed.
Recorded(kind) ==
    LET processed == Processed(AtRecord(book, first_record /\ seen_record), kind, Len(records))
    IN /\ ~stopping /\ ~stopping' /\ ~recovering /\ connection > 0
       /\ records' = Append(records, [connection |-> connection, kind |-> kind])
       /\ after' = Append(after, processed)
       /\ first_record' = FALSE /\ seen_record' = TRUE
       /\ \/ book' = processed /\ UNCHANGED <<events, recovering>>
          \/ /\ book' = RecoveredBook(processed, FALSE) /\ recovering' = TRUE
             /\ events' = Append(events, [index |-> Len(records'), state |-> book'.state])
       /\ UNCHANGED <<connection, failed>>

\* Every step is one of these.
LEMMA LogStep ==
    ASSUME Sessions, [Next]_vars
    PROVE  Quiet \/ Invalidated \/ GivenUp \/ Opened \/ \E kind \in Kinds : Recorded(kind)
<1>. USE DEF logVars
<1>1. ASSUME NEW stale \in BOOLEAN, NEW all, Recover(book, stale, records, all), ~stopping,
             UNCHANGED <<stopping, connection, first_record, records, after, seen_record, failed>>
      PROVE  GivenUp
  BY <1>1 DEF Recover, GivenUp
<1>2. ASSUME NEW all, StopThen(book, all), UNCHANGED logVars, failed => failed' PROVE Quiet
  BY <1>2 DEF StopThen, Quiet
<1>3. ASSUME NEW all, StopThen([book EXCEPT !.state = "Invalid"], all), failed', UNCHANGED logVars
      PROVE  Invalidated
  BY <1>3 DEF StopThen, Invalidated
<1>4. ASSUME Connect, ~stopping, recovering \/ connection = 0 PROVE Opened \/ GivenUp
  <2>1. ConnectOpens => Opened
    BY <1>4 DEF Connect, ConnectOpens, Opened
  <2>2. ConnectFails => GivenUp
    BY <1>4 DEF Connect, ConnectFails, GivenUp
  <2>. QED
    BY <1>4, <2>1, <2>2 DEF Connect
<1>5. CASE FirstConnect
  BY <1>4, <1>5 DEF FirstConnect
<1>6. CASE RetryFires
  <2>1. ~stopping => recovering
    BY <1>6 DEF RetryFires, Sessions, Running
  <2>2. stopping => Quiet
    BY <1>6 DEF RetryFires, Quiet, flags, log
  <2>. QED
    BY <1>4, <1>6, <2>1, <2>2 DEF RetryFires
<1>7. CASE TimePasses \/ DrainFails
  BY <1>7 DEF TimePasses, DrainFails, Quiet, flags, log, Sessions, FlagTypes
<1>8. CASE TickStops
  BY <1>2, <1>8 DEF TickStops, log
<1>9. CASE TickFails
  BY <1>2, <1>3, <1>9 DEF TickFails, log
<1>10. CASE TickForces \/ TickRecovers
  BY <1>1, <1>10 DEF TickForces, TickRecovers
<1>11. ASSUME NEW c \in DOMAIN sessions, SessionStep(c)
       PROVE  Quiet \/ Invalidated \/ GivenUp \/ \E kind \in Kinds : Recorded(kind)
  <2>1. CASE HandshakeDone(c) \/ AbortedCompletes(c)
    BY <2>1 DEF HandshakeDone, AbortedCompletes, feedVars, flags, log, Quiet
  <2>2. CASE Subscribed(c)
    BY <2>2 DEF Subscribed, log, Quiet
  <2>3. CASE OperationFails(c)
    <3>1. ~stopping /\ ~recovering
      BY <2>3 DEF OperationFails, Sessions, OnlyCurrentOpen
    <3>. QED
      BY <1>1, <2>3, <3>1 DEF OperationFails, ErrorCallback
  <2>4. CASE CloseCompletes(c)
    <3>1. UNCHANGED <<stopping, connection, first_record, records, after, seen_record, failed>>
      BY <2>4 DEF CloseCompletes
    <3>2. \/ UNCHANGED <<recovering, book, events>>
          \/ ~stopping /\ Recover(book, FALSE, records, Without(c))
      BY <2>4 DEF CloseCompletes, ErrorCallback
    <3>. QED
      BY <1>1, <3>1, <3>2 DEF Quiet
  <2>5. CASE MessageRefused(c)
    BY <1>3, <2>5 DEF MessageRefused, log
  <2>6. ASSUME NEW kind \in Kinds, Message(c, kind) PROVE Recorded(kind)
    <3>1. ~stopping /\ ~recovering /\ connection > 0
      BY <2>6, SessionsAbortable DEF Message, Sessions, OnlyCurrentOpen
    <3>. QED
      BY <2>6, <3>1 DEF Message, Recorded, Recover
  <2>. QED
    BY <1>11, <2>1, <2>2, <2>3, <2>4, <2>5, <2>6 DEF SessionStep
<1>12. CASE UNCHANGED vars
  BY <1>12 DEF vars, feedVars, flags, log, Quiet
<1>. QED
  BY <1>5, <1>6, <1>7, <1>8, <1>9, <1>10, <1>11, <1>12 DEF Next, Finished

\* The books and what is made of them are books.
LEMMA BooksTyped ==
    ASSUME NEW b \in Books, NEW kind \in Kinds, NEW index \in Nat, NEW reset \in BOOLEAN
    PROVE  /\ Processed(b, kind, index) \in Books /\ AtRecord(b, reset) \in Books
           /\ RecoveredBook(b, reset) \in Books /\ [b EXCEPT !.state = "Invalid"] \in Books
<1>1. b.levels \in Seq(Nat) /\ b.state \in BookStates /\ b = [state |-> b.state, levels |-> b.levels]
  BY DEF Books
<1>2. ASSUME NEW st \in BookStates PROVE [b EXCEPT !.state = st] \in Books
  BY DEF Books
<1>3. <<index>> \in Seq(Nat) /\ Append(b.levels, index) \in Seq(Nat)
  BY <1>1
<1>4. [state |-> "Valid", levels |-> <<index>>] \in Books
  BY <1>3 DEF Books, BookStates
<1>5. [b EXCEPT !.levels = Append(@, index)] \in Books
  BY <1>1, <1>3 DEF Books
<1>6. Processed(b, kind, index) \in Books
  BY <1>2, <1>4, <1>5 DEF Processed, BookStates, Kinds
<1>. QED
  BY <1>2, <1>6 DEF AtRecord, RecoveredBook, BookStates

\* An event recover() observes.
LEMMA EventTyped ==
    ASSUME NEW b \in Books, NEW n \in Nat, NEW stale
    PROVE  [index |-> n, state |-> RecoveredBook(b, stale).state] \in Events
  BY DEF RecoveredBook, Books, Events

\* The log keeps its types.
LEMMA LogTyped ==
    ASSUME LogTypes, FlagTypes, Quiet \/ Invalidated \/ GivenUp \/ Opened \/ \E kind \in Kinds : Recorded(kind)
    PROVE  LogTypes'
<1>. USE DEF LogTypes, logVars
<1>1. CASE Quiet
  BY <1>1 DEF Quiet
<1>2. CASE Invalidated
  BY <1>2, BooksTyped DEF Invalidated, Kinds
<1>3. CASE GivenUp
  <2>1. [index |-> Len(records), state |-> book'.state] \in Events
    <3>1. Len(records) \in Nat
      OBVIOUS
    <3>. QED
      BY <1>3, <3>1, EventTyped DEF GivenUp
  <2>2. book' \in Books
    BY <1>3, BooksTyped DEF GivenUp, Kinds
  <2>. QED
    BY <1>3, <2>1, <2>2 DEF GivenUp
<1>4. CASE Opened
  BY <1>4 DEF Opened
<1>5. ASSUME NEW kind \in Kinds, Recorded(kind) PROVE LogTypes'
  <2>. DEFINE found == AtRecord(book, first_record /\ seen_record)
              processed == Processed(found, kind, Len(records))
  <2>1. found \in Books
    BY BooksTyped DEF FlagTypes
  <2>2. processed \in Books /\ RecoveredBook(processed, FALSE) \in Books
    <3>1. Len(records) \in Nat
      OBVIOUS
    <3>. HIDE DEF found
    <3>2. processed \in Books
      BY <2>1, <3>1, BooksTyped
    <3>. QED
      BY <3>2, BooksTyped
  <2>3. [connection |-> connection, kind |-> kind] \in Records
    BY DEF Records
  <2>. HIDE DEF processed
  <2>4. records' \in Seq(Records) /\ after' \in Seq(Books) /\ connection' \in Nat
    BY <1>5, <2>2, <2>3 DEF Recorded, processed
  <2>5. [index |-> Len(records'), state |-> RecoveredBook(processed, FALSE).state] \in Events
    <3>1. Len(records') \in Nat
      BY <2>4
    <3>. QED
      BY <2>2, <3>1, EventTyped
  <2>6. \/ book' = processed /\ events' = events
        \/ /\ book' = RecoveredBook(processed, FALSE)
           /\ events' = Append(events, [index |-> Len(records'), state |-> RecoveredBook(processed, FALSE).state])
    BY <1>5 DEF Recorded, processed
  <2>7. book' \in Books /\ events' \in Seq(Events)
    <3>. DEFINE event == [index |-> Len(records'), state |-> RecoveredBook(processed, FALSE).state]
    <3>1. event \in Events /\ events \in Seq(Events) /\ (events' = events \/ events' = Append(events, event))
      BY <2>5, <2>6
    <3>2. book' \in Books
      BY <2>2, <2>6
    <3>. HIDE DEF event
    <3>3. events' \in Seq(Events)
      BY <3>1
    <3>. QED
      BY <3>2, <3>3
  <2>. QED
    BY <2>4, <2>7
<1>. QED
  BY <1>1, <1>2, <1>3, <1>4, <1>5

-----------------------------------------------------------------------------
(***************************************************************************)
(* The invariant, part by part.                                            *)
(***************************************************************************)
\* The record a message leaves, the book it makes.
Processing(kind) == Processed(AtRecord(book, first_record /\ seen_record), kind, Len(records))

\* A recorded message, index by index.
LEMMA RecordedEffect ==
    ASSUME LogTypes, FlagTypes, Len(after) = Len(records), NEW kind \in Kinds, Recorded(kind)
    PROVE  /\ Len(records) \in Nat /\ Len(records') = Len(records) + 1 /\ Len(after') = Len(records) + 1
           /\ \A i \in 1 .. Len(records) : records'[i] = records[i] /\ after'[i] = after[i]
           /\ records'[Len(records) + 1] = [connection |-> connection, kind |-> kind]
           /\ after'[Len(records) + 1] = Processing(kind)
           /\ Processing(kind) \in Books
<1>1. records \in Seq(Records) /\ after \in Seq(Books) /\ Len(records) \in Nat
  BY DEF LogTypes
<1>2. [connection |-> connection, kind |-> kind] \in Records
  BY DEF LogTypes, Records
<1>3. AtRecord(book, first_record /\ seen_record) \in Books
  BY BooksTyped DEF LogTypes, FlagTypes
<1>4. Processing(kind) \in Books
  BY <1>1, <1>3, BooksTyped DEF Processing
<1>5. records' = Append(records, [connection |-> connection, kind |-> kind]) /\ after' = Append(after, Processing(kind))
  BY DEF Recorded, Processing
<1>6. /\ Len(records') = Len(records) + 1
      /\ \A i \in 1 .. Len(records) : records'[i] = records[i]
      /\ records'[Len(records) + 1] = [connection |-> connection, kind |-> kind]
  BY <1>1, <1>2, <1>5
<1>7. /\ Len(after') = Len(after) + 1
      /\ \A i \in 1 .. Len(after) : after'[i] = after[i]
      /\ after'[Len(after) + 1] = Processing(kind)
  BY <1>1, <1>4, <1>5
<1>. QED
  BY <1>1, <1>4, <1>6, <1>7

\* The records stay numbered.
LEMMA NumberedStep ==
    ASSUME LogTypes, FlagTypes, Numbered,
           Quiet \/ Invalidated \/ GivenUp \/ Opened \/ \E kind \in Kinds : Recorded(kind)
    PROVE  Numbered'
<1>1. connection \in Nat /\ records \in Seq(Records) /\ Len(records) \in Nat
  BY DEF LogTypes
<1>2. \A i \in 1 .. Len(records) : records[i].connection \in Nat
  <2>1. ASSUME NEW i \in 1 .. Len(records) PROVE records[i] \in Records
    BY <1>1
  <2>. QED
    BY <2>1 DEF Records
<1>3. CASE Quiet \/ Invalidated
  BY <1>3 DEF Quiet, Invalidated, Numbered, logVars
<1>4. ASSUME UNCHANGED <<records, after, seen_record, failed>>, ~stopping,
             \/ connection' = connection /\ first_record' = first_record
             \/ connection' = connection + 1 /\ first_record' = TRUE
      PROVE  Numbered'
  <2>1. CASE connection' = connection /\ first_record' = first_record
    BY <1>4, <2>1 DEF Numbered
  <2>2. CASE connection' = connection + 1 /\ first_record' = TRUE
    <3>1. Len(records) > 0 => records[Len(records)].connection # connection'
      BY <1>1, <1>2, <2>2 DEF Numbered
    <3>2. \A i \in 1 .. Len(records) : records[i].connection \in 1 .. connection'
      BY <1>1, <1>2, <2>2 DEF Numbered
    <3>. QED
      BY <1>4, <2>2, <3>1, <3>2 DEF Numbered
  <2>. QED
    BY <1>4, <2>1, <2>2
<1>5. CASE GivenUp
  BY <1>4, <1>5 DEF GivenUp
<1>6. CASE Opened
  BY <1>4, <1>6 DEF Opened
<1>7. ASSUME NEW kind \in Kinds, Recorded(kind) PROVE Numbered'
  <2>1. Len(after) = Len(records)
    BY DEF Numbered
  <2>. DEFINE n == Len(records)
  <2>2. /\ n \in Nat /\ Len(records') = n + 1 /\ Len(after') = n + 1
        /\ \A i \in 1 .. n : records'[i] = records[i]
        /\ records'[n + 1].connection = connection
    <3>1. records'[n + 1] = [connection |-> connection, kind |-> kind]
      BY <1>7, <2>1, RecordedEffect
    <3>2. n \in Nat /\ Len(records') = n + 1 /\ Len(after') = n + 1
      BY <1>7, <2>1, RecordedEffect
    <3>3. \A i \in 1 .. n : records'[i] = records[i]
      BY <1>7, <2>1, RecordedEffect
    <3>. QED
      BY <3>1, <3>2, <3>3
  <2>3. connection' = connection /\ connection > 0 /\ seen_record' = TRUE /\ first_record' = FALSE /\ ~failed'
    BY <1>7 DEF Recorded, Numbered
  <2>. HIDE DEF n
  <2>4. \A i \in 1 .. n : records[i].connection \in 1 .. connection
    BY DEF Numbered, n
  <2>5. \A i \in 2 .. n : records[i - 1].connection <= records[i].connection
    BY DEF Numbered, n
  <2>6. \A i \in 1 .. n + 1 : records'[i].connection \in 1 .. connection
    BY <1>1, <2>2, <2>3, <2>4
  <2>7. ASSUME NEW i \in 2 .. n + 1 PROVE records'[i - 1].connection <= records'[i].connection
    <3>1. CASE i = n + 1
      <4>1. records'[i].connection = connection /\ i - 1 \in 1 .. n + 1
        BY <2>2, <3>1
      <4>. QED
        BY <2>6, <4>1
    <3>2. CASE i \in 2 .. n
      <4>1. i - 1 \in 1 .. n /\ i \in 1 .. n
        BY <2>2, <3>2
      <4>. QED
        BY <2>2, <2>5, <3>2, <4>1
    <3>. QED
      BY <2>2, <3>1, <3>2
  <2>. QED
    BY <2>2, <2>3, <2>6, <2>7 DEF Numbered
<1>. QED
  BY <1>3, <1>5, <1>6, <1>7

\* The book of a recovering feed is not Valid.
LEMMA RecoveredState ==
    ASSUME NEW b \in Books, NEW stale
    PROVE  /\ RecoveredBook(b, stale).levels = b.levels
           /\ RecoveredBook(b, stale).state = IF stale THEN "Stale" ELSE "Disconnected"
  BY DEF Books, RecoveredBook

\* The book stays the last record's until the connection is given up.
LEMMA FollowedStep ==
    ASSUME LogTypes, FlagTypes, Numbered, Followed,
           Quiet \/ Invalidated \/ GivenUp \/ Opened \/ \E kind \in Kinds : Recorded(kind)
    PROVE  Followed'
<1>1. book \in Books
  BY DEF LogTypes
<1>2. CASE Quiet
  BY <1>2 DEF Quiet, Followed, logVars
<1>3. CASE Invalidated
  <2>1. book'.state = "Invalid"
    BY <1>1, <1>3 DEF Invalidated, Books
  <2>. QED
    BY <1>3, <2>1 DEF Invalidated, Followed
<1>4. CASE GivenUp
  <2>1. book'.state # "Valid"
    BY <1>1, <1>4, RecoveredState DEF GivenUp
  <2>. QED
    BY <1>4, <2>1 DEF GivenUp, Followed
<1>5. CASE Opened
  <2>1. connection = 0 => first_record
    <3>1. Len(records) > 0 => records[Len(records)].connection \in 1 .. connection
      BY DEF Numbered, LogTypes
    <3>. QED
      BY <3>1 DEF Numbered, LogTypes
  <2>. QED
    BY <1>5, <2>1 DEF Opened, Followed
<1>6. ASSUME NEW kind \in Kinds, Recorded(kind) PROVE Followed'
  <2>1. Len(records') = Len(records) + 1 /\ after'[Len(records) + 1] = Processing(kind) /\ Processing(kind) \in Books
    BY <1>6, RecordedEffect DEF Numbered
  <2>2. CASE book' = Processing(kind) /\ UNCHANGED recovering
    BY <1>6, <2>1, <2>2 DEF Recorded, Followed
  <2>3. CASE book' = RecoveredBook(Processing(kind), FALSE) /\ recovering' = TRUE
    BY <2>1, <2>3, RecoveredState DEF Followed
  <2>. QED
    BY <1>6, <2>2, <2>3 DEF Recorded, Processing
<1>. QED
  BY <1>2, <1>3, <1>4, <1>5, <1>6

\* Appending to a sequence that has a head adds to the rest.
LEMMA TailAppend ==
    ASSUME NEW S, NEW s \in Seq(S), s # <<>>, NEW x \in S
    PROVE  /\ Head(Append(s, x)) = Head(s) /\ Append(s, x) # <<>>
           /\ ToSet(Tail(Append(s, x))) = ToSet(Tail(s)) \cup {x}
<1>. DEFINE t == Append(s, x)
<1>1. t \in Seq(S) /\ Len(t) = Len(s) + 1 /\ Len(s) \in Nat /\ Len(s) > 0
  OBVIOUS
<1>2. t[Len(s) + 1] = x /\ \A i \in 1 .. Len(s) : t[i] = s[i]
  OBVIOUS
<1>3. t # <<>> /\ Head(t) = Head(s)
  BY <1>1, <1>2
<1>4. Len(Tail(t)) = Len(s) /\ \A i \in 1 .. Len(s) : Tail(t)[i] = t[i + 1]
  BY <1>1, <1>3
<1>5. Len(Tail(s)) = Len(s) - 1 /\ \A i \in 1 .. Len(s) - 1 : Tail(s)[i] = s[i + 1]
  BY <1>1
<1>6. ToSet(Tail(t)) = {Tail(t)[i] : i \in 1 .. Len(s)} /\ ToSet(Tail(s)) = {Tail(s)[i] : i \in 1 .. Len(s) - 1}
  <2>1. Tail(t) \in Seq(S) /\ Tail(s) \in Seq(S)
    BY <1>1, <1>3
  <2>2. DOMAIN Tail(t) = 1 .. Len(s) /\ DOMAIN Tail(s) = 1 .. Len(s) - 1
    BY <1>4, <1>5, <2>1
  <2>. QED
    BY <2>2 DEF ToSet
<1>. HIDE DEF t
<1>7. ASSUME NEW i \in 1 .. Len(s) PROVE Tail(t)[i] \in ToSet(Tail(s)) \cup {x}
  <2>1. CASE i = Len(s)
    BY <1>1, <1>2, <1>4, <2>1
  <2>2. CASE i \in 1 .. Len(s) - 1
    <3>1. Tail(t)[i] = Tail(s)[i]
      BY <1>1, <1>2, <1>4, <1>5, <2>2
    <3>. QED
      BY <1>6, <2>2, <3>1
  <2>. QED
    BY <1>1, <2>1, <2>2
<1>8. ASSUME NEW i \in 1 .. Len(s) - 1 PROVE Tail(s)[i] \in ToSet(Tail(t))
  <2>1. i \in 1 .. Len(s) /\ Tail(t)[i] = Tail(s)[i]
    BY <1>1, <1>2, <1>4, <1>5
  <2>. QED
    BY <1>6, <2>1
<1>9. x \in ToSet(Tail(t))
  <2>1. Len(s) \in 1 .. Len(s) /\ Tail(t)[Len(s)] = x
    BY <1>1, <1>2, <1>4
  <2>. QED
    BY <1>6, <2>1
<1>10. ToSet(Tail(t)) = ToSet(Tail(s)) \cup {x}
  BY <1>6, <1>7, <1>8, <1>9
<1>. QED
  BY <1>3, <1>10 DEF t

\* What the processor makes of a book, kind by kind.
LEMMA ProcessedCases ==
    ASSUME NEW b \in Books, NEW kind \in Kinds, NEW index \in Nat
    PROVE  /\ kind = "harmless" => Processed(b, kind, index) = b
           /\ kind = "snapshot" => Processed(b, kind, index) = [state |-> "Valid", levels |-> <<index>>]
           /\ kind = "update" =>
                  Processed(b, kind, index) =
                      IF b.state = "Valid" THEN [state |-> "Valid", levels |-> Append(b.levels, index)] ELSE b
           /\ kind \in {"bad", "bad_update"} =>
                  /\ Processed(b, kind, index).state # "Valid"
                  /\ Processed(b, kind, index).levels = b.levels
<1>1. kind = "harmless" => Processed(b, kind, index) = b
  BY DEF Processed
<1>2. kind = "snapshot" => Processed(b, kind, index) = [state |-> "Valid", levels |-> <<index>>]
  BY DEF Processed
<1>3. ASSUME kind = "update"
      PROVE  Processed(b, kind, index) =
                 IF b.state = "Valid" THEN [state |-> "Valid", levels |-> Append(b.levels, index)] ELSE b
  <2>1. b.state = "Valid" =>
            [b EXCEPT !.levels = Append(@, index)] = [state |-> "Valid", levels |-> Append(b.levels, index)]
    <3>. DEFINE l == Append(b.levels, index)
    <3>1. [b EXCEPT !.levels = Append(@, index)] = [b EXCEPT !.levels = l]
      OBVIOUS
    <3>. HIDE DEF l
    <3>2. b.state = "Valid" => [b EXCEPT !.levels = l] = [state |-> "Valid", levels |-> l]
      BY DEF Books
    <3>. QED
      BY <3>1, <3>2 DEF l
  <2>2. Processed(b, kind, index) = IF b.state = "Valid" THEN [b EXCEPT !.levels = Append(@, index)] ELSE b
    BY <1>3 DEF Processed
  <2>. QED
    BY <2>1, <2>2
<1>4. ASSUME kind \in {"bad", "bad_update"}
      PROVE  Processed(b, kind, index).state # "Valid" /\ Processed(b, kind, index).levels = b.levels
  BY <1>4 DEF Processed, Books
<1>. QED
  BY <1>1, <1>2, <1>3, <1>4

\* A Valid book stays the snapshot of its connection and the updates after it.
LEMMA CurrentStep ==
    ASSUME LogTypes, FlagTypes, Numbered, Followed, Followed', Current,
           Quiet \/ Invalidated \/ GivenUp \/ Opened \/ \E kind \in Kinds : Recorded(kind)
    PROVE  Current'
<1>1. book \in Books
  BY DEF LogTypes
<1>2. CASE Quiet
  BY <1>2 DEF Quiet, Current, ValidIsCurrent, logVars
<1>3. CASE Invalidated
  <2>1. book'.state = "Invalid"
    BY <1>1, <1>3 DEF Invalidated, Books
  <2>. QED
    BY <2>1 DEF Current
<1>4. CASE GivenUp \/ Opened
  BY <1>4 DEF GivenUp, Opened, Current, Followed
<1>5. ASSUME NEW kind \in Kinds, Recorded(kind) PROVE Current'
  <2>. DEFINE n == Len(records)
              found == AtRecord(book, first_record /\ seen_record)
              first == Head(book.levels)
  <2>. SUFFICES ASSUME book'.state = "Valid" PROVE Current'
    BY DEF Current
  <2>1. /\ n \in Nat /\ Len(records') = n + 1 /\ connection' = connection
        /\ \A i \in 1 .. n : records'[i] = records[i]
        /\ records'[n + 1].connection = connection /\ records'[n + 1].kind = kind
    <3>1. records'[n + 1] = [connection |-> connection, kind |-> kind]
      BY <1>5, RecordedEffect DEF Numbered
    <3>2. n \in Nat /\ Len(records') = n + 1 /\ connection' = connection
      BY <1>5, RecordedEffect DEF Numbered, Recorded
    <3>3. \A i \in 1 .. n : records'[i] = records[i]
      BY <1>5, RecordedEffect DEF Numbered
    <3>. QED
      BY <3>1, <3>2, <3>3
  <2>2. book' = Processed(found, kind, n)
    BY <1>5 DEF Followed, Recorded
  <2>3. found \in Books /\ (found.state = "Valid" => found = book)
    BY <1>1, BooksTyped DEF AtRecord, FlagTypes, Books
  <2>. HIDE DEF n, found
  <2>4. CASE kind = "snapshot"
    <3>1. book'.levels = <<n>>
      BY <2>1, <2>2, <2>3, <2>4, ProcessedCases
    <3>2. book'.levels # <<>> /\ Head(book'.levels) = n /\ Tail(book'.levels) = <<>>
      BY <3>1
    <3>3. ToSet(Tail(book'.levels)) = {}
      BY <3>2 DEF ToSet
    <3>4. {i \in n + 1 .. Len(records') - 1 : records'[i + 1].kind = "update"} = {}
      BY <2>1
    <3>5. \A i \in n + 1 .. Len(records') : records'[i].connection = connection'
      BY <2>1
    <3>6. \A i \in n + 2 .. Len(records') : records'[i].kind \in {"update", "harmless"}
      BY <2>1
    <3>7. n < Len(records') /\ records'[n + 1].kind = "snapshot"
      BY <2>1, <2>4
    <3>. QED
      BY <3>2, <3>3, <3>4, <3>5, <3>6, <3>7 DEF Current, ValidIsCurrent
  <2>5. ASSUME kind \in {"update", "harmless"}, book.state = "Valid",
               book'.levels # <<>>, Head(book'.levels) = first,
               ToSet(Tail(book'.levels)) = ToSet(Tail(book.levels)) \cup (IF kind = "update" THEN {n} ELSE {})
        PROVE  Current'
    <3>1. /\ first \in Nat /\ first < n /\ records[first + 1].kind = "snapshot"
          /\ \A i \in first + 1 .. n : records[i].connection = connection
          /\ \A i \in first + 2 .. n : records[i].kind \in {"update", "harmless"}
          /\ ToSet(Tail(book.levels)) = {i \in first + 1 .. n - 1 : records[i + 1].kind = "update"}
      <4>1. book.levels \in Seq(Nat) /\ book.levels # <<>>
        BY <1>1, <2>5 DEF Books, Current
      <4>2. first \in Nat
        BY <4>1
      <4>. QED
        BY <2>5, <4>2 DEF Current, ValidIsCurrent, n
    <3>. HIDE DEF first
    <3>2. first < Len(records') /\ records'[first + 1].kind = "snapshot"
      BY <2>1, <3>1
    <3>3. \A i \in first + 1 .. Len(records') : records'[i].connection = connection'
      BY <2>1, <3>1
    <3>4. \A i \in first + 2 .. Len(records') : records'[i].kind \in {"update", "harmless"}
      BY <2>1, <2>5, <3>1
    <3>5. ToSet(Tail(book'.levels)) = {i \in first + 1 .. Len(records') - 1 : records'[i + 1].kind = "update"}
      <4>1. ASSUME NEW i
            PROVE  i \in first + 1 .. n /\ records'[i + 1].kind = "update"
                   <=> (i \in first + 1 .. n - 1 /\ records[i + 1].kind = "update") \/ (i = n /\ kind = "update")
        BY <2>1, <3>1
      <4>2. Len(records') - 1 = n
        BY <2>1
      <4>. QED
        BY <2>5, <3>1, <4>1, <4>2
    <3>. QED
      BY <2>5, <3>2, <3>3, <3>4, <3>5 DEF Current, ValidIsCurrent
  <2>6. CASE kind = "harmless"
    <3>1. book' = book
      BY <2>1, <2>2, <2>3, <2>6, ProcessedCases
    <3>. QED
      BY <2>5, <2>6, <3>1 DEF Current
  <2>7. CASE kind = "update"
    <3>1. found.state = "Valid" /\ book'.levels = Append(found.levels, n)
      BY <2>1, <2>2, <2>3, <2>7, ProcessedCases
    <3>2. found = book /\ book.levels \in Seq(Nat) /\ book.levels # <<>>
      BY <1>1, <2>3, <3>1 DEF Books, Current
    <3>3. /\ Head(book'.levels) = first /\ book'.levels # <<>>
          /\ ToSet(Tail(book'.levels)) = ToSet(Tail(book.levels)) \cup {n}
      <4>1. n \in Nat /\ book'.levels = Append(book.levels, n)
        BY <2>1, <3>1, <3>2
      <4>. QED
        BY <3>2, <4>1, TailAppend
    <3>. QED
      BY <2>5, <2>7, <3>1, <3>2, <3>3
  <2>8. CASE kind \in {"bad", "bad_update"}
    BY <2>1, <2>2, <2>3, <2>8, ProcessedCases
  <2>. QED
    BY <2>4, <2>6, <2>7, <2>8 DEF Kinds
<1>. QED
  BY <1>2, <1>3, <1>4, <1>5

\* Events that come later do not matter.
LEMMA SinceSame ==
    ASSUME NEW b, NEW from \in Nat, NEW to \in Nat, from <= to, NEW evts, NEW more,
           \A k \in 1 .. to : more[k] = evts[k]
    PROVE  Since(b, from, to, more) = Since(b, from, to, evts)
<1>1. from # to => more[to] = evts[to]
  OBVIOUS
<1>. QED
  BY <1>1 DEF Since

\* A book with no event since is the same, one with an event is in the event's state.
LEMMA SinceCases ==
    ASSUME NEW b \in Books, NEW from, NEW to, NEW evts
    PROVE  /\ from = to => Since(b, from, to, evts) = b
           /\ from # to => Since(b, from, to, evts) = [state |-> Event(evts[to].state), levels |-> b.levels]
           /\ Since(b, from, to, evts).levels = b.levels
  BY DEF Since, Books

\* The cuts are positions of the events, in order.
LEMMA CutsOrdered ==
    ASSUME LogTypes, NEW cut, Cuts(cut)
    PROVE  /\ Len(records) \in Nat /\ Len(events) \in Nat
           /\ \A k \in 1 .. Len(events) : events[k].index \in Nat
           /\ \A i \in 0 .. Len(records) : cut[i] \in 0 .. Len(events)
           /\ cut[0] = 0
           /\ \A i \in 1 .. Len(records) : i - 1 \in 0 .. Len(records) /\ cut[i - 1] <= cut[i]
<1>1. Len(records) \in Nat /\ Len(events) \in Nat
  BY DEF LogTypes
<1>2. ASSUME NEW k \in 1 .. Len(events) PROVE events[k].index \in Nat
  <2>1. events[k] \in Events
    BY DEF LogTypes
  <2>. QED
    BY <2>1 DEF Events
<1>3. \A i \in 0 .. Len(records) : cut[i] \in 0 .. Len(events)
  BY DEF Cuts
<1>4. cut[0] = 0
  <2>1. 0 \in 0 .. Len(records)
    BY <1>1
  <2>2. SUFFICES ASSUME cut[0] \in 1 .. Len(events) PROVE FALSE
    BY <1>1, <1>3, <2>1
  <2>3. events[cut[0]].index < 0
    BY <1>1, <2>1, <2>2 DEF Cuts
  <2>. QED
    BY <1>2, <2>2, <2>3
<1>5. ASSUME NEW i \in 1 .. Len(records) PROVE i - 1 \in 0 .. Len(records) /\ cut[i - 1] <= cut[i]
  <2>1. i - 1 \in 0 .. Len(records) /\ i \in 0 .. Len(records)
    BY <1>1
  <2>2. CASE cut[i - 1] = 0
    BY <1>1, <1>3, <2>1, <2>2
  <2>3. CASE cut[i - 1] \in 1 .. Len(events)
    <3>1. events[cut[i - 1]].index < i - 1
      BY <1>1, <2>1, <2>3 DEF Cuts
    <3>2. events[cut[i - 1]].index < i
      BY <1>2, <2>3, <3>1
    <3>. QED
      BY <2>1, <2>3, <3>2 DEF Cuts
  <2>. QED
    BY <1>1, <1>3, <2>1, <2>2, <2>3
<1>. QED
  BY <1>1, <1>2, <1>3, <1>4, <1>5

\* What has been replayed stays replayed when the log grows.
LEMMA ReplaysKept ==
    ASSUME LogTypes, NEW cut, Cuts(cut), Replays(cut), Len(after) = Len(records),
           \A i \in 1 .. Len(records) : records'[i] = records[i] /\ after'[i] = after[i],
           \A k \in 1 .. Len(events) : events'[k] = events[k],
           NEW new, \A i \in 0 .. Len(records) : new[i] = cut[i]
    PROVE  \A i \in 1 .. Len(records) :
               after'[i] = Processed(AtRecord(Since(LastBook(i - 1)', new[i - 1], new[i], events'), Resets(i)'),
                                     records'[i].kind, i - 1)
<1>. SUFFICES ASSUME NEW i \in 1 .. Len(records)
              PROVE  after'[i] = Processed(AtRecord(Since(LastBook(i - 1)', new[i - 1], new[i], events'), Resets(i)'),
                                           records'[i].kind, i - 1)
  OBVIOUS
<1>1. Len(records) \in Nat /\ Len(events) \in Nat
  BY CutsOrdered
<1>2. i - 1 = 0 \/ i - 1 \in 1 .. Len(records)
  BY <1>1
<1>3. LastBook(i - 1)' = LastBook(i - 1) /\ LastConnection(i - 1)' = LastConnection(i - 1)
  BY <1>2 DEF LastBook, LastConnection
<1>4. Resets(i)' = Resets(i)
  BY <1>3 DEF Resets
<1>5. i - 1 \in 0 .. Len(records) /\ i \in 0 .. Len(records) /\ cut[i - 1] \in 0 .. Len(events)
      /\ cut[i] \in 0 .. Len(events) /\ cut[i - 1] <= cut[i]
  BY <1>1, CutsOrdered
<1>6. new[i - 1] = cut[i - 1] /\ new[i] = cut[i]
  BY <1>5
<1>7. Since(LastBook(i - 1), cut[i - 1], cut[i], events') = Since(LastBook(i - 1), cut[i - 1], cut[i], events)
  <2>1. cut[i - 1] \in Nat /\ cut[i] \in Nat /\ \A k \in 1 .. cut[i] : events'[k] = events[k]
    BY <1>1, <1>5
  <2>. QED
    BY <1>5, <2>1, SinceSame
<1>8. after[i] = Processed(AtRecord(Since(LastBook(i - 1), cut[i - 1], cut[i], events), Resets(i)),
                           records[i].kind, i - 1)
  BY DEF Replays
<1>. QED
  BY <1>3, <1>4, <1>6, <1>7, <1>8

\* The books of the log are books.
LEMMA LastBookTyped ==
    ASSUME LogTypes, Len(after) = Len(records), NEW i \in 0 .. Len(records)
    PROVE  LastBook(i) \in Books
<1>1. EmptyBook \in Books
  BY DEF EmptyBook, Books, BookStates
<1>2. i # 0 => after[i] \in Books
  BY DEF LogTypes
<1>. QED
  BY <1>1, <1>2 DEF LastBook

\* What recover() appends to the events.
Observed(n, b) ==
    /\ Len(events') = Len(events) + 1
    /\ \A k \in 1 .. Len(events) : events'[k] = events[k]
    /\ events'[Len(events) + 1].index = n
    /\ events'[Len(events) + 1].state = b.state

\* Appending recover()'s event to the log is observing it.
LEMMA EventObserved ==
    ASSUME LogTypes, NEW n \in Nat, NEW b \in Books, NEW stale,
           events' = Append(events, [index |-> n, state |-> RecoveredBook(b, stale).state])
    PROVE  Observed(n, RecoveredBook(b, stale))
<1>. DEFINE e == [index |-> n, state |-> RecoveredBook(b, stale).state]
<1>1. e \in Events /\ events \in Seq(Events)
  BY EventTyped DEF LogTypes
<1>2. e.index = n /\ e.state = RecoveredBook(b, stale).state
  OBVIOUS
<1>. HIDE DEF e
<1>3. events' = Append(events, e)
  BY DEF e
<1>4. /\ Len(events') = Len(events) + 1 /\ events'[Len(events) + 1] = e
      /\ \A k \in 1 .. Len(events) : events'[k] = events[k]
  BY <1>1, <1>3
<1>. QED
  BY <1>2, <1>4 DEF Observed

\* The cuts when a record, an event or both are appended.
LEMMA CutsGrow ==
    ASSUME LogTypes, NEW cut, Cuts(cut), NEW n \in Nat, Len(records') = n,
           n = Len(records) \/ n = Len(records) + 1,
           events' = events \/ \E b : Observed(n, b),
           NEW new, new = [i \in 0 .. n |-> IF i <= Len(records) THEN cut[i] ELSE Len(events)]
    PROVE  Cuts(new)'
<1>. DEFINE m == Len(events)
<1>1. /\ Len(records) \in Nat /\ m \in Nat
      /\ \A k \in 1 .. m : events[k].index \in Nat
      /\ \A i \in 0 .. Len(records) : cut[i] \in 0 .. m
  BY CutsOrdered
<1>2. /\ Len(events') = m \/ Len(events') = m + 1
      /\ \A k \in 1 .. m : events'[k] = events[k]
      /\ Len(events') = m + 1 => events'[m + 1].index = n
  BY <1>1 DEF Observed
<1>3. \A k \in 1 .. m : /\ events[k].index <= Len(records)
                        /\ \A i \in 0 .. Len(records) : events[k].index < i <=> k <= cut[i]
  BY DEF Cuts
<1>4. \A i \in 0 .. n : new[i] = IF i <= Len(records) THEN cut[i] ELSE m
  OBVIOUS
<1>. HIDE DEF m
<1>5. ASSUME NEW i \in 0 .. n PROVE new[i] \in 0 .. m
  BY <1>1, <1>4
<1>6. new \in [0 .. n -> 0 .. Len(events')]
  <2>1. ASSUME NEW i \in 0 .. n PROVE (IF i <= Len(records) THEN cut[i] ELSE m) \in 0 .. Len(events')
    BY <1>1, <1>2, <1>4, <1>5
  <2>. QED
    BY <2>1 DEF m
<1>7. ASSUME NEW k \in 1 .. Len(events')
      PROVE  events'[k].index <= n /\ \A i \in 0 .. n : events'[k].index < i <=> k <= new[i]
  <2>1. CASE k \in 1 .. m
    <3>1. events'[k].index = events[k].index /\ events[k].index \in Nat /\ events[k].index <= Len(records)
      BY <1>1, <1>2, <1>3, <2>1
    <3>2. ASSUME NEW i \in 0 .. n PROVE events[k].index < i <=> k <= new[i]
      <4>1. CASE i <= Len(records)
        <5>1. i \in 0 .. Len(records) /\ new[i] = cut[i]
          BY <1>1, <1>4, <4>1
        <5>. QED
          BY <1>3, <2>1, <5>1
      <4>2. CASE i = Len(records) + 1
        <5>1. new[i] = m
          BY <1>1, <1>4, <4>2
        <5>. QED
          BY <1>1, <2>1, <3>1, <4>2, <5>1
      <4>. QED
        BY <1>1, <4>1, <4>2
    <3>. QED
      BY <1>1, <3>1, <3>2
  <2>2. CASE k = m + 1 /\ Len(events') = m + 1
    <3>1. events'[k].index = n
      BY <1>2, <2>2
    <3>. QED
      BY <1>1, <1>5, <2>2, <3>1
  <2>. QED
    BY <1>1, <1>2, <2>1, <2>2
<1>. QED
  BY <1>6, <1>7 DEF Cuts

\* The replay resets the book where the feed does.
LEMMA ResetsAtRecord ==
    ASSUME LogTypes, FlagTypes, Numbered, NEW kind \in Kinds, Recorded(kind),
           NEW n, n = Len(records)
    PROVE  Resets(n + 1)' <=> first_record /\ seen_record
<1>1. n \in Nat /\ \A i \in 1 .. n : records'[i] = records[i]
  BY RecordedEffect DEF Numbered
<1>2. records'[n + 1].connection = connection
  <2>1. records'[n + 1] = [connection |-> connection, kind |-> kind]
    BY RecordedEffect DEF Numbered
  <2>. QED
    BY <2>1
<1>3. (n + 1) - 1 = n
  BY <1>1
<1>4. CASE n = 0
  <2>1. LastConnection(n)' = NoConnection
    BY <1>4 DEF LastConnection
  <2>2. ~Resets(n + 1)'
    BY <1>3, <2>1 DEF Resets
  <2>. QED
    BY <1>4, <2>2 DEF Numbered
<1>5. CASE n > 0
  <2>1. LastConnection(n)' = records[n].connection
    BY <1>1, <1>5 DEF LastConnection
  <2>2. n \in 1 .. n
    BY <1>1, <1>5
  <2>3. records[n].connection # NoConnection
    BY <2>2 DEF Numbered, NoConnection, LogTypes
  <2>4. Resets(n + 1)' <=> records[n].connection # connection
    BY <1>2, <1>3, <2>1, <2>3 DEF Resets
  <2>5. (first_record <=> records[n].connection # connection) /\ seen_record
    BY <1>5 DEF Numbered
  <2>. QED
    BY <2>4, <2>5
<1>. QED
  BY <1>1, <1>4, <1>5

\* An event of recover() leaves the book in the state recover() gave it.
LEMMA RecoveredSince ==
    ASSUME NEW b \in Books, NEW d \in Books, b.levels = d.levels, NEW stale, NEW n, NEW from, NEW m,
           m = Len(events) + 1, from # m, Observed(n, RecoveredBook(d, stale))
    PROVE  RecoveredBook(d, stale) = Since(b, from, m, events')
<1>1. RecoveredBook(d, stale) = [state |-> RecoveredBook(d, stale).state, levels |-> d.levels]
  BY DEF RecoveredBook, Books
<1>2. Event(RecoveredBook(d, stale).state) = RecoveredBook(d, stale).state
  BY RecoveredState DEF Event
<1>3. events'[m].state = RecoveredBook(d, stale).state
  BY DEF Observed
<1>4. Since(b, from, m, events') = [state |-> Event(events'[m].state), levels |-> b.levels]
  BY SinceCases
<1>. QED
  BY <1>1, <1>2, <1>3, <1>4

\* The replay of the log still gives the books the feed had.
LEMMA LoggedStep ==
    ASSUME LogTypes, FlagTypes, Numbered, Logged,
           Quiet \/ Invalidated \/ GivenUp \/ Opened \/ \E kind \in Kinds : Recorded(kind)
    PROVE  Logged'
<1>1. PICK cut : /\ Cuts(cut) /\ Replays(cut)
                 /\ ~failed => book = Since(LastBook(Len(records)), cut[Len(records)], Len(events), events)
  BY DEF Logged
<1>2. PICK n : n = Len(records)
  OBVIOUS
<1>3. PICK m : m = Len(events)
  OBVIOUS
<1>4. n \in Nat /\ m \in Nat /\ cut[n] \in 0 .. m /\ Len(after) = n /\ book \in Books
  BY <1>1, <1>2, <1>3, CutsOrdered DEF Numbered, LogTypes
<1>5. LastBook(n) \in Books
  BY <1>2, <1>4, LastBookTyped
<1>6. CASE Quiet \/ Invalidated \/ Opened
  <2>1. UNCHANGED <<records, events, after>> /\ (~failed' => ~failed /\ book' = book)
    BY <1>6 DEF Quiet, Invalidated, Opened, logVars
  <2>2. Cuts(cut)' /\ Replays(cut)'
    BY <1>1, <2>1 DEF Cuts, Replays, LastBook, LastConnection, Resets
  <2>3. LastBook(Len(records))' = LastBook(Len(records))
    BY <2>1 DEF LastBook
  <2>4. ~failed' => book' = Since(LastBook(Len(records))', cut[Len(records')], Len(events'), events')
    BY <1>1, <2>1, <2>3
  <2>. QED
    BY <2>2, <2>4 DEF Logged
<1>7. CASE GivenUp
  <2>1. PICK new : new = [i \in 0 .. n |-> IF i <= Len(records) THEN cut[i] ELSE Len(events)]
    OBVIOUS
  <2>2. UNCHANGED <<records, after, failed>> /\ \E stale \in BOOLEAN : book' = RecoveredBook(book, stale)
    BY <1>7 DEF GivenUp
  <2>3. PICK stale \in BOOLEAN : book' = RecoveredBook(book, stale)
    BY <2>2
  <2>4. Observed(n, RecoveredBook(book, stale))
    BY <1>2, <1>4, <1>7, <2>3, EventObserved DEF GivenUp
  <2>5. Cuts(new)'
    BY <1>1, <1>2, <1>4, <2>1, <2>2, <2>4, CutsGrow
  <2>6. \A i \in 0 .. Len(records) : new[i] = cut[i]
    BY <1>2, <1>4, <2>1
  <2>7. \A k \in 1 .. Len(events) : events'[k] = events[k]
    BY <2>4 DEF Observed
  <2>8. Replays(new)'
    BY <1>1, <1>2, <1>4, <2>2, <2>6, <2>7, ReplaysKept DEF Replays
  <2>9. ASSUME ~failed PROVE book' = Since(LastBook(n), new[n], m + 1, events')
    <3>1. new[n] = cut[n] /\ new[n] # m + 1
      BY <1>2, <1>4, <2>6
    <3>2. book.levels = LastBook(n).levels
      BY <1>1, <1>2, <1>5, <2>9, SinceCases
    <3>. QED
      BY <1>3, <1>4, <1>5, <2>3, <2>4, <3>1, <3>2, RecoveredSince
  <2>10. LastBook(n)' = LastBook(n) /\ Len(records') = n /\ Len(events') = m + 1
    BY <1>2, <1>3, <2>2, <2>4 DEF LastBook, Observed
  <2>11. ~failed' => book' = Since(LastBook(Len(records))', new[Len(records')], Len(events'), events')
    BY <1>2, <2>2, <2>9, <2>10
  <2>. QED
    BY <2>5, <2>8, <2>11 DEF Logged
<1>8. ASSUME NEW kind \in Kinds, Recorded(kind) PROVE Logged'
  <2>1. PICK new : new = [i \in 0 .. n + 1 |-> IF i <= Len(records) THEN cut[i] ELSE Len(events)]
    OBVIOUS
  <2>2. PICK processed : processed = Processing(kind)
    OBVIOUS
  <2>3. PICK stale \in BOOLEAN : stale = FALSE
    OBVIOUS
  <2>4. /\ Len(records') = n + 1 /\ Len(after') = n + 1 /\ processed \in Books
        /\ \A i \in 1 .. Len(records) : records'[i] = records[i] /\ after'[i] = after[i]
        /\ after'[n + 1] = processed
    BY <1>2, <1>8, <2>2, RecordedEffect DEF Numbered
  <2>5. records'[n + 1].kind = kind
    <3>1. records'[n + 1] = [connection |-> connection, kind |-> kind]
      BY <1>2, <1>8, RecordedEffect DEF Numbered
    <3>. QED
      BY <3>1
  <2>6. \/ book' = processed /\ events' = events
        \/ book' = RecoveredBook(processed, stale) /\ Observed(n + 1, RecoveredBook(processed, stale))
    <3>1. CASE book' = processed /\ events' = events
      BY <3>1
    <3>2. CASE /\ book' = RecoveredBook(processed, stale)
               /\ events' = Append(events, [index |-> n + 1, state |-> RecoveredBook(processed, stale).state])
      BY <1>4, <2>4, <3>2, EventObserved
    <3>. QED
      BY <1>8, <2>2, <2>3, <2>4, <3>1, <3>2 DEF Recorded, Processing
  <2>7. ~failed /\ failed' = failed
    BY <1>8 DEF Recorded, Numbered
  <2>8. Cuts(new)'
    <3>1. n + 1 \in Nat /\ (events' = events \/ \E b : Observed(n + 1, b))
      BY <1>4, <2>6
    <3>. QED
      BY <1>1, <1>2, <2>1, <2>4, <3>1, CutsGrow
  <2>9. (\A i \in 0 .. n : new[i] = cut[i]) /\ new[n + 1] = m
    BY <1>2, <1>3, <1>4, <2>1
  <2>10. \A k \in 1 .. m : events'[k] = events[k]
    BY <1>3, <2>6 DEF Observed
  <2>11. LastBook(n)' = LastBook(n) /\ LastBook(n + 1)' = processed
    BY <1>2, <1>4, <2>4 DEF LastBook
  <2>12. Since(LastBook(n), new[n], m, events') = book
    <3>1. new[n] = cut[n] /\ new[n] \in Nat /\ new[n] <= m
      BY <1>4, <2>9
    <3>2. Since(LastBook(n), new[n], m, events') = Since(LastBook(n), new[n], m, events)
      BY <1>4, <2>10, <3>1, SinceSame
    <3>. QED
      BY <1>1, <1>2, <1>3, <2>7, <3>1, <3>2
  <2>13. after'[n + 1] =
             Processed(AtRecord(Since(LastBook(n)', new[n], new[n + 1], events'), Resets(n + 1)'),
                       records'[n + 1].kind, n)
    <3>1. Since(LastBook(n)', new[n], new[n + 1], events') = book
      BY <2>9, <2>11, <2>12
    <3>2. Resets(n + 1)' <=> first_record /\ seen_record
      BY <1>2, <1>8, ResetsAtRecord
    <3>3. AtRecord(book, Resets(n + 1)') = AtRecord(book, first_record /\ seen_record)
      BY <3>2 DEF AtRecord
    <3>. QED
      BY <1>2, <2>2, <2>4, <2>5, <3>1, <3>3 DEF Processing
  <2>14. Replays(new)'
    <3>1. \A i \in 1 .. n :
              after'[i] = Processed(AtRecord(Since(LastBook(i - 1)', new[i - 1], new[i], events'), Resets(i)'),
                                    records'[i].kind, i - 1)
      BY <1>1, <1>2, <1>3, <1>4, <2>4, <2>9, <2>10, ReplaysKept
    <3>2. ASSUME NEW i \in 1 .. n + 1
          PROVE  after'[i] = Processed(AtRecord(Since(LastBook(i - 1)', new[i - 1], new[i], events'), Resets(i)'),
                                       records'[i].kind, i - 1)
      <4>1. CASE i \in 1 .. n
        BY <3>1, <4>1
      <4>2. CASE i = n + 1
        <5>1. i - 1 = n
          BY <1>4, <4>2
        <5>. QED
          BY <2>13, <4>2, <5>1
      <4>. QED
        BY <1>4, <4>1, <4>2
    <3>. QED
      BY <2>4, <3>2 DEF Replays
  <2>15. book' = Since(LastBook(n + 1)', new[n + 1], Len(events'), events')
    <3>1. CASE book' = processed /\ events' = events
      BY <1>3, <2>4, <2>9, <2>11, <3>1, SinceCases
    <3>2. CASE book' = RecoveredBook(processed, stale) /\ Observed(n + 1, RecoveredBook(processed, stale))
      <4>1. Len(events') = m + 1 /\ new[n + 1] # m + 1
        BY <1>3, <1>4, <2>9, <3>2 DEF Observed
      <4>2. RecoveredBook(processed, stale) = Since(processed, new[n + 1], m + 1, events')
        BY <1>3, <2>4, <3>2, <4>1, RecoveredSince
      <4>. QED
        BY <2>11, <3>2, <4>1, <4>2
    <3>. QED
      BY <2>6, <3>1, <3>2
  <2>. QED
    BY <2>4, <2>8, <2>14, <2>15 DEF Logged
<1>. QED
  BY <1>6, <1>7, <1>8

\* A record makes of like books like books.
LEMMA ProcessedAlike ==
    ASSUME NEW b \in Books, NEW d \in Books, Alike(b, d), NEW kind \in Kinds, NEW index \in Nat
    PROVE  Alike(Processed(b, kind, index), Processed(d, kind, index))
<1>1. CASE kind = "harmless"
  BY <1>1, ProcessedCases
<1>2. CASE kind = "snapshot"
  BY <1>2, ProcessedCases DEF Alike
<1>3. CASE kind = "update"
  <2>1. CASE b.state = "Valid"
    <3>1. /\ Processed(b, kind, index) = [state |-> "Valid", levels |-> Append(b.levels, index)]
          /\ Processed(d, kind, index) = [state |-> "Valid", levels |-> Append(d.levels, index)]
      BY <1>3, <2>1, ProcessedCases DEF Alike
    <3>. QED
      BY <3>1 DEF Alike
  <2>2. CASE b.state # "Valid"
    BY <1>3, <2>2, ProcessedCases DEF Alike
  <2>. QED
    BY <2>1, <2>2
<1>4. CASE kind \in {"bad", "bad_update"}
  BY <1>4, ProcessedCases DEF Alike
<1>. QED
  BY <1>1, <1>2, <1>3, <1>4 DEF Kinds

\* A replay without the events still agrees on the levels and on Valid.
LEMMA ApproximatedStep ==
    ASSUME LogTypes, FlagTypes, Numbered, Followed, Logged, Approximated,
           Quiet \/ Invalidated \/ GivenUp \/ Opened \/ \E kind \in Kinds : Recorded(kind)
    PROVE  Approximated'
<1>1. PICK books : Eventless(books)
  BY DEF Approximated
<1>2. PICK n : n = Len(records)
  OBVIOUS
<1>3. n \in Nat /\ Len(after) = n /\ book \in Books
  BY <1>2 DEF Numbered, LogTypes
<1>4. CASE Quiet \/ Invalidated \/ Opened \/ GivenUp
  <2>1. UNCHANGED <<records, after>>
    BY <1>4 DEF Quiet, Invalidated, Opened, GivenUp, logVars
  <2>2. Eventless(books)'
    BY <1>1, <2>1 DEF Eventless, LastConnection, Resets
  <2>. QED
    BY <2>2 DEF Approximated
<1>5. ASSUME NEW kind \in Kinds, Recorded(kind) PROVE Approximated'
  <2>1. PICK reset \in BOOLEAN : reset <=> first_record /\ seen_record
    OBVIOUS
  <2>2. Resets(n + 1)' <=> reset
    BY <1>2, <1>5, <2>1, ResetsAtRecord
  <2>3. PICK new : new = [i \in 0 .. n + 1 |->
                              IF i <= n THEN books[i] ELSE Processed(AtRecord(books[n], reset), kind, n)]
    OBVIOUS
  <2>4. /\ Len(records') = n + 1
        /\ \A i \in 1 .. n : records'[i] = records[i] /\ after'[i] = after[i]
        /\ after'[n + 1] = Processed(AtRecord(book, reset), kind, n)
    <3>1. AtRecord(book, reset) = AtRecord(book, first_record /\ seen_record)
      BY <2>1 DEF AtRecord
    <3>. QED
      BY <1>2, <1>5, <3>1, RecordedEffect DEF Numbered, Processing
  <2>5. records'[n + 1].kind = kind
    <3>1. records'[n + 1] = [connection |-> connection, kind |-> kind]
      BY <1>2, <1>5, RecordedEffect DEF Numbered
    <3>. QED
      BY <3>1
  <2>6. /\ \A i \in 0 .. n : books[i] \in Books
        /\ books[0] = EmptyBook
        /\ \A i \in 1 .. n : Alike(books[i], after[i])
    BY <1>1, <1>2 DEF Eventless
  <2>7. Alike(AtRecord(books[n], reset), AtRecord(book, reset))
    <3>1. n \in 0 .. n /\ books[n] \in Books /\ (n > 0 => n \in 1 .. n)
      BY <1>3, <2>6
    <3>2. book.levels = LastBook(n).levels
      <4>1. ~failed
        BY <1>5 DEF Recorded, Numbered
      <4>2. LastBook(n) \in Books
        BY <1>2, <1>3, LastBookTyped
      <4>. QED
        BY <1>2, <4>1, <4>2, SinceCases DEF Logged
    <3>3. books[n].levels = LastBook(n).levels
      BY <1>3, <2>6, <3>1 DEF LastBook, Alike
    <3>4. CASE reset
      <4>1. AtRecord(books[n], reset).levels = books[n].levels /\ AtRecord(book, reset).levels = book.levels
        BY <1>3, <3>1 DEF AtRecord, Books
      <4>2. AtRecord(books[n], reset).state = "Initializing" /\ AtRecord(book, reset).state = "Initializing"
        BY <1>3, <3>1, <3>4 DEF AtRecord, Books
      <4>. QED
        BY <3>2, <3>3, <4>1, <4>2 DEF Alike
    <3>5. ASSUME ~reset, n = 0 PROVE Alike(books[n], book)
      <4>1. first_record
        BY <1>2, <3>5 DEF Numbered
      <4>2. book.state # "Valid"
        BY <4>1 DEF Followed
      <4>3. books[n].state # "Valid"
        BY <2>6, <3>5 DEF EmptyBook
      <4>. QED
        BY <3>2, <3>3, <4>2, <4>3 DEF Alike
    <3>6. ASSUME ~reset, n > 0 PROVE Alike(books[n], book)
      <4>1. ~first_record
        BY <1>2, <2>1, <3>6 DEF Numbered
      <4>2. book = after[n]
        BY <1>2, <1>5, <4>1 DEF Followed, Recorded
      <4>. QED
        BY <2>6, <3>1, <3>6, <4>2
    <3>. QED
      BY <1>3, <3>4, <3>5, <3>6 DEF AtRecord
  <2>8. /\ \A i \in 0 .. n : new[i] = books[i]
        /\ new[n + 1] = Processed(AtRecord(books[n], reset), kind, n)
    BY <1>3, <2>3
  <2>9. AtRecord(books[n], reset) \in Books /\ AtRecord(book, reset) \in Books
    <3>1. books[n] \in Books
      BY <1>3, <2>6
    <3>. QED
      BY <1>3, <3>1, BooksTyped
  <2>10. new[n + 1] \in Books /\ Alike(new[n + 1], after'[n + 1])
    <3>1. new[n + 1] \in Books
      BY <1>3, <2>8, <2>9, BooksTyped
    <3>2. Alike(new[n + 1], after'[n + 1])
      BY <1>3, <2>4, <2>7, <2>8, <2>9, ProcessedAlike
    <3>. QED
      BY <3>1, <3>2
  <2>11. new \in [0 .. n + 1 -> Books] /\ new[0] = EmptyBook
    <3>1. ASSUME NEW i \in 0 .. n + 1 PROVE new[i] \in Books
      <4>1. CASE i \in 0 .. n
        BY <2>6, <2>8, <4>1
      <4>2. CASE i = n + 1
        BY <2>10, <4>2
      <4>. QED
        BY <1>3, <4>1, <4>2
    <3>2. new \in [0 .. n + 1 -> Books]
      BY <2>3, <3>1
    <3>3. 0 \in 0 .. n
      BY <1>3
    <3>. QED
      BY <2>6, <2>8, <3>2, <3>3
  <2>12. ASSUME NEW i \in 1 .. n + 1
         PROVE  /\ new[i] = Processed(AtRecord(new[i - 1], Resets(i)'), records'[i].kind, i - 1)
                /\ Alike(new[i], after'[i])
    <3>1. CASE i \in 1 .. n
      <4>1. i \in 0 .. n /\ i - 1 \in 0 .. n /\ (i - 1 = 0 \/ i - 1 \in 1 .. n)
        BY <1>3, <3>1
      <4>2. Resets(i)' <=> Resets(i)
        BY <2>4, <3>1, <4>1 DEF Resets, LastConnection
      <4>3. /\ books[i] = Processed(AtRecord(books[i - 1], Resets(i)), records[i].kind, i - 1)
            /\ Alike(books[i], after[i])
        BY <1>1, <1>2, <3>1 DEF Eventless
      <4>4. AtRecord(books[i - 1], Resets(i)') = AtRecord(books[i - 1], Resets(i))
        BY <4>2 DEF AtRecord
      <4>. QED
        BY <2>4, <2>8, <3>1, <4>1, <4>3, <4>4
    <3>2. CASE i = n + 1
      <4>1. i - 1 = n /\ n \in 0 .. n
        BY <1>3, <3>2
      <4>2. new[i - 1] = books[n]
        BY <2>8, <4>1
      <4>3. AtRecord(books[n], Resets(n + 1)') = AtRecord(books[n], reset)
        BY <2>2 DEF AtRecord
      <4>. QED
        BY <2>5, <2>8, <2>10, <3>2, <4>1, <4>2, <4>3
    <3>. QED
      BY <1>3, <3>1, <3>2
  <2>13. Eventless(new)'
    BY <2>4, <2>11, <2>12 DEF Eventless
  <2>. QED
    BY <2>13 DEF Approximated
<1>. QED
  BY <1>4, <1>5

-----------------------------------------------------------------------------
(***************************************************************************)
(* What sessions::replay computes.                                         *)
(***************************************************************************)
\* A replay that has not thrown.
Replaying(b, number, count) == [book |-> b, connection |-> number, consumed |-> count, thrown |-> FALSE]

\* apply_lifecycle() consumes the events of its index and no others.
LEMMA LifecycleApplied ==
    ASSUME NEW b \in Books, NEW number, NEW from \in Nat, NEW to \in Nat, NEW evts, NEW index,
           Len(evts) \in Nat, from <= to, to <= Len(evts),
           \A k \in from + 1 .. to : evts[k].index = index,
           to = Len(evts) \/ evts[to + 1].index # index
    PROVE  ApplyLifecycle(Replaying(b, number, from), evts, index) =
               Replaying(Since(b, from, to, evts), number, to)
<1>1. PICK r : r = Replaying(b, number, from)
  OBVIOUS
<1>2. r.consumed = from /\ r.book = b
  BY <1>1 DEF Replaying
<1>. DEFINE ends == {n \in r.consumed .. Len(evts) : \A i \in r.consumed + 1 .. n : evts[i].index = index}
            last == CHOOSE n \in ends : \A k \in ends : k <= n
<1>3. to \in ends
  BY <1>2
<1>4. ASSUME NEW k \in ends PROVE k <= to
  <2>1. k \in from .. Len(evts) /\ \A i \in from + 1 .. k : evts[i].index = index
    BY <1>2
  <2>2. CASE to = Len(evts)
    BY <2>1, <2>2
  <2>3. CASE evts[to + 1].index # index
    <3>1. k <= to \/ to + 1 \in from + 1 .. k
      BY <2>1
    <3>. QED
      BY <2>1, <2>3, <3>1
  <2>. QED
    BY <2>2, <2>3
<1>5. last = to
  <2>1. last \in ends /\ \A k \in ends : k <= last
    BY <1>3, <1>4
  <2>2. ends \subseteq Nat
    BY <1>2
  <2>. HIDE DEF last, ends
  <2>. QED
    BY <1>3, <1>4, <2>1, <2>2
<1>6. ApplyLifecycle(r, evts, index) =
          [r EXCEPT !.book = Since(r.book, r.consumed, last, evts), !.consumed = last]
  BY Zenon DEF ApplyLifecycle, Since
<1>. HIDE DEF last
<1>7. ApplyLifecycle(r, evts, index) = [r EXCEPT !.book = Since(b, from, to, evts), !.consumed = to]
  BY <1>2, <1>5, <1>6, Zenon
<1>8. [r EXCEPT !.book = Since(b, from, to, evts), !.consumed = to] =
          Replaying(Since(b, from, to, evts), number, to)
  <2>1. PICK no : no = FALSE
    OBVIOUS
  <2>2. PICK d : d = Since(b, from, to, evts)
    OBVIOUS
  <2>3. PICK s : s = [r EXCEPT !.book = d]
    OBVIOUS
  <2>4. r = [book |-> b, connection |-> number, consumed |-> from, thrown |-> no]
    BY <1>1, <2>1, Zenon DEF Replaying
  <2>5. s = [book |-> d, connection |-> number, consumed |-> from, thrown |-> no]
    BY <2>3, <2>4
  <2>6. [s EXCEPT !.consumed = to] = [book |-> d, connection |-> number, consumed |-> to, thrown |-> no]
    BY <2>5
  <2>. QED
    BY <2>1, <2>2, <2>3, <2>6, Zenon DEF Replaying
<1>. QED
  BY <1>1, <1>7, <1>8

\* A record whose connection does not regress is processed, after a reset when the
\* connection is new.
LEMMA RecordReplayed ==
    ASSUME NEW b, NEW number \in Nat, NEW count, NEW record \in Records, NEW index,
           number <= record.connection, NEW reset \in BOOLEAN,
           reset <=> number \notin {NoConnection, record.connection}
    PROVE  ReplayRecord(Replaying(b, number, count), record, index) =
               Replaying(Processed(AtRecord(b, reset), record.kind, index), record.connection, count)
<1>1. PICK r : r = Replaying(b, number, count)
  OBVIOUS
<1>2. PICK d : d = Processed(AtRecord(b, reset), record.kind, index)
  OBVIOUS
<1>3. r.book = b /\ r.connection = number
  BY <1>1 DEF Replaying
<1>4. record.connection \in Nat /\ ~(record.connection < number)
  BY DEF Records
<1>5. AtRecord(r.book, r.connection \notin {NoConnection, record.connection}) = AtRecord(b, reset)
  BY <1>3 DEF AtRecord
<1>6. ReplayRecord(r, record, index) = [r EXCEPT !.book = d, !.connection = record.connection]
  BY <1>2, <1>3, <1>4, <1>5 DEF ReplayRecord
<1>7. [r EXCEPT !.book = d, !.connection = record.connection] = Replaying(d, record.connection, count)
  <2>1. PICK no : no = FALSE
    OBVIOUS
  <2>2. PICK next : next = record.connection
    OBVIOUS
  <2>3. PICK s : s = [r EXCEPT !.book = d]
    OBVIOUS
  <2>4. r = [book |-> b, connection |-> number, consumed |-> count, thrown |-> no]
    BY <1>1, <2>1, Zenon DEF Replaying
  <2>5. s = [book |-> d, connection |-> number, consumed |-> count, thrown |-> no]
    BY <2>3, <2>4
  <2>6. [s EXCEPT !.connection = next] = [book |-> d, connection |-> next, consumed |-> count, thrown |-> no]
    BY <2>5
  <2>. QED
    BY <2>1, <2>2, <2>3, <2>6, Zenon DEF Replaying
<1>. QED
  BY <1>1, <1>2, <1>6, <1>7

\* The replay's recursion has one solution.
LEMMA ReplayedIs ==
    ASSUME NEW evts, NEW count \in Nat, NEW solution,
           solution[0] = ReplayInit, \A i \in 0 .. count : ~solution[i].thrown,
           \A i \in 1 .. count :
               solution[i] = ReplayRecord(ApplyLifecycle(solution[i - 1], evts, i - 1), records[i], i - 1)
    PROVE  Replayed(evts, count)[count] = solution[count]
<1>. DEFINE Next1(g, i) ==
                IF i = 0 THEN ReplayInit
                ELSE IF g[i - 1].thrown THEN g[i - 1]
                ELSE ReplayRecord(ApplyLifecycle(g[i - 1], evts, i - 1), records[i], i - 1)
            Steps(g) == g = [i \in 0 .. count |-> Next1(g, i)]
            h == [i \in 0 .. count |-> solution[i]]
<1>1. Steps(h)
  <2>1. ASSUME NEW i \in 0 .. count PROVE h[i] = Next1(h, i)
    <3>1. CASE i = 0
      BY <3>1
    <3>2. CASE i \in 1 .. count
      <4>1. i - 1 \in 0 .. count /\ i # 0
        BY <3>2
      <4>2. h[i] = solution[i] /\ h[i - 1] = solution[i - 1] /\ ~solution[i - 1].thrown
        BY <4>1
      <4>. HIDE DEF h
      <4>. QED
        BY <3>2, <4>1, <4>2
    <3>. QED
      BY <3>1, <3>2
  <2>. HIDE DEF Next1
  <2>. QED
    BY <2>1
<1>2. Steps(Replayed(evts, count))
  <2>. DEFINE step[i \in 0 .. count] ==
                  IF i = 0 THEN ReplayInit
                  ELSE IF step[i - 1].thrown THEN step[i - 1]
                  ELSE ReplayRecord(ApplyLifecycle(step[i - 1], evts, i - 1), records[i], i - 1)
  <2>1. \E g : Steps(g)
    <3>. HIDE DEF Steps, h
    <3>. QED
      BY <1>1
  <2>2. Steps(step)
    BY <2>1 DEF step
  <2>3. Replayed(evts, count) = step
    BY DEF Replayed, step
  <2>. HIDE DEF Steps, step
  <2>. QED
    BY <2>2, <2>3
<1>3. PICK g : g = Replayed(evts, count)
  OBVIOUS
<1>4. \A i \in 0 .. count : g[i] = Next1(g, i)
  <2>. HIDE DEF Next1
  <2>. QED
    BY <1>2, <1>3
<1>. DEFINE S == {i \in Nat : i <= count => g[i] = solution[i]}
<1>5. 0 \in S
  BY <1>4
<1>6. ASSUME NEW i \in Nat, i \in S PROVE i + 1 \in S
  <2>. SUFFICES ASSUME i + 1 <= count PROVE g[i + 1] = solution[i + 1]
    OBVIOUS
  <2>1. i \in 0 .. count /\ i + 1 \in 1 .. count /\ i + 1 \in 0 .. count /\ (i + 1) - 1 = i /\ i + 1 # 0
    OBVIOUS
  <2>2. g[i] = solution[i] /\ ~g[i].thrown
    BY <1>6, <2>1
  <2>3. g[i + 1] = ReplayRecord(ApplyLifecycle(g[i], evts, i), records[i + 1], i)
    BY <1>4, <2>1, <2>2
  <2>. QED
    BY <2>1, <2>2, <2>3
<1>7. \A i \in Nat : i \in S
  <2>. HIDE DEF S
  <2>. QED
    BY <1>5, <1>6, SetInduction
<1>. QED
  BY <1>3, <1>7

\* The connections of the log never regress.
LEMMA ConnectionsOrdered ==
    ASSUME LogTypes, Numbered, NEW i \in 1 .. Len(records)
    PROVE  /\ records[i] \in Records /\ LastConnection(i - 1) \in Nat
           /\ LastConnection(i - 1) <= records[i].connection
           /\ LastConnection(i) = records[i].connection
<1>1. Len(records) \in Nat /\ \A j \in 1 .. Len(records) : records[j] \in Records
  BY DEF LogTypes
<1>2. \A j \in 1 .. Len(records) : records[j].connection \in Nat
  BY <1>1 DEF Records
<1>3. CASE i = 1
  BY <1>1, <1>2, <1>3 DEF LastConnection, NoConnection
<1>4. CASE i \in 2 .. Len(records)
  <2>1. i - 1 \in 1 .. Len(records) /\ i - 1 # 0
    BY <1>1, <1>4
  <2>2. records[i - 1].connection <= records[i].connection
    BY <1>4 DEF Numbered
  <2>. QED
    BY <1>1, <1>2, <1>4, <2>1, <2>2 DEF LastConnection
<1>. QED
  BY <1>1, <1>3, <1>4

\* The events of index i, for any record or the end of the log, end at its cut.
LEMMA EventsOfIndex ==
    ASSUME LogTypes, NEW cut, Cuts(cut), NEW i \in 0 .. Len(records), NEW to,
           to = IF i = Len(records) THEN Len(events) ELSE cut[i + 1]
    PROVE  /\ cut[i] \in Nat /\ to \in Nat /\ cut[i] <= to /\ to <= Len(events) /\ Len(events) \in Nat
           /\ \A k \in cut[i] + 1 .. to : events[k].index = i
           /\ to = Len(events) \/ events[to + 1].index # i
<1>1. /\ Len(records) \in Nat /\ Len(events) \in Nat
      /\ \A k \in 1 .. Len(events) : events[k].index \in Nat
      /\ \A j \in 0 .. Len(records) : cut[j] \in 0 .. Len(events)
  BY CutsOrdered
<1>2. \A k \in 1 .. Len(events) : /\ events[k].index <= Len(records)
                                  /\ \A j \in 0 .. Len(records) : events[k].index < j <=> k <= cut[j]
  BY DEF Cuts
<1>3. CASE i = Len(records)
  <2>1. ASSUME NEW k \in cut[i] + 1 .. Len(events) PROVE events[k].index = i
    <3>1. k \in 1 .. Len(events) /\ ~(k <= cut[i])
      BY <1>1
    <3>. QED
      BY <1>1, <1>2, <1>3, <3>1
  <2>. QED
    BY <1>1, <1>3, <2>1
<1>4. CASE i # Len(records)
  <2>1. i + 1 \in 0 .. Len(records) /\ i + 1 \in 1 .. Len(records) /\ (i + 1) - 1 = i /\ to = cut[i + 1]
    BY <1>1, <1>4
  <2>2. cut[i] <= cut[i + 1]
    BY <2>1, CutsOrdered
  <2>3. ASSUME NEW k \in cut[i] + 1 .. to PROVE events[k].index = i
    <3>1. k \in 1 .. Len(events) /\ ~(k <= cut[i]) /\ k <= cut[i + 1]
      BY <1>1, <2>1
    <3>. QED
      BY <1>1, <1>2, <2>1, <3>1
  <2>4. ASSUME to # Len(events) PROVE events[to + 1].index # i
    <3>1. to + 1 \in 1 .. Len(events) /\ ~(to + 1 <= cut[i + 1])
      BY <1>1, <2>1, <2>4
    <3>. QED
      BY <1>1, <1>2, <2>1, <3>1
  <2>. QED
    BY <1>1, <2>1, <2>2, <2>3, <2>4
<1>. QED
  BY <1>3, <1>4

\* The log's events pass the checks of replay, whatever prefix of the records is left.
LEMMA EventsAreValid ==
    ASSUME LogTypes, NEW cut, Cuts(cut), NEW status, NEW n,
           status = "complete" => n = Len(records)
    PROVE  ValidEvents(status, events, n)
<1>1. Len(records) \in Nat /\ Len(events) \in Nat /\ \A k \in 1 .. Len(events) : events[k].index \in Nat
  BY CutsOrdered
<1>2. \A k \in 1 .. Len(events) : /\ events[k].index <= Len(records)
                                  /\ \A j \in 0 .. Len(records) : events[k].index < j <=> k <= cut[j]
  BY DEF Cuts
<1>3. \A j \in 0 .. Len(records) : cut[j] \in 0 .. Len(events)
  BY CutsOrdered
<1>4. ASSUME NEW i \in 1 .. Len(events) - 1 PROVE events[i].index <= events[i + 1].index
  <2>1. i \in 1 .. Len(events) /\ i + 1 \in 1 .. Len(events)
    BY <1>1
  <2>2. PICK j : j = events[i].index
    OBVIOUS
  <2>3. j \in 0 .. Len(records) /\ ~(j < j) /\ cut[j] \in 0 .. Len(events)
    BY <1>1, <1>2, <1>3, <2>1, <2>2
  <2>4. ~(i <= cut[j])
    BY <1>2, <2>1, <2>2, <2>3
  <2>5. ~(i + 1 <= cut[j])
    BY <2>1, <2>3, <2>4
  <2>6. ~(events[i + 1].index < j)
    BY <1>2, <2>1, <2>3, <2>5
  <2>. QED
    BY <1>1, <2>1, <2>2, <2>3, <2>6
<1>5. ASSUME NEW i \in 1 .. Len(events) PROVE events[i].state \in {"Stale", "Disconnected"}
  <2>1. events[i] \in Events
    BY DEF LogTypes
  <2>. QED
    BY <2>1 DEF Events
<1>. QED
  BY <1>2, <1>4, <1>5 DEF ValidEvents

\* apply_lifecycle() on the log.
LEMMA EventsApplied ==
    ASSUME LogTypes, NEW cut, Cuts(cut), NEW i \in 0 .. Len(records), NEW to,
           to = IF i = Len(records) THEN Len(events) ELSE cut[i + 1],
           NEW b \in Books, NEW number
    PROVE  ApplyLifecycle(Replaying(b, number, cut[i]), events, i) =
               Replaying(Since(b, cut[i], to, events), number, to)
<1>1. PICK from : from = cut[i]
  OBVIOUS
<1>2. /\ from \in Nat /\ to \in Nat /\ from <= to /\ to <= Len(events) /\ Len(events) \in Nat
      /\ \A k \in from + 1 .. to : events[k].index = i
      /\ to = Len(events) \/ events[to + 1].index # i
  BY <1>1, EventsOfIndex
<1>3. ApplyLifecycle(Replaying(b, number, from), events, i) = Replaying(Since(b, from, to, events), number, to)
  BY <1>2, LifecycleApplied
<1>. QED
  BY <1>1, <1>3

\* apply_lifecycle() before record i.
LEMMA EventsBefore ==
    ASSUME LogTypes, Len(after) = Len(records), NEW cut, Cuts(cut), NEW i \in 1 .. Len(records)
    PROVE  ApplyLifecycle(Replaying(LastBook(i - 1), LastConnection(i - 1), cut[i - 1]), events, i - 1) =
               Replaying(Since(LastBook(i - 1), cut[i - 1], cut[i], events), LastConnection(i - 1), cut[i])
<1>1. PICK j : j = i - 1
  OBVIOUS
<1>2. PICK from : from = cut[j]
  OBVIOUS
<1>3. PICK to : to = cut[i]
  OBVIOUS
<1>4. PICK b \in Books : b = LastBook(j)
  BY <1>1, LastBookTyped DEF LogTypes
<1>5. PICK number : number = LastConnection(j)
  OBVIOUS
<1>6. /\ Len(events) \in Nat /\ from \in Nat /\ to \in Nat /\ from <= to /\ to <= Len(events)
      /\ i \in Nat /\ j \in Nat /\ i = j + 1 /\ i \in 0 .. Len(records) /\ j \in 0 .. Len(records)
  <2>1. Len(records) \in Nat /\ Len(events) \in Nat
    BY CutsOrdered
  <2>2. i \in Nat /\ j \in Nat /\ i = j + 1 /\ i \in 0 .. Len(records) /\ j \in 0 .. Len(records)
    BY <1>1, <2>1
  <2>3. cut[i] \in 0 .. Len(events) /\ cut[i - 1] \in 0 .. Len(events) /\ cut[i - 1] <= cut[i]
    BY CutsOrdered
  <2>4. from \in 0 .. Len(events) /\ to \in 0 .. Len(events) /\ from <= to
    BY <1>1, <1>2, <1>3, <2>3
  <2>. QED
    BY <2>1, <2>2, <2>4
<1>7. \A k \in 1 .. Len(events) :
          events[k].index \in Nat /\ (events[k].index < j <=> k <= from) /\ (events[k].index < i <=> k <= to)
  BY <1>2, <1>3, <1>6, CutsOrdered DEF Cuts
<1>8. ASSUME NEW k \in from + 1 .. to PROVE events[k].index = j
  BY <1>6, <1>7
<1>9. to = Len(events) \/ events[to + 1].index # j
  <2>1. to # Len(events) => to + 1 \in 1 .. Len(events) /\ ~(to + 1 <= to)
    BY <1>6
  <2>. QED
    BY <1>6, <1>7, <2>1
<1>10. ApplyLifecycle(Replaying(b, number, from), events, j) = Replaying(Since(b, from, to, events), number, to)
  <2>1. Len(events) \in Nat /\ from \in Nat /\ to \in Nat /\ from <= to /\ to <= Len(events)
    BY <1>6
  <2>2. \A k \in from + 1 .. to : events[k].index = j
    BY <1>8
  <2>. QED
    BY <1>9, <2>1, <2>2, LifecycleApplied
<1>. QED
  BY <1>1, <1>2, <1>3, <1>4, <1>5, <1>10

\* The replay of a prefix of the log, with the events, has the book the feed had.
LEMMA PrefixReplayed ==
    ASSUME LogTypes, Numbered, NEW cut, Cuts(cut), Replays(cut), NEW count \in 0 .. Len(records)
    PROVE  Replayed(events, count)[count] = Replaying(LastBook(count), LastConnection(count), cut[count])
<1>. DEFINE Solution(i) == Replaying(LastBook(i), LastConnection(i), cut[i])
            solution == [i \in 0 .. count |-> Solution(i)]
<1>1. Len(records) \in Nat /\ Len(events) \in Nat /\ cut[0] = 0
  BY CutsOrdered
<1>2. Solution(0) = ReplayInit
  BY <1>1 DEF Replaying, ReplayInit, LastBook, LastConnection
<1>3. ASSUME NEW i PROVE ~Solution(i).thrown
  BY DEF Replaying
<1>4. ASSUME NEW i \in 1 .. count
      PROVE  Solution(i) = ReplayRecord(ApplyLifecycle(Solution(i - 1), events, i - 1), records[i], i - 1)
  <2>1. /\ i \in 1 .. Len(records) /\ i - 1 \in 0 .. Len(records) /\ i - 1 # Len(records)
        /\ (i - 1) + 1 = i /\ i - 1 \in Nat
    BY <1>1
  <2>2. LastBook(i - 1) \in Books
    BY <2>1, LastBookTyped DEF Numbered
  <2>3. PICK found : found = Since(LastBook(i - 1), cut[i - 1], cut[i], events)
    OBVIOUS
  <2>4. ApplyLifecycle(Solution(i - 1), events, i - 1) = Replaying(found, LastConnection(i - 1), cut[i])
    BY <2>1, <2>3, EventsBefore DEF Numbered
  <2>5. PICK reset \in BOOLEAN : reset <=> Resets(i)
    OBVIOUS
  <2>6. ReplayRecord(Replaying(found, LastConnection(i - 1), cut[i]), records[i], i - 1) =
            Replaying(Processed(AtRecord(found, reset), records[i].kind, i - 1), records[i].connection, cut[i])
    <3>1. reset <=> LastConnection(i - 1) \notin {NoConnection, records[i].connection}
      BY <2>5 DEF Resets
    <3>2. /\ records[i] \in Records /\ LastConnection(i - 1) \in Nat
          /\ LastConnection(i - 1) <= records[i].connection
      BY <2>1, ConnectionsOrdered
    <3>. QED
      BY <3>1, <3>2, RecordReplayed
  <2>7. LastBook(i) = Processed(AtRecord(found, reset), records[i].kind, i - 1)
    <3>1. AtRecord(found, reset) = AtRecord(found, Resets(i))
      BY <2>5 DEF AtRecord
    <3>. QED
      BY <2>1, <2>3, <3>1 DEF Replays, LastBook
  <2>8. LastConnection(i) = records[i].connection
    BY <2>1, ConnectionsOrdered
  <2>. QED
    BY <2>4, <2>6, <2>7, <2>8
<1>. HIDE DEF Solution
<1>5. \A i \in 0 .. count : solution[i] = Solution(i)
  OBVIOUS
<1>6. solution[0] = ReplayInit /\ solution[count] = Solution(count)
  BY <1>1, <1>2, <1>5
<1>7. ASSUME NEW i \in 1 .. count
      PROVE  solution[i] = ReplayRecord(ApplyLifecycle(solution[i - 1], events, i - 1), records[i], i - 1)
  <2>1. i - 1 \in 0 .. count /\ i \in 0 .. count
    BY <1>1
  <2>. QED
    BY <1>4, <1>5, <2>1
<1>8. \A i \in 0 .. count : ~solution[i].thrown
  BY <1>3, <1>5
<1>9. count \in Nat
  BY <1>1
<1>. HIDE DEF solution
<1>10. Replayed(events, count)[count] = solution[count]
  BY <1>6, <1>7, <1>8, <1>9, ReplayedIs
<1>. QED
  BY <1>6, <1>10 DEF Solution

\* The replay of a prefix with its last events.
LEMMA PrefixDone ==
    ASSUME LogTypes, Numbered, NEW cut, Cuts(cut), Replays(cut), NEW count \in 0 .. Len(records), NEW to,
           to = IF count = Len(records) THEN Len(events) ELSE cut[count + 1]
    PROVE  ApplyLifecycle(Replayed(events, count)[count], events, count) =
               Replaying(Since(LastBook(count), cut[count], to, events), LastConnection(count), to)
<1>1. Replayed(events, count)[count] = Replaying(LastBook(count), LastConnection(count), cut[count])
  BY PrefixReplayed
<1>2. PICK b \in Books : b = LastBook(count)
  BY LastBookTyped DEF Numbered
<1>3. PICK number : number = LastConnection(count)
  OBVIOUS
<1>4. ApplyLifecycle(Replaying(b, number, cut[count]), events, count) =
          Replaying(Since(b, cut[count], to, events), number, to)
  BY EventsApplied
<1>. QED
  BY <1>1, <1>2, <1>3, <1>4

\* The replay without events has the books of Eventless.
LEMMA EventlessReplayed ==
    ASSUME LogTypes, Numbered, NEW books, Eventless(books), NEW n, n = Len(records)
    PROVE  ApplyLifecycle(Replayed(<<>>, n)[n], <<>>, n) = Replaying(books[n], LastConnection(n), 0)
<1>. DEFINE Solution(i) == Replaying(books[i], LastConnection(i), 0)
            solution == [i \in 0 .. n |-> Solution(i)]
<1>1. n \in Nat /\ n = Len(records) /\ \A i \in 0 .. n : books[i] \in Books
  <2>1. n \in Nat
    BY DEF LogTypes
  <2>2. books \in [0 .. n -> Books]
    BY DEF Eventless
  <2>. QED
    BY <2>1, <2>2
<1>2. PICK none : none = <<>>
  OBVIOUS
<1>3. Len(none) = 0
  BY <1>2
<1>4. ASSUME NEW i \in 0 .. n PROVE ApplyLifecycle(Solution(i), none, i) = Solution(i)
  <2>1. PICK b \in Books : b = books[i]
    BY <1>1
  <2>2. PICK number : number = LastConnection(i)
    OBVIOUS
  <2>3. PICK z : z = 0
    OBVIOUS
  <2>4. /\ Len(none) \in Nat /\ z \in Nat /\ z <= z /\ z <= Len(none) /\ z = Len(none)
        /\ \A k \in z + 1 .. z : none[k].index = i
    BY <1>3, <2>3
  <2>5. ApplyLifecycle(Replaying(b, number, z), none, i) = Replaying(Since(b, z, z, none), number, z)
    BY <2>4, LifecycleApplied
  <2>6. Since(b, z, z, none) = b
    BY DEF Since
  <2>. QED
    BY <2>1, <2>2, <2>3, <2>5, <2>6
<1>5. Solution(0) = ReplayInit
  BY DEF Eventless, Replaying, ReplayInit, LastConnection
<1>6. ASSUME NEW i PROVE ~Solution(i).thrown
  BY DEF Replaying
<1>7. ASSUME NEW i \in 1 .. n
      PROVE  Solution(i) = ReplayRecord(Solution(i - 1), records[i], i - 1)
  <2>1. PICK reset \in BOOLEAN : reset <=> Resets(i)
    OBVIOUS
  <2>2. reset <=> LastConnection(i - 1) \notin {NoConnection, records[i].connection}
    BY <2>1 DEF Resets
  <2>3. /\ records[i] \in Records /\ LastConnection(i - 1) \in Nat
        /\ LastConnection(i - 1) <= records[i].connection
        /\ LastConnection(i) = records[i].connection
    BY <1>1, ConnectionsOrdered
  <2>4. ReplayRecord(Replaying(books[i - 1], LastConnection(i - 1), 0), records[i], i - 1) =
            Replaying(Processed(AtRecord(books[i - 1], reset), records[i].kind, i - 1), records[i].connection, 0)
    BY <2>2, <2>3, RecordReplayed
  <2>5. books[i] = Processed(AtRecord(books[i - 1], reset), records[i].kind, i - 1)
    <3>1. AtRecord(books[i - 1], reset) = AtRecord(books[i - 1], Resets(i))
      BY <2>1 DEF AtRecord
    <3>. QED
      BY <1>1, <3>1 DEF Eventless
  <2>. QED
    BY <2>3, <2>4, <2>5
<1>. HIDE DEF Solution
<1>8. \A i \in 0 .. n : solution[i] = Solution(i)
  OBVIOUS
<1>9. solution[0] = ReplayInit /\ solution[n] = Solution(n)
  BY <1>1, <1>5, <1>8
<1>10. ASSUME NEW i \in 1 .. n
       PROVE  solution[i] = ReplayRecord(ApplyLifecycle(solution[i - 1], none, i - 1), records[i], i - 1)
  <2>1. i - 1 \in 0 .. n /\ i \in 0 .. n
    BY <1>1
  <2>2. solution[i] = Solution(i) /\ solution[i - 1] = Solution(i - 1)
    BY <1>8, <2>1
  <2>3. ApplyLifecycle(Solution(i - 1), none, i - 1) = Solution(i - 1)
    BY <1>4, <2>1
  <2>. QED
    BY <1>7, <2>2, <2>3
<1>11. \A i \in 0 .. n : ~solution[i].thrown
  BY <1>6, <1>8
<1>. HIDE DEF solution
<1>12. Replayed(none, n)[n] = solution[n]
  BY <1>1, <1>9, <1>10, <1>11, ReplayedIs
<1>13. n \in 0 .. n
  BY <1>1
<1>. QED
  BY <1>2, <1>4, <1>9, <1>12, <1>13 DEF Solution

-----------------------------------------------------------------------------
(***************************************************************************)
(* What the log shows.                                                     *)
(***************************************************************************)
\* Sessions, flags, log and book of run_kraken fit together in every state.
THEOREM FeedInvariant == Spec => []Inv
<1>1. ASSUME Init PROVE Inv
  <2>1. Sessions
    BY <1>1, InitSessions
  <2>2. /\ records = <<>> /\ events = <<>> /\ after = <<>> /\ book = EmptyBook /\ connection = 0
        /\ first_record /\ ~seen_record /\ ~failed
    BY <1>1 DEF Init
  <2>3. EmptyBook \in Books /\ EmptyBook.state # "Valid"
    BY DEF EmptyBook, Books, BookStates
  <2>4. Len(records) = 0 /\ Len(events) = 0 /\ Len(after) = 0
    BY <2>2
  <2>5. LogTypes
    BY <2>2, <2>3 DEF LogTypes
  <2>6. Numbered
    BY <2>2, <2>4 DEF Numbered
  <2>7. Followed /\ Current
    BY <2>2, <2>3 DEF Followed, Current
  <2>8. Logged
    <3>1. PICK cut : cut = [i \in 0 .. 0 |-> 0]
      OBVIOUS
    <3>2. cut[0] = 0 /\ cut \in [0 .. 0 -> 0 .. 0]
      BY <3>1
    <3>3. Cuts(cut) /\ Replays(cut)
      BY <2>4, <3>2 DEF Cuts, Replays
    <3>4. book = Since(LastBook(Len(records)), cut[Len(records)], Len(events), events)
      BY <2>2, <2>4, <3>2 DEF Since, LastBook
    <3>. QED
      BY <3>3, <3>4 DEF Logged
  <2>9. Approximated
    <3>1. PICK books : books = [i \in 0 .. 0 |-> EmptyBook]
      OBVIOUS
    <3>2. books \in [0 .. 0 -> Books] /\ books[0] = EmptyBook
      BY <2>3, <3>1
    <3>3. Eventless(books)
      BY <2>4, <3>2 DEF Eventless
    <3>. QED
      BY <3>3 DEF Approximated
  <2>. QED
    BY <2>1, <2>5, <2>6, <2>7, <2>8, <2>9 DEF Inv
<1>2. ASSUME Inv, [Next]_vars PROVE Inv'
  <2>1. Sessions /\ FlagTypes /\ LogTypes /\ Numbered /\ Followed /\ Logged /\ Approximated /\ Current
    BY <1>2 DEF Inv, Sessions
  <2>2. Quiet \/ Invalidated \/ GivenUp \/ Opened \/ \E kind \in Kinds : Recorded(kind)
    BY <1>2, <2>1, LogStep
  <2>3. Sessions'
    BY <1>2, <2>1, SessionsStep
  <2>4. LogTypes' /\ Numbered' /\ Followed'
    BY <2>1, <2>2, LogTyped, NumberedStep, FollowedStep
  <2>5. Logged' /\ Approximated'
    BY <2>1, <2>2, LoggedStep, ApproximatedStep
  <2>6. Current'
    BY <2>1, <2>2, <2>4, CurrentStep
  <2>. QED
    BY <2>3, <2>4, <2>5, <2>6 DEF Inv
<1>. QED
  BY <1>1, <1>2, PTL DEF Spec

\* A Valid book is the current connection's snapshot and every update after it,
\* although connect() clears no level map and no callback compares connections.
THEOREM FeedValidIsCurrent == Spec => []ValidIsCurrent
<1>1. Inv => ValidIsCurrent
  BY DEF Inv, Current, ValidIsCurrent
<1>. QED
  BY <1>1, FeedInvariant, PTL

\* sessions::replay computes the live book from the log, keeps the levels and Valid
\* without the events, and keeps the levels of any prefix of a failed capture.
THEOREM FeedReplayAgrees == Spec => []ReplayAgrees
<1>1. ASSUME Inv PROVE LogDeterminesBook
  <2>1. PICK cut : /\ Cuts(cut) /\ Replays(cut)
                   /\ ~failed => book = Since(LastBook(Len(records)), cut[Len(records)], Len(events), events)
    BY <1>1 DEF Inv, Logged
  <2>2. LogTypes /\ Numbered /\ Len(records) \in 0 .. Len(records)
    BY <1>1 DEF Inv, LogTypes
  <2>3. PICK b : b = Since(LastBook(Len(records)), cut[Len(records)], Len(events), events)
    OBVIOUS
  <2>4. ApplyLifecycle(Replayed(events, Len(records))[Len(records)], events, Len(records)) =
            Replaying(b, LastConnection(Len(records)), Len(events))
    BY <2>1, <2>2, <2>3, PrefixDone
  <2>5. Replay("complete", events, Len(records)) = Replaying(b, LastConnection(Len(records)), Len(events))
    <3>1. ValidEvents("complete", events, Len(records))
      BY <2>1, <2>2, EventsAreValid
    <3>. QED
      BY <2>4, <3>1 DEF Replay, Replaying
  <2>. QED
    BY <2>1, <2>3, <2>5 DEF LogDeterminesBook, Replaying
<1>2. ASSUME Inv PROVE PrefixReplayMatches
  <2>1. PICK books : Eventless(books)
    BY <1>2 DEF Inv, Approximated
  <2>2. PICK n : n = Len(records)
    OBVIOUS
  <2>3. LogTypes /\ Numbered /\ n \in Nat
    BY <1>2, <2>2 DEF Inv, LogTypes
  <2>4. ApplyLifecycle(Replayed(<<>>, n)[n], <<>>, n) = Replaying(books[n], LastConnection(n), 0)
    BY <2>1, <2>2, <2>3, EventlessReplayed
  <2>5. Replay("in_progress", <<>>, n) = Replaying(books[n], LastConnection(n), 0)
    <3>1. ValidEvents("in_progress", <<>>, n)
      BY DEF ValidEvents
    <3>. QED
      BY <2>4, <3>1 DEF Replay, Replaying
  <2>6. n > 0 => Alike(books[n], after[n])
    BY <2>1, <2>2, <2>3 DEF Eventless
  <2>. QED
    BY <2>2, <2>5, <2>6 DEF PrefixReplayMatches, Replaying, Alike
<1>3. ASSUME Inv PROVE FailedReplayIsPrefix
  <2>1. PICK cut : Cuts(cut) /\ Replays(cut)
    BY <1>3 DEF Inv, Logged
  <2>2. LogTypes /\ Numbered
    BY <1>3 DEF Inv
  <2>3. ASSUME NEW n \in 0 .. Len(records)
        PROVE  LET r == Replay("failed", events, n)
               IN ~r.thrown /\ r.book.state = "Invalid" /\ (n > 0 => r.book.levels = after[n].levels)
    <3>1. PICK to : to = IF n = Len(records) THEN Len(events) ELSE cut[n + 1]
      OBVIOUS
    <3>2. LastBook(n) \in Books
      BY <2>2, LastBookTyped DEF Numbered
    <3>3. PICK b : b = Since(LastBook(n), cut[n], to, events)
      OBVIOUS
    <3>4. ApplyLifecycle(Replayed(events, n)[n], events, n) = Replaying(b, LastConnection(n), to)
      BY <2>1, <2>2, <3>1, <3>3, PrefixDone
    <3>5. PICK done : done = Replaying(b, LastConnection(n), to)
      OBVIOUS
    <3>6. ~done.thrown /\ done.book = b /\ done = [book |-> b, connection |-> LastConnection(n), consumed |-> to, thrown |-> FALSE]
      BY <3>5 DEF Replaying
    <3>7. Replay("failed", events, n) = [done EXCEPT !.book.state = "Invalid"]
      <4>1. ValidEvents("failed", events, n)
        BY <2>1, <2>2, EventsAreValid
      <4>. QED
        BY <3>4, <3>5, <3>6, <4>1 DEF Replay
    <3>8. b = [state |-> b.state, levels |-> LastBook(n).levels]
      BY <3>2, <3>3 DEF Since, Books
    <3>9. [done EXCEPT !.book.state = "Invalid"].book = [b EXCEPT !.state = "Invalid"]
          /\ ~[done EXCEPT !.book.state = "Invalid"].thrown
      BY <3>6
    <3>10. [b EXCEPT !.state = "Invalid"].state = "Invalid" /\ [b EXCEPT !.state = "Invalid"].levels = LastBook(n).levels
      BY <3>8
    <3>11. n > 0 => LastBook(n) = after[n]
      BY DEF LastBook
    <3>. QED
      BY <3>7, <3>9, <3>10, <3>11
  <2>. QED
    BY <2>3 DEF FailedReplayIsPrefix
<1>4. Inv => ReplayAgrees
  BY <1>1, <1>2, <1>3 DEF ReplayAgrees
<1>. QED
  BY <1>4, FeedInvariant, PTL
=============================================================================

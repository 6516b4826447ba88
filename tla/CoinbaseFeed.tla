---------------------------- MODULE CoinbaseFeed ----------------------------
(***************************************************************************)
(* The Coinbase market-data thread: CoinbaseConnectionManager with the     *)
(* message handler and processor, sequence tracker, feed health and        *)
(* reconnect policy it owns, over the websocket sessions it opens.         *)
(*                                                                         *)
(* Everything runs on one io_context thread, so a handler is one atomic    *)
(* action; what is concurrent is the order in which completions run.       *)
(* Handlers of abandoned sessions and expired timers run arbitrarily late. *)
(*                                                                         *)
(* Abstractions.  A time stamp is the age it would give (now - stamp),     *)
(* counted in ticks and saturated one past its limit: the code only asks   *)
(* whether an age exceeds the limit, and an unset stamp defaults to the    *)
(* connection's.  Metrics and profiling are left out; the lifecycle        *)
(* observer is the matter of CoinbaseSession.                              *)
(***************************************************************************)
EXTENDS CoinbaseProcessor, WebSocketClient

CONSTANTS
    ConnectTimeout,     \* ticks an attempt may take (30 s)
    MaxAnyMessageAge,   \* FeedHealthConfig.max_any_message_age
    MaxHeartbeatAge,    \* FeedHealthConfig.max_heartbeat_age
    MaxInstrumentAge,   \* FeedHealthConfig.max_instrument_message_age or NoLimit
    InitialDelay,       \* ReconnectPolicy: first delay (250 ms)
    MaxDelay,           \* ReconnectPolicy: cap (10 s)
    LateCallbacks,      \* may the transport call back after abort()?
    MaxTicks,           \* bound: clock ticks
    MaxDisturbances     \* bound: failures, bad messages and stops

NoLimit == -1
NoClient == 0

ASSUME FeedAssumption ==
    /\ ConnectTimeout \in Nat /\ MaxAnyMessageAge \in Nat /\ MaxHeartbeatAge \in Nat
    /\ MaxInstrumentAge \in Nat \cup {NoLimit}
    /\ InitialDelay \in Nat /\ MaxDelay \in Nat /\ InitialDelay <= MaxDelay
    /\ LateCallbacks \in BOOLEAN
    /\ MaxSequence \in Nat /\ MaxTicks \in Nat /\ MaxDisturbances \in Nat

VARIABLES
    stopping, terminal, recovery_pending, connected,  \* the manager's flags
    generation, connection_id,                        \* its counters
    age,              \* ages of connected_at_ and of the three health stamps
    backoff,          \* ReconnectPolicy::delay_
    recovering,       \* recovery_since_ is set
    retries,          \* generations of scheduled reconnect callbacks
    sessions,         \* generation -> session with an operation outstanding
    client,           \* generation of the session `client` points to
    admitted,         \* history: sequence numbers admitted since the snapshot
    ticks, disturbances  \* how much of the bounds is used

flags == <<stopping, terminal, recovery_pending, connected>>
counters == <<generation, connection_id>>
policy == <<backoff, recovering>>
managerVars == <<flags, counters, book, sequence, age, policy, client, admitted>>
vars == <<managerVars, retries, sessions, ticks, disturbances>>

-----------------------------------------------------------------------------
(***************************************************************************)
(* FeedHealth, ReconnectPolicy.                                            *)
(***************************************************************************)
Limits == [attempt |-> ConnectTimeout, any |-> MaxAnyMessageAge,
           heartbeat |-> MaxHeartbeatAge, l2 |-> MaxInstrumentAge]

ZeroAges == [attempt |-> 0, any |-> 0, heartbeat |-> 0, l2 |-> 0]

Expired(stamp) == Limits[stamp] # NoLimit /\ age[stamp] > Limits[stamp]

\* Mutant of HealthFailure: the instrument limit is not consulted.
IgnoresInstrument == Expired("any") \/ Expired("heartbeat")

HealthFailure == Expired("any") \/ Expired("heartbeat") \/ Expired("l2")

\* Mutant of NextDelay: no cap.
UncappedDelay(delay) == 2 * delay

\* Mutant of NextDelay: starts over once the cap is reached.
WrappingDelay(delay) == IF 2 * delay < MaxDelay THEN 2 * delay ELSE InitialDelay

NextDelay(delay) == IF 2 * delay < MaxDelay THEN 2 * delay ELSE MaxDelay

StampedAges(m) ==
    [age EXCEPT !.any = 0,
                !.heartbeat = IF Outcome(m) = "Heartbeat" THEN 0 ELSE @,
                !.l2 = IF Outcome(m) \in L2Outcomes THEN 0 ELSE @]

-----------------------------------------------------------------------------
(***************************************************************************)
(* The manager's internal calls.                                           *)
(***************************************************************************)
Without(g) == [h \in DOMAIN sessions \ {g} |-> sessions[h]]
With(g, s) == [h \in DOMAIN sessions \cup {g} |-> IF h = g THEN s ELSE sessions[h]]

\* Mutant of AbortClient: close_ leaves the socket open.
KeepsSocketOpen(all) == all

\* close_(): abort the session the client points to.
AbortClient(all) ==
    [g \in DOMAIN all |-> IF g = client THEN Abort(all[g]) ELSE all[g]]

\* Mutant of ScheduleRetry: the callback captures the generation before it moved on.
RetriesOldGeneration(rest, g) == \E queued \in SUBSET rest : retries' = queued \cup {g - 1}

\* A timer that is cancelled may already have expired: its callback stays queued.
ScheduleRetry(rest, g) == \E queued \in SUBSET rest : retries' = queued \cup {g}
CancelRetry == \E queued \in SUBSET retries : retries' = queued

Transition(state) == book' = [book EXCEPT !.state = state]

\* recover(), past its early return; all is the sessions before close_().
Recover(state, all) ==
    /\ recovery_pending' = TRUE
    /\ generation' = generation + 1
    /\ Transition(state)
    /\ sequence' = NoSequence
    /\ admitted' = {}
    /\ connected' = FALSE
    /\ recovering' = TRUE
    /\ sessions' = AbortClient(all)
    /\ backoff' = NextDelay(backoff)
    /\ ScheduleRetry(retries, generation + 1)
    /\ UNCHANGED <<stopping, terminal, connection_id, client>>

\* stop(), past its early return, followed by the transition to state.
StopThen(state, all) ==
    /\ stopping' = TRUE
    /\ generation' = generation + 1
    /\ recovery_pending' = FALSE
    /\ CancelRetry
    /\ sessions' = AbortClient(all)
    /\ connected' = FALSE
    /\ sequence' = NoSequence
    /\ admitted' = {}
    /\ Transition(state)
    /\ UNCHANGED <<connection_id, policy, client>>

\* begin_connection(), the attempt is under way when connect_ returns.
AttemptOpens(rest) ==
    /\ recovery_pending' = FALSE
    /\ generation' = generation + 1
    /\ Transition("Resyncing")
    /\ age' = [age EXCEPT !.attempt = 0]
    /\ sessions' = With(generation + 1, Connecting)
    /\ retries' = rest
    /\ UNCHANGED <<policy, disturbances>>

\* begin_connection(), SNI or DNS fails inside connect_: recover() is re-entered.
AttemptFails(rest) ==
    /\ disturbances < MaxDisturbances
    /\ disturbances' = disturbances + 1
    /\ recovery_pending' = TRUE
    /\ generation' = generation + 2
    /\ Transition("Disconnected")
    /\ age' = [age EXCEPT !.attempt = 0]
    /\ recovering' = TRUE
    /\ backoff' = NextDelay(backoff)
    /\ ScheduleRetry(rest, generation + 2)
    /\ UNCHANGED sessions

BeginConnection(rest) ==
    /\ AttemptOpens(rest) \/ AttemptFails(rest)
    /\ connected' = FALSE
    /\ sequence' = NoSequence
    /\ admitted' = {}
    /\ client' = generation + 1
    /\ UNCHANGED <<terminal, connection_id, ticks>>

-----------------------------------------------------------------------------
(***************************************************************************)
(* Entry points.                                                           *)
(***************************************************************************)
Init ==
    /\ stopping = TRUE /\ terminal = FALSE /\ recovery_pending = FALSE /\ connected = FALSE
    /\ generation = 0 /\ connection_id = 0
    /\ book = [state |-> "Disconnected", last_sequence |-> NoSequence]
    /\ sequence = NoSequence
    /\ age = ZeroAges
    /\ backoff = InitialDelay /\ recovering = FALSE
    /\ retries = {}
    /\ sessions = [g \in {} |-> Connecting]
    /\ client = NoClient
    /\ admitted = {}
    /\ ticks = 0 /\ disturbances = 0

Disturb == disturbances < MaxDisturbances /\ disturbances' = disturbances + 1

Start ==
    /\ stopping /\ ~terminal
    /\ stopping' = FALSE
    /\ BeginConnection(retries)

Stop ==
    /\ ~stopping
    /\ Disturb
    /\ StopThen("Disconnected", sessions)
    /\ UNCHANGED <<terminal, age, ticks>>

\* terminal_recording_failure() posted by the runtime.
TerminalRecordingFailure ==
    /\ terminal' = TRUE
    /\ \/ ~stopping /\ StopThen("Invalid", sessions)
       \/ /\ stopping
          /\ Transition("Invalid")
          /\ UNCHANGED <<stopping, recovery_pending, connected, counters, sequence, policy,
                         retries, sessions, client, admitted>>
    /\ UNCHANGED <<age, ticks, disturbances>>

ForceDisconnect ==
    /\ ~stopping /\ ~recovery_pending
    /\ Disturb
    /\ Recover("Disconnected", sessions)
    /\ UNCHANGED <<age, ticks>>

\* Mutant of RetryFires: the callback does not compare its generation.
RetryIgnoresGeneration(g) ==
    /\ g \in retries
    /\ \/ /\ ~stopping
          /\ BeginConnection(retries \ {g})
          /\ UNCHANGED stopping
       \/ /\ stopping
          /\ retries' = retries \ {g}
          /\ UNCHANGED <<managerVars, sessions, ticks, disturbances>>

\* The reconnect timer's callback of generation g.
RetryFires(g) ==
    /\ g \in retries
    /\ \/ /\ ~stopping /\ g = generation
          /\ BeginConnection(retries \ {g})
          /\ UNCHANGED stopping
       \/ /\ stopping \/ g # generation
          /\ retries' = retries \ {g}
          /\ UNCHANGED <<managerVars, sessions, ticks, disturbances>>

Tick ==
    /\ ticks < MaxTicks
    /\ ticks' = ticks + 1
    /\ age' = [stamp \in DOMAIN age |->
                  IF age[stamp] > Limits[stamp] THEN age[stamp] ELSE age[stamp] + 1]
    /\ UNCHANGED <<flags, counters, book, sequence, policy, client, admitted,
                   retries, sessions, disturbances>>

\* check_health(), the calls that find something expired.
CheckHealth ==
    /\ ~stopping
    /\ \/ /\ ~connected /\ ~recovery_pending /\ Expired("attempt")
          /\ Recover("Disconnected", sessions)
       \/ /\ connected /\ ~recovery_pending /\ HealthFailure
          /\ Recover("Stale", sessions)
    /\ UNCHANGED <<age, ticks, disturbances>>

-----------------------------------------------------------------------------
(***************************************************************************)
(* Completion handlers of session g.  WebSocketClient suppresses its       *)
(* callbacks after abort(); a transport injected into the manager may not. *)
(***************************************************************************)
CallsBack(g) == ~sessions[g].stopping \/ LateCallbacks

\* Mutant of Current: callbacks do not compare their generation.
IgnoresGeneration(g) == ~stopping

Current(g) == ~stopping /\ g = generation

ErrorCallback(g, all) ==
    \/ /\ Current(g) /\ ~recovery_pending
       /\ Recover("Disconnected", all)
    \/ /\ ~Current(g) \/ recovery_pending
       /\ sessions' = all
       /\ UNCHANGED <<flags, counters, book, sequence, policy, client, admitted, retries>>

HandshakeDone(g) ==
    /\ sessions[g].stage = "handshake" /\ CallsBack(g)
    /\ sessions' = With(g, FirstRequest(sessions[g]))
    /\ UNCHANGED <<managerVars, retries, ticks, disturbances>>

RequestDone(g) ==
    /\ sessions[g].stage = "subscribe" /\ CallsBack(g)
    /\ MoreRequests(sessions[g])
    /\ sessions' = With(g, NextRequest(sessions[g]))
    /\ UNCHANGED <<managerVars, retries, ticks, disturbances>>

\* Mutant of Subscribed: ++connection_id_ is forgotten.
KeepsConnectionId(g) ==
    /\ sessions[g].stage = "subscribe" /\ CallsBack(g)
    /\ ~MoreRequests(sessions[g])
    /\ sessions' = With(g, Reading(sessions[g]))
    /\ \/ /\ Current(g) /\ ~connected
          /\ connected' = TRUE
          /\ age' = ZeroAges
          /\ sequence' = NoSequence
          /\ admitted' = {}
          /\ Transition("Initializing")
          /\ UNCHANGED <<stopping, terminal, recovery_pending, counters, policy, client>>
       \/ /\ ~Current(g) \/ connected
          /\ UNCHANGED managerVars
    /\ UNCHANGED <<retries, ticks, disturbances>>

\* The last request is written: the connected callback, then read().
Subscribed(g) ==
    /\ sessions[g].stage = "subscribe" /\ CallsBack(g)
    /\ ~MoreRequests(sessions[g])
    /\ sessions' = With(g, Reading(sessions[g]))
    /\ \/ /\ Current(g) /\ ~connected
          /\ connected' = TRUE
          /\ connection_id' = connection_id + 1
          /\ age' = ZeroAges
          /\ sequence' = NoSequence
          /\ admitted' = {}
          /\ Transition("Initializing")
          /\ UNCHANGED <<stopping, terminal, recovery_pending, generation, policy, client>>
       \/ /\ ~Current(g) \/ connected
          /\ UNCHANGED managerVars
    /\ UNCHANGED <<retries, ticks, disturbances>>

\* fail(): an operation of a live session ends with an error.
OperationFails(g) ==
    /\ sessions[g].stage # "closing" /\ CallsBack(g)
    /\ Disturb
    /\ ErrorCallback(g, Without(g))
    /\ UNCHANGED <<age, ticks>>

\* An operation of an aborted session completes; a write handler calls close().
AbortedCompletes(g) ==
    /\ sessions[g].stopping /\ sessions[g].stage # "closing"
    /\ \/ sessions' = Without(g)
       \/ sessions[g].stage = "subscribe" /\ sessions' = With(g, Closing(sessions[g]))
    /\ UNCHANGED <<managerVars, retries, ticks, disturbances>>

\* async_close completes cleanly, or with an error that is reported.
CloseCompletes(g) ==
    /\ sessions[g].stage = "closing"
    /\ \/ /\ sessions' = Without(g)
          /\ UNCHANGED <<flags, counters, book, sequence, policy, client, admitted, retries>>
       \/ ErrorCallback(g, Without(g))
    /\ UNCHANGED <<age, ticks, disturbances>>

\* The read handler calls close() after a message callback that returned false.
ClosedByReader(g) == With(g, Closing(sessions[g]))

\* message() for a connection that is no longer, or not yet, current.
UnwantedMessage(g) ==
    /\ sessions[g].stage = "read" /\ CallsBack(g)
    /\ ~Current(g) \/ ~connected
    /\ sessions' = ClosedByReader(g)
    /\ UNCHANGED <<managerVars, retries, ticks, disturbances>>

\* The sink is Full or Closed, or throws: the envelope is not processed.
MessageNotRecorded(g) ==
    /\ sessions[g].stage = "read" /\ CallsBack(g)
    /\ Current(g) /\ connected
    /\ terminal' = TRUE
    /\ StopThen("Invalid", ClosedByReader(g))
    /\ UNCHANGED <<age, ticks, disturbances>>

\* A recorded message that the processor refuses.
MessageFails(g, m) ==
    /\ sessions[g].stage = "read" /\ CallsBack(g)
    /\ Current(g) /\ connected
    /\ Outcome(m) \in Errors
    /\ Disturb
    /\ age' = StampedAges(m)
    /\ Recover("Invalid", ClosedByReader(g))
    /\ UNCHANGED ticks

\* A recorded message that is applied, skipped or ignored.
MessageAccepted(g, m) ==
    /\ sessions[g].stage = "read" /\ CallsBack(g)
    /\ Current(g) /\ connected
    /\ Outcome(m) \notin Errors
    /\ age' = StampedAges(m)
    /\ sequence' = ProcessedSequence(m)
    /\ book' = ProcessedBook(m)
    /\ admitted' = IF FreshSnapshot(m) THEN {m.sequence}
                   ELSE IF book.state = "Valid" /\ sequence' # sequence
                        THEN admitted \cup {m.sequence} ELSE admitted
    /\ IF FreshSnapshot(m) THEN backoff' = InitialDelay /\ recovering' = FALSE
                           ELSE UNCHANGED policy
    /\ UNCHANGED <<flags, counters, retries, sessions, client, ticks, disturbances>>

-----------------------------------------------------------------------------
SessionStep(g) ==
    \/ HandshakeDone(g) \/ RequestDone(g) \/ Subscribed(g) \/ OperationFails(g)
    \/ AbortedCompletes(g) \/ CloseCompletes(g) \/ UnwantedMessage(g) \/ MessageNotRecorded(g)
    \/ /\ sessions[g].stage = "read" /\ Current(g)
       /\ \E m \in Messages : MessageFails(g, m) \/ MessageAccepted(g, m)

Next ==
    \/ Start \/ Stop \/ TerminalRecordingFailure \/ ForceDisconnect \/ Tick \/ CheckHealth
    \/ \E g \in retries : RetryFires(g)
    \/ \E g \in DOMAIN sessions : SessionStep(g)

Spec == Init /\ [][Next]_vars

(***************************************************************************)
(* Fairness.  The io_context runs every expired timer and every completed  *)
(* operation; the network completes what it does not fail; the exchange    *)
(* answers a subscription with a snapshot.                                 *)
(***************************************************************************)
LiveCompletion ==
    \E g \in DOMAIN sessions : HandshakeDone(g) \/ RequestDone(g) \/ Subscribed(g)

SnapshotArrives ==
    \E g \in DOMAIN sessions, m \in Messages : FreshSnapshot(m) /\ MessageAccepted(g, m)

TimerFairness ==
    /\ WF_vars(CheckHealth)
    /\ WF_vars(\E g \in retries : RetryFires(g))

NetworkFairness == WF_vars(LiveCompletion) /\ WF_vars(SnapshotArrives)

TimerSpec == Spec /\ TimerFairness

-----------------------------------------------------------------------------
(***************************************************************************)
(* Safety.                                                                 *)
(***************************************************************************)
FlagsOK ==
    /\ stopping \in BOOLEAN /\ terminal \in BOOLEAN /\ recovery_pending \in BOOLEAN
    /\ connected \in BOOLEAN /\ recovering \in BOOLEAN

CountersOK ==
    /\ generation \in Nat /\ connection_id \in Nat
    /\ client \in 0 .. generation /\ retries \subseteq 1 .. generation
    /\ sequence \in Nat \cup {NoSequence} /\ admitted \subseteq Nat

BookOK == book \in [state : BookStates, last_sequence : Nat \cup {NoSequence}]

SessionsOK ==
    /\ DOMAIN sessions \subseteq 1 .. generation
    /\ \A g \in DOMAIN sessions : sessions[g] \in Session

BudgetOK ==
    /\ age \in [{"attempt", "any", "heartbeat", "l2"} -> Nat]
    /\ ticks \in 0 .. MaxTicks /\ disturbances \in 0 .. MaxDisturbances

\* Every variable has its type, and the retry delay stays between the first
\* delay and the cap.
TypeOK == FlagsOK /\ CountersOK /\ BookOK /\ SessionsOK /\ BudgetOK
          /\ backoff \in InitialDelay .. MaxDelay

\* A Valid book belongs to the connection that is open now, is being recovered
\* by nobody, and holds every envelope from its snapshot to the last one admitted
\* by the sequence tracker: no gap, no envelope of an older connection.
ValidIsSynchronised ==
    book.state = "Valid" =>
        /\ connected /\ ~recovery_pending /\ ~stopping
        /\ sequence # NoSequence
        /\ \E first \in admitted : admitted = first .. sequence /\ book.last_sequence \in admitted

\* At most one session is open, its callbacks carry the current generation, and
\* none is open while a retry is pending or after stop(): begin_connection never
\* replaces a client that is still talking.
OneLiveSession ==
    \A g \in DOMAIN sessions :
        ~sessions[g].stopping => g = generation /\ g = client /\ ~stopping /\ ~recovery_pending

\* A started manager always has a way forward that its guards will let through:
\* either the retry of this very generation is scheduled, or a session of this
\* generation is open, reading exactly when the manager calls itself connected.
NeverStranded ==
    ~stopping =>
        IF recovery_pending
        THEN generation \in retries
        ELSE /\ generation \in DOMAIN sessions /\ ~sessions[generation].stopping
             /\ connected <=> sessions[generation].stage = "read"

\* A recording failure is the end: the book is Invalid, nothing is open and no
\* retry can pass its guard.
TerminalIsSealed ==
    terminal => /\ stopping /\ ~connected /\ book.state = "Invalid"
                /\ generation \notin retries
                /\ \A g \in DOMAIN sessions : sessions[g].stopping

\* Once the book is Valid the recovery is over: the failure clock is cleared and
\* the next failure starts again from the initial delay.
ValidEndsRecovery == book.state = "Valid" => backoff = InitialDelay /\ ~recovering

-----------------------------------------------------------------------------
(***************************************************************************)
(* Action properties.                                                      *)
(***************************************************************************)

\* A step after which the manager, its retries and every session but g are as before.
ReachesNoOther(g) ==
    /\ UNCHANGED <<managerVars, retries>>
    /\ \A h \in DOMAIN sessions \ {g} : h \in DOMAIN sessions' /\ sessions'[h] = sessions[h]

\* A completion of a session that close_() has aborted changes that session and
\* nothing else: whatever it reports and however late (an error, the end of its
\* subscription, a message), it reaches neither the manager nor its retries nor
\* another session.
LateCompletionsAreInert ==
    [][\A g \in DOMAIN sessions :
           sessions[g].stopping => ReachesNoOther(g) \/ ~SessionStep(g)]_vars

\* Nobody waits for this retry: the manager is stopped or has moved on, or another
\* retry has been scheduled since.
Stale(g) == stopping \/ ~recovery_pending \/ \E h \in retries : h > g

\* The callback of a stale retry changes nothing, although its timer had expired
\* before it was cancelled: no second attempt beside a session, none after stop(),
\* none before the delay of the latest failure has passed.
StaleRetriesAreInert ==
    [][\A g \in retries :
           RetryFires(g) /\ Stale(g) => UNCHANGED <<managerVars, sessions, ticks, disturbances>>]_vars

\* Nothing the manager has abandoned, a session or a retry, can still change it.
AbandonedAreInert == LateCompletionsAreInert /\ StaleRetriesAreInert

\* After a terminal recording failure no call and no callback revives the feed.
TerminalIsFinal ==
    [][terminal => UNCHANGED <<flags, counters, book, sequence, policy, client>>]_vars

\* The retry delay shrinks only when a fresh snapshot makes the book Valid; a
\* mere reconnection, or a stop and start, keeps backing off.
BackoffShrinksOnlyOnResync ==
    [][backoff' < backoff => book.state # "Valid" /\ book'.state = "Valid"]_vars

\* While the book stays Valid its sequence never moves back: duplicate and
\* out-of-order envelopes are not applied.
BookNeverRewinds ==
    [][book.state = "Valid" /\ book'.state = "Valid" =>
           book'.last_sequence >= book.last_sequence]_vars

\* Seen from the runtime the manager is CoinbaseManager: whatever abandoned
\* sessions and old timers still do, it is a succession of connections, each
\* opened by its own attempt and none fed or failed by the one before it.
Manager == INSTANCE CoinbaseManager
RefinesManager == Manager!Spec

-----------------------------------------------------------------------------
(***************************************************************************)
(* Liveness.                                                               *)
(***************************************************************************)

\* With fair timers alone: a connection that has fallen silent, whose heartbeats
\* have stopped, or which heartbeats keep alive while it brings no book message
\* (when max_instrument_message_age is set) is given up unless it resumes.
SilenceIsNoticed ==
    LET silent == \E stamp \in {"any", "heartbeat", "l2"} : Expired(stamp)
    IN (connected /\ silent) ~> (~connected \/ ~silent)

\* A started feed that is disturbed finitely often becomes Valid, or is stopped,
\* when the network completes what it does not fail and the exchange answers.
SelfHeals == NetworkFairness => (~stopping ~> (stopping \/ book.state = "Valid"))
=============================================================================

------------------------- MODULE CoinbaseFeedProofs -------------------------
(***************************************************************************)
(* Proofs about CoinbaseFeed for all constants: every limit, delay and     *)
(* bound, and transports that call back late as well as ones that do not.  *)
(***************************************************************************)
EXTENDS CoinbaseFeed, TLAPS

\* What the flags say about the session and the retry of the current generation:
\* recover() and stop() move to a generation nothing carries yet.
Bookkeeping ==
    /\ stopping \/ recovery_pending => ~connected /\ generation \notin DOMAIN sessions
    /\ stopping => ~recovery_pending
    /\ generation \in retries => recovery_pending
    /\ \A g \in DOMAIN sessions : sessions[g].stage = "closing" => sessions[g].stopping

\* The control part of the invariant and the data part.
Control == OneLiveSession /\ NeverStranded /\ TerminalIsSealed /\ Bookkeeping
Data == ValidIsSynchronised /\ ValidEndsRecovery
Inv == TypeOK /\ Control /\ Data

\* Sessions that close_() may be called on: nothing new, and none but the
\* client's is open.
Closable(all) ==
    /\ DOMAIN all \subseteq DOMAIN sessions
    /\ \A g \in DOMAIN all : all[g] \in Session /\ (all[g].stopping \/ g = client)

-----------------------------------------------------------------------------
(***************************************************************************)
(* The helpers.                                                            *)
(***************************************************************************)

\* ReconnectPolicy::next_delay stays between the first delay and the cap.
LEMMA NextDelayInRange ==
    ASSUME NEW d \in InitialDelay .. MaxDelay
    PROVE  NextDelay(d) \in InitialDelay .. MaxDelay
BY FeedAssumption DEF NextDelay

\* A mark keeps the book's type.
LEMMA TransitionType ==
    ASSUME BookOK, NEW state \in BookStates, Transition(state)
    PROVE  BookOK' /\ book'.state = state
BY DEF BookOK, Transition

\* The ages a new connection starts with are ages.
LEMMA ZeroAgesType == ZeroAges \in [{"attempt", "any", "heartbeat", "l2"} -> Nat]
BY DEF ZeroAges

\* Resetting one stamp keeps the ages' type.
LEMMA ResetAttemptType ==
    ASSUME BudgetOK
    PROVE  [age EXCEPT !.attempt = 0] \in [{"attempt", "any", "heartbeat", "l2"} -> Nat]
BY DEF BudgetOK

\* close_() leaves a type-correct set of sessions none of which is open.
LEMMA AbortClientCloses ==
    ASSUME NEW all, Closable(all)
    PROVE  /\ DOMAIN AbortClient(all) = DOMAIN all
           /\ \A g \in DOMAIN all : /\ AbortClient(all)[g] \in Session
                                    /\ AbortClient(all)[g].stopping
BY DEF AbortClient, Closable, Abort, Session

\* The three sets of sessions that close_() is called on: all of them, all but
\* the one whose operation failed, and all with the reader's closing.
LEMMA ClosableSessions ==
    ASSUME Inv, NEW g \in DOMAIN sessions
    PROVE  Closable(sessions) /\ Closable(Without(g)) /\ Closable(ClosedByReader(g))
BY RequestsAssumption
   DEF Inv, TypeOK, SessionsOK, Control, OneLiveSession, Closable, Without, ClosedByReader, With,
       Closing, Session, Stages

\* A callback that passes the generation guard belongs to the open session.
LEMMA CurrentIsLive ==
    ASSUME Inv, NEW g \in DOMAIN sessions, Current(g)
    PROVE  /\ ~stopping /\ ~recovery_pending /\ ~terminal /\ g = generation
           /\ ~sessions[g].stopping /\ (connected <=> sessions[g].stage = "read")
BY DEF Inv, Control, Bookkeeping, NeverStranded, TerminalIsSealed, Current

-----------------------------------------------------------------------------
(***************************************************************************)
(* Initial states and the manager's internal calls.                        *)
(***************************************************************************)
LEMMA InitInv == Init => Inv
<1>. SUFFICES ASSUME Init PROVE Inv
  OBVIOUS
<1>1. FlagsOK /\ SessionsOK
  BY DEF Init, FlagsOK, SessionsOK
<1>2. CountersOK
  BY DEF Init, CountersOK, NoClient
<1>3. BookOK
  BY DEF Init, BookOK, BookStates
<1>4. BudgetOK
  BY FeedAssumption, ZeroAgesType DEF Init, BudgetOK
<1>5. backoff \in InitialDelay .. MaxDelay
  BY FeedAssumption DEF Init
<1>6. Control
  BY DEF Init, Control, OneLiveSession, NeverStranded, TerminalIsSealed, Bookkeeping
<1>7. Data
  BY DEF Init, Data, ValidIsSynchronised, ValidEndsRecovery
<1>. QED
  BY <1>1, <1>2, <1>3, <1>4, <1>5, <1>6, <1>7 DEF Inv, TypeOK

\* recover() restores the invariant from any set of sessions it may close.
LEMMA RecoverInv ==
    ASSUME Inv, BudgetOK', ~stopping, NEW state \in BookStates \ {"Valid"},
           NEW all, Closable(all), Recover(state, all)
    PROVE  Inv'
<1>1. /\ DOMAIN sessions' \subseteq 1 .. generation
      /\ \A g \in DOMAIN sessions' : sessions'[g] \in Session /\ sessions'[g].stopping
  BY AbortClientCloses DEF Recover, Closable, Inv, TypeOK, SessionsOK
<1>2. retries' \subseteq 1 .. generation' /\ generation' \in retries'
  BY DEF Recover, ScheduleRetry, Inv, TypeOK, CountersOK
<1>3. BookOK' /\ book'.state # "Valid"
  BY TransitionType DEF Recover, Inv, TypeOK
<1>4. TypeOK'
  <2>1. backoff' \in InitialDelay .. MaxDelay
    BY NextDelayInRange DEF Recover, Inv, TypeOK
  <2>2. FlagsOK'
    BY DEF Recover, Inv, TypeOK, FlagsOK
  <2>3. CountersOK' /\ SessionsOK'
    BY <1>1, <1>2 DEF Recover, Inv, TypeOK, CountersOK, SessionsOK
  <2>. QED
    BY <1>3, <2>1, <2>2, <2>3 DEF TypeOK
<1>5. generation' \notin DOMAIN sessions' /\ ~terminal'
  BY <1>1 DEF Recover, Inv, TypeOK, CountersOK, Control, TerminalIsSealed
<1>6. Control'
  BY <1>1, <1>2, <1>5
  DEF Recover, Control, OneLiveSession, NeverStranded, TerminalIsSealed, Bookkeeping
<1>. QED
  BY <1>3, <1>4, <1>6 DEF Inv, Data, ValidIsSynchronised, ValidEndsRecovery

\* stop(), followed by a mark, restores the invariant.
LEMMA StopInv ==
    ASSUME Inv, BudgetOK', terminal' \in BOOLEAN, NEW state \in BookStates \ {"Valid"},
           terminal' => state = "Invalid",
           NEW all, Closable(all), StopThen(state, all)
    PROVE  Inv'
<1>1. /\ DOMAIN sessions' \subseteq 1 .. generation
      /\ \A g \in DOMAIN sessions' : sessions'[g] \in Session /\ sessions'[g].stopping
  BY AbortClientCloses DEF StopThen, Closable, Inv, TypeOK, SessionsOK
<1>2. retries' \subseteq 1 .. generation /\ generation \in Nat /\ generation' = generation + 1
  BY DEF StopThen, CancelRetry, Inv, TypeOK, CountersOK
<1>3. BookOK' /\ book'.state # "Valid" /\ (terminal' => book'.state = "Invalid")
  BY TransitionType DEF StopThen, Inv, TypeOK
<1>4. TypeOK'
  <2>1. FlagsOK' /\ backoff' \in InitialDelay .. MaxDelay
    BY DEF StopThen, policy, Inv, TypeOK, FlagsOK
  <2>2. CountersOK' /\ SessionsOK'
    BY <1>1, <1>2 DEF StopThen, Inv, TypeOK, CountersOK, SessionsOK
  <2>. QED
    BY <1>3, <2>1, <2>2 DEF TypeOK
<1>5. generation' \notin DOMAIN sessions' /\ generation' \notin retries'
  BY <1>1, <1>2
<1>6. Control'
  BY <1>1, <1>3, <1>5
  DEF StopThen, Control, OneLiveSession, NeverStranded, TerminalIsSealed, Bookkeeping
<1>. QED
  BY <1>3, <1>4, <1>6 DEF Inv, Data, ValidIsSynchronised, ValidEndsRecovery

\* begin_connection() restores the invariant, whether the attempt is under way
\* or failed inside connect_, provided no session is open.
LEMMA BeginInv ==
    ASSUME Inv, stopping' = FALSE, ~terminal, NEW rest, rest \subseteq retries,
           \A g \in DOMAIN sessions : sessions[g].stopping, BeginConnection(rest)
    PROVE  Inv'
<1>. USE DEF BeginConnection
<1>0. generation \in Nat /\ DOMAIN sessions \subseteq 1 .. generation /\ retries \subseteq 1 .. generation
  BY DEF Inv, TypeOK, CountersOK, SessionsOK
<1>a. CASE AttemptOpens(rest)
  <2>1. /\ DOMAIN sessions' = DOMAIN sessions \cup {generation + 1}
        /\ sessions'[generation + 1] = Connecting
        /\ \A g \in DOMAIN sessions : sessions'[g] = sessions[g]
    BY <1>a, <1>0 DEF AttemptOpens, With
  <2>2. Connecting \in Session /\ ~Connecting.stopping /\ Connecting.stage = "handshake"
    BY RequestsAssumption DEF Connecting, Session, Stages
  <2>3. BookOK' /\ book'.state = "Resyncing"
    BY <1>a, TransitionType DEF AttemptOpens, Inv, TypeOK, BookStates
  <2>4. CountersOK' /\ SessionsOK' /\ generation' = generation + 1
    BY <1>a, <1>0, <2>1, <2>2 DEF AttemptOpens, Inv, TypeOK, CountersOK, SessionsOK
  <2>5. BudgetOK'
    BY <1>a, ResetAttemptType DEF AttemptOpens, Inv, TypeOK, BudgetOK
  <2>6. FlagsOK' /\ backoff' \in InitialDelay .. MaxDelay
    BY <1>a DEF AttemptOpens, policy, Inv, TypeOK, FlagsOK
  <2>7. Control'
    <3>1. OneLiveSession'
      BY <1>a, <2>1, <2>4 DEF AttemptOpens, OneLiveSession
    <3>2. NeverStranded'
      BY <1>a, <2>1, <2>2, <2>4 DEF AttemptOpens, NeverStranded
    <3>3. Bookkeeping'
      BY <1>a, <1>0, <2>1, <2>2, <2>4 DEF AttemptOpens, Bookkeeping, Inv, Control
    <3>. QED
      BY <3>1, <3>2, <3>3 DEF Control, TerminalIsSealed
  <2>. QED
    BY <2>3, <2>4, <2>5, <2>6, <2>7 DEF Inv, TypeOK, Data, ValidIsSynchronised, ValidEndsRecovery
<1>b. CASE AttemptFails(rest)
  <2>1. generation' = generation + 2 /\ sessions' = sessions
    BY <1>b DEF AttemptFails
  <2>2. retries' \subseteq 1 .. generation' /\ generation' \in retries'
    BY <1>b, <1>0 DEF AttemptFails, ScheduleRetry
  <2>3. BookOK' /\ book'.state = "Disconnected"
    BY <1>b, TransitionType DEF AttemptFails, Inv, TypeOK, BookStates
  <2>4. CountersOK' /\ SessionsOK'
    BY <1>0, <2>1, <2>2 DEF Inv, TypeOK, CountersOK, SessionsOK
  <2>5. BudgetOK'
    BY <1>b, ResetAttemptType, FeedAssumption DEF AttemptFails, Inv, TypeOK, BudgetOK
  <2>6. FlagsOK' /\ backoff' \in InitialDelay .. MaxDelay
    BY <1>b, NextDelayInRange DEF AttemptFails, Inv, TypeOK, FlagsOK
  <2>7. Control'
    BY <1>b, <1>0, <2>1, <2>2
    DEF AttemptFails, Control, OneLiveSession, NeverStranded, TerminalIsSealed, Bookkeeping, Inv
  <2>. QED
    BY <2>3, <2>4, <2>5, <2>6, <2>7 DEF Inv, TypeOK, Data, ValidIsSynchronised, ValidEndsRecovery
<1>. QED
  BY <1>a, <1>b

-----------------------------------------------------------------------------
(***************************************************************************)
(* One lemma per group of actions.                                         *)
(***************************************************************************)

\* The manager's own entry points and its timers.
LEMMA ManagerInv ==
    ASSUME Inv,
           \/ Start \/ Stop \/ TerminalRecordingFailure \/ ForceDisconnect \/ Tick \/ CheckHealth
           \/ \E g \in retries : RetryFires(g)
    PROVE  Inv'
<1>0. Closable(sessions)
  BY DEF Inv, TypeOK, SessionsOK, Control, OneLiveSession, Closable
<1>1. CASE Start
  <2>1. \A g \in DOMAIN sessions : sessions[g].stopping
    BY <1>1 DEF Start, Inv, Control, OneLiveSession
  <2>. QED
    BY <1>1, <2>1, BeginInv DEF Start
<1>2. CASE Stop
  <2>1. BudgetOK'
    BY <1>2, FeedAssumption DEF Stop, Disturb, Inv, TypeOK, BudgetOK
  <2>2. terminal' = FALSE
    BY <1>2 DEF Stop, Inv, TypeOK, FlagsOK, Control, TerminalIsSealed
  <2>. QED
    BY <1>0, <1>2, <2>1, <2>2, StopInv DEF Stop, BookStates
<1>3. CASE TerminalRecordingFailure
  <2>1. BudgetOK' /\ terminal' = TRUE
    BY <1>3 DEF TerminalRecordingFailure, Inv, TypeOK, BudgetOK
  <2>2. CASE ~stopping /\ StopThen("Invalid", sessions)
    BY <1>0, <2>1, <2>2, StopInv DEF BookStates
  <2>3. CASE stopping
    <3>1. /\ UNCHANGED <<stopping, recovery_pending, connected, counters, sequence, policy,
                         retries, sessions, client, admitted>>
          /\ Transition("Invalid")
      BY <1>3, <2>3 DEF TerminalRecordingFailure
    <3>2. BookOK' /\ book'.state = "Invalid"
      BY <3>1, TransitionType DEF Inv, TypeOK, BookStates
    <3>3. TypeOK'
      BY <2>1, <3>1, <3>2
      DEF Inv, TypeOK, FlagsOK, CountersOK, SessionsOK, counters, policy
    <3>4. Control'
      BY <2>3, <3>1, <3>2
      DEF Inv, Control, OneLiveSession, NeverStranded, TerminalIsSealed, Bookkeeping, counters
    <3>. QED
      BY <3>2, <3>3, <3>4 DEF Inv, Data, ValidIsSynchronised, ValidEndsRecovery
  <2>. QED
    BY <1>3, <2>2, <2>3 DEF TerminalRecordingFailure, Inv, TypeOK, FlagsOK
<1>4. CASE ForceDisconnect
  <2>1. BudgetOK'
    BY <1>4, FeedAssumption DEF ForceDisconnect, Disturb, Inv, TypeOK, BudgetOK
  <2>. QED
    BY <1>0, <1>4, <2>1, RecoverInv DEF ForceDisconnect, BookStates
<1>5. CASE Tick
  <2>1. BudgetOK'
    <3>1. age' \in [{"attempt", "any", "heartbeat", "l2"} -> Nat]
      BY <1>5 DEF Tick, Inv, TypeOK, BudgetOK
    <3>. QED
      BY <1>5, <3>1, FeedAssumption DEF Tick, Inv, TypeOK, BudgetOK
  <2>2. TypeOK'
    BY <1>5, <2>1 DEF Tick, Inv, TypeOK, FlagsOK, CountersOK, BookOK, SessionsOK, flags, counters, policy
  <2>3. Control'
    BY <1>5 DEF Tick, Inv, Control, OneLiveSession, NeverStranded, TerminalIsSealed, Bookkeeping,
                flags, counters
  <2>4. Data'
    BY <1>5 DEF Tick, Inv, Data, ValidIsSynchronised, ValidEndsRecovery, flags, policy
  <2>. QED
    BY <2>2, <2>3, <2>4 DEF Inv
<1>6. CASE CheckHealth
  <2>1. BudgetOK'
    BY <1>6 DEF CheckHealth, Inv, TypeOK, BudgetOK
  <2>. QED
    BY <1>0, <1>6, <2>1, RecoverInv DEF CheckHealth, BookStates
<1>7. ASSUME NEW g \in retries, RetryFires(g) PROVE Inv'
  <2>1. CASE ~stopping /\ g = generation /\ BeginConnection(retries \ {g}) /\ UNCHANGED stopping
    <3>1. stopping' = FALSE /\ ~terminal
      BY <2>1 DEF Inv, TypeOK, FlagsOK, Control, TerminalIsSealed
    <3>2. \A h \in DOMAIN sessions : sessions[h].stopping
      BY <2>1, <1>7 DEF Inv, Control, OneLiveSession, Bookkeeping
    <3>. QED
      BY <2>1, <3>1, <3>2, BeginInv
  <2>2. CASE /\ stopping \/ g # generation
             /\ retries' = retries \ {g}
             /\ UNCHANGED <<managerVars, sessions, ticks, disturbances>>
    <3>1. TypeOK'
      BY <2>2 DEF Inv, TypeOK, FlagsOK, CountersOK, BookOK, SessionsOK, BudgetOK, managerVars, flags, counters, policy
    <3>2. Control'
      BY <2>2 DEF Inv, Control, OneLiveSession, NeverStranded, TerminalIsSealed, Bookkeeping,
                  managerVars, flags, counters
    <3>3. Data'
      BY <2>2 DEF Inv, Data, ValidIsSynchronised, ValidEndsRecovery, managerVars, flags, policy
    <3>. QED
      BY <3>1, <3>2, <3>3 DEF Inv
  <2>. QED
    BY <1>7, <2>1, <2>2 DEF RetryFires
<1>. QED
  BY <1>1, <1>2, <1>3, <1>4, <1>5, <1>6, <1>7

\* A step that changes one session only, without opening or reading it anew,
\* keeps the invariant.
LEMMA QuietSessionInv ==
    ASSUME Inv, BudgetOK',
           UNCHANGED <<flags, counters, book, sequence, policy, client, admitted, retries>>,
           NEW g \in DOMAIN sessions, NEW s \in Session,
           s.stopping = sessions[g].stopping \/ s.stopping,
           s.stage = "closing" => s.stopping,
           \/ sessions' = Without(g) /\ (sessions[g].stopping \/ ~Current(g))
           \/ sessions' = With(g, s) /\ (g = generation /\ ~sessions[g].stopping =>
                                            s.stage # "read" /\ sessions[g].stage # "read" /\ ~s.stopping)
    PROVE  Inv'
<1>. USE DEF flags, counters, policy
<1>1. /\ DOMAIN sessions' \subseteq DOMAIN sessions
      /\ \A h \in DOMAIN sessions' : IF h = g THEN sessions'[h] = s ELSE sessions'[h] = sessions[h]
      /\ \A h \in DOMAIN sessions : h # g => h \in DOMAIN sessions'
  BY DEF Without, With
<1>2. TypeOK'
  BY <1>1 DEF Inv, TypeOK, FlagsOK, CountersOK, BookOK, SessionsOK
<1>3. OneLiveSession' /\ TerminalIsSealed' /\ Bookkeeping'
  BY <1>1 DEF Inv, Control, OneLiveSession, TerminalIsSealed, Bookkeeping
<1>4. NeverStranded'
  <2>. SUFFICES ASSUME ~stopping, ~recovery_pending
                PROVE  /\ generation \in DOMAIN sessions' /\ ~sessions'[generation].stopping
                       /\ connected <=> sessions'[generation].stage = "read"
    BY DEF Inv, Control, NeverStranded
  <2>1. /\ generation \in DOMAIN sessions /\ ~sessions[generation].stopping
        /\ connected <=> sessions[generation].stage = "read"
    BY DEF Inv, Control, NeverStranded
  <2>2. CASE g # generation
    BY <1>1, <2>1, <2>2
  <2>3. CASE g = generation
    BY <1>1, <2>1, <2>3 DEF With, Current
  <2>. QED
    BY <2>2, <2>3
<1>5. Data'
  BY DEF Inv, Data, ValidIsSynchronised, ValidEndsRecovery
<1>. QED
  BY <1>2, <1>3, <1>4, <1>5 DEF Inv, Control

\* The stages of a session stay within its type.
LEMMA StagesType ==
    ASSUME NEW s \in Session
    PROVE  /\ FirstRequest(s) \in Session /\ Reading(s) \in Session /\ Closing(s) \in Session
           /\ MoreRequests(s) => NextRequest(s) \in Session
           /\ FirstRequest(s).stopping = s.stopping /\ FirstRequest(s).stage = "subscribe"
           /\ NextRequest(s).stopping = s.stopping /\ NextRequest(s).stage = s.stage
           /\ Reading(s).stopping = s.stopping /\ Reading(s).stage = "read"
           /\ Closing(s).stopping /\ Closing(s).stage = "closing"
<1>0. 1 \in 0 .. Requests /\ "subscribe" \in Stages
  BY RequestsAssumption DEF Stages
<1>1. FirstRequest(s) \in Session /\ FirstRequest(s).stopping = s.stopping
      /\ FirstRequest(s).stage = "subscribe"
  BY <1>0 DEF Session, FirstRequest
<1>2. Reading(s) \in Session /\ Reading(s).stopping = s.stopping /\ Reading(s).stage = "read"
  BY DEF Session, Stages, Reading
<1>3. Closing(s) \in Session /\ Closing(s).stopping = TRUE /\ Closing(s).stage = "closing"
  BY DEF Session, Stages, Closing
<1>4. NextRequest(s).stopping = s.stopping /\ NextRequest(s).stage = s.stage
  BY DEF Session, NextRequest
<1>5. MoreRequests(s) => NextRequest(s) \in Session
  BY RequestsAssumption DEF Session, MoreRequests, NextRequest
<1>. QED
  BY <1>1, <1>2, <1>3, <1>4, <1>5

\* An open session is the current one.
LEMMA LiveIsCurrent ==
    ASSUME Inv, NEW g \in DOMAIN sessions, ~sessions[g].stopping
    PROVE  Current(g)
BY DEF Inv, Control, OneLiveSession, Current

\* Handlers that only move a session along, or bury an abandoned one.
LEMMA HousekeepingInv ==
    ASSUME Inv, NEW g \in DOMAIN sessions,
           HandshakeDone(g) \/ RequestDone(g) \/ AbortedCompletes(g) \/ UnwantedMessage(g)
    PROVE  Inv'
<1>. DEFINE s == sessions[g]
<1>0. /\ s \in Session /\ (s.stage = "closing" => s.stopping)
      /\ BudgetOK'
      /\ UNCHANGED <<flags, counters, book, sequence, policy, client, admitted, retries>>
  BY DEF Inv, TypeOK, SessionsOK, BudgetOK, Control, Bookkeeping, HandshakeDone, RequestDone,
         AbortedCompletes, UnwantedMessage, managerVars
<1>1. CASE HandshakeDone(g)
  <2>1. s.stage = "handshake" /\ sessions' = With(g, FirstRequest(s))
    BY <1>1 DEF HandshakeDone
  <2>. QED
    BY <1>0, <2>1, StagesType, QuietSessionInv
<1>2. CASE RequestDone(g)
  <2>1. s.stage = "subscribe" /\ MoreRequests(s) /\ sessions' = With(g, NextRequest(s))
    BY <1>2 DEF RequestDone
  <2>2. ~NextRequest(s).stopping \/ s.stopping
    BY <1>0, StagesType
  <2>. QED
    BY <1>0, <2>1, <2>2, StagesType, QuietSessionInv
<1>3. CASE AbortedCompletes(g)
  <2>1. s.stopping /\ (sessions' = Without(g) \/ sessions' = With(g, Closing(s)))
    BY <1>3 DEF AbortedCompletes
  <2>2. CASE sessions' = Without(g)
    BY <1>0, <2>1, <2>2, QuietSessionInv
  <2>3. CASE sessions' = With(g, Closing(s))
    BY <1>0, <2>1, <2>3, StagesType, QuietSessionInv
  <2>. QED
    BY <2>1, <2>2, <2>3
<1>4. CASE UnwantedMessage(g)
  <2>1. s.stage = "read" /\ (~Current(g) \/ ~connected) /\ sessions' = With(g, Closing(s))
    BY <1>4 DEF UnwantedMessage, ClosedByReader
  <2>2. s.stopping
    BY <2>1, LiveIsCurrent, CurrentIsLive
  <2>. QED
    BY <1>0, <2>1, <2>2, StagesType, QuietSessionInv
<1>. QED
  BY <1>1, <1>2, <1>3, <1>4

\* Callbacks of a session: it is open for the manager, or its operation failed.
LEMMA CallbackInv ==
    ASSUME Inv, NEW g \in DOMAIN sessions, Subscribed(g) \/ OperationFails(g) \/ CloseCompletes(g)
    PROVE  Inv'
<1>. DEFINE s == sessions[g]
<1>0. s \in Session /\ (s.stage = "closing" => s.stopping)
  BY DEF Inv, TypeOK, SessionsOK, Control, Bookkeeping
<1>1. CASE Subscribed(g) /\ Current(g) /\ ~connected
  <2>1. /\ connected' = TRUE /\ connection_id' = connection_id + 1 /\ age' = ZeroAges
        /\ sequence' = NoSequence /\ admitted' = {} /\ Transition("Initializing")
        /\ sessions' = With(g, Reading(s))
        /\ UNCHANGED <<stopping, terminal, recovery_pending, generation, policy, client>>
        /\ UNCHANGED <<retries, ticks, disturbances>>
    BY <1>1 DEF Subscribed
  <2>2. ~stopping /\ ~recovery_pending /\ ~terminal /\ g = generation /\ ~s.stopping
    BY <1>1, CurrentIsLive
  <2>3. /\ DOMAIN sessions' = DOMAIN sessions /\ sessions'[g] = Reading(s)
        /\ \A h \in DOMAIN sessions : h # g => sessions'[h] = sessions[h]
    BY <2>1 DEF With
  <2>4. BookOK' /\ book'.state = "Initializing"
    BY <2>1, TransitionType DEF Inv, TypeOK, BookStates
  <2>5. BudgetOK'
    BY <2>1, ZeroAgesType DEF Inv, TypeOK, BudgetOK
  <2>6. FlagsOK' /\ CountersOK' /\ backoff' \in InitialDelay .. MaxDelay
    BY <2>1 DEF Inv, TypeOK, FlagsOK, CountersOK, policy
  <2>7. SessionsOK'
    BY <1>0, <2>1, <2>3, StagesType DEF Inv, TypeOK, SessionsOK
  <2>8. Control'
    <3>1. Reading(s).stopping = FALSE /\ Reading(s).stage = "read"
      BY <1>0, <2>2, StagesType DEF Session
    <3>. QED
      BY <2>1, <2>2, <2>3, <3>1
      DEF Inv, Control, OneLiveSession, NeverStranded, TerminalIsSealed, Bookkeeping
  <2>. QED
    BY <2>4, <2>5, <2>6, <2>7, <2>8 DEF Inv, TypeOK, Data, ValidIsSynchronised, ValidEndsRecovery
<1>2. CASE Subscribed(g) /\ (~Current(g) \/ connected)
  <2>1. /\ s.stage = "subscribe" /\ sessions' = With(g, Reading(s)) /\ BudgetOK'
        /\ UNCHANGED <<flags, counters, book, sequence, policy, client, admitted, retries>>
    BY <1>2 DEF Subscribed, managerVars, Inv, TypeOK, BudgetOK
  <2>2. s.stopping
    BY <1>2, <2>1, LiveIsCurrent, CurrentIsLive
  <2>. QED
    BY <1>0, <2>1, <2>2, StagesType, QuietSessionInv
<1>3. ASSUME BudgetOK', ErrorCallback(g, Without(g)) PROVE Inv'
  <2>1. CASE Current(g) /\ ~recovery_pending /\ Recover("Disconnected", Without(g))
    BY <1>3, <2>1, CurrentIsLive, ClosableSessions, RecoverInv DEF BookStates
  <2>2. CASE /\ ~Current(g) \/ recovery_pending
             /\ sessions' = Without(g)
             /\ UNCHANGED <<flags, counters, book, sequence, policy, client, admitted, retries>>
    <3>1. ~Current(g)
      BY <2>2, CurrentIsLive
    <3>. QED
      BY <1>0, <1>3, <2>2, <3>1, QuietSessionInv
  <2>. QED
    BY <1>3, <2>1, <2>2 DEF ErrorCallback
<1>4. CASE OperationFails(g)
  <2>1. BudgetOK'
    BY <1>4, FeedAssumption DEF OperationFails, Disturb, Inv, TypeOK, BudgetOK
  <2>. QED
    BY <1>3, <1>4, <2>1 DEF OperationFails
<1>5. CASE CloseCompletes(g)
  <2>1. BudgetOK' /\ s.stopping
    BY <1>0, <1>5 DEF CloseCompletes, Inv, TypeOK, BudgetOK
  <2>2. CASE /\ sessions' = Without(g)
             /\ UNCHANGED <<flags, counters, book, sequence, policy, client, admitted, retries>>
    BY <1>0, <2>1, <2>2, QuietSessionInv
  <2>. QED
    BY <1>3, <1>5, <2>1, <2>2 DEF CloseCompletes
<1>. QED
  BY <1>1, <1>2, <1>4, <1>5

\* Recording the time of a message keeps the ages' type.
LEMMA StampedAgesType ==
    ASSUME BudgetOK, NEW m
    PROVE  StampedAges(m) \in [{"attempt", "any", "heartbeat", "l2"} -> Nat]
BY DEF BudgetOK, StampedAges

\* What the processor admits: a book is updated by sequenced envelopes only, an
\* unsynchronised one by a snapshot only, and a sequenced envelope that is not
\* skipped is the successor of the last one.
LEMMA AdmittedMessage ==
    ASSUME NEW m \in Messages, Outcome(m) \notin Errors, sequence \in Nat \cup {NoSequence}
    PROVE  /\ m.sequence \in Nat \cup {NoSequence}
           /\ Outcome(m) = "BookUpdated" =>
                m.sequence \in Nat /\ (book.state # "Valid" => m.kind = "snapshot")
           /\ m.sequence # NoSequence /\ sequence # NoSequence /\ Outcome(m) \notin Skipped =>
                m.sequence = sequence + 1
<1>1. m.sequence \in Nat \cup {NoSequence} /\ (m.kind \in L2Kinds => m.sequence \in Nat)
      /\ m.kind \in L2Kinds \cup OtherKinds \cup {"malformed"}
  BY FeedAssumption DEF Messages, L2Kinds, OtherKinds
<1>2. Outcome(m) = "BookUpdated" =>
          m.kind \in L2Kinds /\ (book.state # "Valid" => m.kind = "snapshot")
  BY <1>1 DEF Outcome, NotL2Outcome, L2Kinds, OtherKinds, Skipped, Errors
<1>3. m.sequence # NoSequence /\ sequence # NoSequence /\ Outcome(m) \notin Skipped =>
          m.sequence = sequence + 1
  <2>. SUFFICES ASSUME m.sequence # NoSequence, sequence # NoSequence, Outcome(m) \notin Skipped
                PROVE  m.sequence = sequence + 1
    OBVIOUS
  <2>1. Observe(m.sequence) \notin Skipped /\ Observe(m.sequence) # "Gap"
    BY DEF Outcome, Errors, Skipped
  <2>. QED
    BY <1>1, <2>1 DEF Observe, Skipped, NoSequence
<1>. QED
  BY <1>1, <1>2, <1>3

\* A message that cannot be recorded, or that the processor refuses.
LEMMA RefusedMessageInv ==
    ASSUME Inv, NEW g \in DOMAIN sessions,
           MessageNotRecorded(g) \/ \E m \in Messages : MessageFails(g, m)
    PROVE  Inv'
<1>0. Closable(ClosedByReader(g))
  BY ClosableSessions
<1>1. CASE MessageNotRecorded(g)
  <2>1. BudgetOK' /\ terminal' = TRUE
    BY <1>1 DEF MessageNotRecorded, Inv, TypeOK, BudgetOK
  <2>. QED
    BY <1>0, <1>1, <2>1, StopInv DEF MessageNotRecorded, BookStates
<1>2. ASSUME NEW m \in Messages, MessageFails(g, m) PROVE Inv'
  <2>1. BudgetOK'
    BY <1>2, StampedAgesType, FeedAssumption
    DEF MessageFails, Disturb, Inv, TypeOK, BudgetOK
  <2>2. ~stopping
    BY <1>2 DEF MessageFails, Current
  <2>. QED
    BY <1>0, <1>2, <2>1, <2>2, RecoverInv DEF MessageFails, BookStates
<1>. QED
  BY <1>1, <1>2

\* What process() leaves of the book and the tracker when it reports no error.
LEMMA AcceptedEffect ==
    ASSUME NEW g \in DOMAIN sessions, NEW m \in Messages, MessageAccepted(g, m)
    PROVE  /\ sequence' = IF m.sequence = NoSequence \/ Outcome(m) \in Skipped
                          THEN sequence ELSE m.sequence
           /\ book' = IF Outcome(m) = "BookUpdated"
                      THEN [state |-> "Valid", last_sequence |-> m.sequence] ELSE book
<1>1. Outcome(m) \notin Errors
  BY DEF MessageAccepted
<1>2. book' = IF Outcome(m) = "BookUpdated"
              THEN [state |-> "Valid", last_sequence |-> m.sequence] ELSE book
  BY <1>1 DEF MessageAccepted, ProcessedBook
<1>3. ASSUME m.sequence # NoSequence
      PROVE  Observe(m.sequence) \notin {"First", "Expected"} <=> Outcome(m) \in Skipped
  <2>1. m.kind # "malformed" /\ Observe(m.sequence) # "Gap"
    BY <1>1, <1>3 DEF Outcome, Errors, Skipped
  <2>2. Observe(m.sequence) \in {"First", "Duplicate", "OutOfOrder", "Gap", "Expected"}
    BY DEF Observe
  <2>3. CASE Observe(m.sequence) \in Skipped
    BY <1>3, <2>1, <2>3 DEF Outcome, Skipped
  <2>4. CASE Observe(m.sequence) \notin Skipped
    <3>1. Outcome(m) \in {"Heartbeat", "HeartbeatThrows", "Ignored", "BeforeSnapshot",
                          "ApplyError", "EmptyL2", "BookUpdated"}
      BY <1>3, <2>1, <2>4 DEF Outcome, NotL2Outcome, OtherKinds
    <3>. QED
      BY <2>1, <2>2, <2>4, <3>1 DEF Skipped
  <2>. QED
    BY <2>3, <2>4, <2>2, <2>1 DEF Skipped
<1>. QED
  BY <1>2, <1>3 DEF MessageAccepted, ProcessedSequence

\* A message that is applied, skipped or ignored: the envelopes of a Valid book
\* stay an unbroken run that ends in the tracker's last sequence number.
LEMMA AcceptedMessageInv ==
    ASSUME Inv, NEW g \in DOMAIN sessions, NEW m \in Messages, MessageAccepted(g, m)
    PROVE  Inv'
<1>0. /\ ~stopping /\ ~recovery_pending /\ ~terminal /\ connected
      /\ Outcome(m) \notin Errors
      /\ UNCHANGED <<flags, counters, retries, sessions, client, ticks, disturbances>>
  BY CurrentIsLive DEF MessageAccepted
<1>1. /\ sequence \in Nat \cup {NoSequence} /\ admitted \subseteq Nat /\ BookOK
      /\ backoff \in InitialDelay .. MaxDelay /\ recovering \in BOOLEAN
  BY DEF Inv, TypeOK, FlagsOK, CountersOK
<1>2. /\ m.sequence \in Nat \cup {NoSequence}
      /\ Outcome(m) = "BookUpdated" =>
            m.sequence \in Nat /\ (book.state # "Valid" => m.kind = "snapshot")
      /\ m.sequence # NoSequence /\ sequence # NoSequence /\ Outcome(m) \notin Skipped =>
            m.sequence = sequence + 1
  BY <1>0, <1>1, AdmittedMessage
<1>3. /\ sequence' = IF m.sequence = NoSequence \/ Outcome(m) \in Skipped
                     THEN sequence ELSE m.sequence
      /\ book' = IF Outcome(m) = "BookUpdated"
                 THEN [state |-> "Valid", last_sequence |-> m.sequence] ELSE book
      /\ admitted' = IF FreshSnapshot(m) THEN {m.sequence}
                     ELSE IF book.state = "Valid" /\ sequence' # sequence
                          THEN admitted \cup {m.sequence} ELSE admitted
      /\ IF FreshSnapshot(m) THEN backoff' = InitialDelay /\ recovering' = FALSE
                             ELSE UNCHANGED policy
  BY AcceptedEffect DEF MessageAccepted
<1>4. FreshSnapshot(m) => Outcome(m) = "BookUpdated" /\ Outcome(m) \notin Skipped
  BY DEF FreshSnapshot, Skipped
<1>5. TypeOK'
  <2>1. BudgetOK'
    BY <1>0, StampedAgesType DEF MessageAccepted, Inv, TypeOK, BudgetOK
  <2>2. sequence' \in Nat \cup {NoSequence} /\ BookOK'
    BY <1>1, <1>2, <1>3 DEF BookOK, BookStates
  <2>3. admitted' \subseteq Nat
    BY <1>1, <1>2, <1>3, <1>4
  <2>4. backoff' \in InitialDelay .. MaxDelay /\ recovering' \in BOOLEAN
    <3>1. CASE FreshSnapshot(m)
      <4>1. backoff' = InitialDelay /\ recovering' = FALSE
        BY <1>3, <3>1
      <4>2. InitialDelay \in InitialDelay .. MaxDelay
        BY FeedAssumption
      <4>. QED
        BY <4>1, <4>2
    <3>2. CASE ~FreshSnapshot(m)
      BY <1>1, <1>3, <3>2 DEF policy
    <3>. QED
      BY <3>1, <3>2
  <2>. QED
    BY <1>0, <2>1, <2>2, <2>3, <2>4
    DEF Inv, TypeOK, FlagsOK, CountersOK, SessionsOK, flags, counters
<1>6. Control'
  BY <1>0 DEF Inv, Control, OneLiveSession, NeverStranded, TerminalIsSealed, Bookkeeping,
              flags, counters
<1>7. Data'
  <2>1. CASE FreshSnapshot(m)
    <3>1. /\ m.sequence \in Nat /\ sequence' = m.sequence /\ admitted' = {m.sequence}
          /\ book'.last_sequence = m.sequence
      BY <1>2, <1>3, <1>4, <2>1 DEF NoSequence
    <3>2. admitted' = m.sequence .. sequence'
      BY <3>1
    <3>. QED
      BY <1>0, <1>3, <2>1, <3>1, <3>2
      DEF Data, ValidIsSynchronised, ValidEndsRecovery, flags, NoSequence
  <2>2. CASE ~FreshSnapshot(m) /\ book'.state = "Valid"
    <3>1. book.state = "Valid"
      BY <1>2, <1>3, <2>2 DEF FreshSnapshot
    <3>2. PICK first \in admitted : admitted = first .. sequence /\ book.last_sequence \in admitted
      BY <3>1 DEF Inv, Data, ValidIsSynchronised
    <3>3. sequence \in Nat /\ sequence # NoSequence /\ first \in Nat /\ first <= sequence
      BY <1>1, <3>1, <3>2 DEF Inv, Data, ValidIsSynchronised
    <3>4. \/ sequence' = sequence /\ admitted' = admitted
          \/ sequence' = sequence + 1 /\ m.sequence = sequence' /\ admitted' = admitted \cup {sequence'}
      BY <1>2, <1>3, <2>2, <3>1, <3>3
    <3>5. admitted' = first .. sequence' /\ first \in admitted' /\ sequence' \in admitted'
      <4>1. sequence \in first .. sequence
        BY <3>3
      <4>2. first .. (sequence + 1) = (first .. sequence) \cup {sequence + 1}
        BY <3>3
      <4>. QED
        BY <3>2, <3>3, <3>4, <4>1, <4>2
    <3>6. Outcome(m) = "BookUpdated" => book'.last_sequence = sequence'
      BY <1>2, <1>3 DEF Skipped, NoSequence
    <3>7. book'.last_sequence \in admitted'
      BY <1>3, <3>2, <3>4, <3>5, <3>6
    <3>8. sequence' # NoSequence
      BY <3>3, <3>4 DEF NoSequence
    <3>9. backoff' = InitialDelay /\ ~recovering'
      BY <1>3, <2>2, <3>1 DEF Inv, Data, ValidEndsRecovery, policy
    <3>. QED
      BY <1>0, <3>5, <3>7, <3>8, <3>9
      DEF Data, ValidIsSynchronised, ValidEndsRecovery, flags
  <2>. QED
    BY <2>1, <2>2 DEF Data, ValidIsSynchronised, ValidEndsRecovery
<1>. QED
  BY <1>5, <1>6, <1>7 DEF Inv

-----------------------------------------------------------------------------
(***************************************************************************)
(* The invariant and what follows from it.                                 *)
(***************************************************************************)

\* Every step of the feed preserves the invariant.
LEMMA StepInv ==
    ASSUME Inv, [Next]_vars
    PROVE  Inv'
<1>1. CASE \E g \in DOMAIN sessions : SessionStep(g)
  BY <1>1, HousekeepingInv, CallbackInv, RefusedMessageInv, AcceptedMessageInv DEF SessionStep
<1>2. CASE UNCHANGED vars
  <2>1. TypeOK'
    BY <1>2 DEF Inv, TypeOK, FlagsOK, CountersOK, BookOK, SessionsOK, BudgetOK, vars, managerVars,
                flags, counters, policy
  <2>2. Control'
    BY <1>2 DEF Inv, Control, OneLiveSession, NeverStranded, TerminalIsSealed, Bookkeeping, vars,
                managerVars, flags, counters
  <2>3. Data'
    BY <1>2 DEF Inv, Data, ValidIsSynchronised, ValidEndsRecovery, vars, managerVars, flags, policy
  <2>. QED
    BY <2>1, <2>2, <2>3 DEF Inv
<1>. QED
  BY <1>1, <1>2, ManagerInv DEF Next

\* The invariant holds in every reachable state.
THEOREM FeedInvariant == Spec => []Inv
BY InitInv, StepInv, PTL DEF Spec

\* Types and bounds: in particular the reconnect delay never leaves its range.
THEOREM FeedTypes == Spec => []TypeOK
<1>1. Inv => TypeOK
  BY DEF Inv
<1>. QED
  BY <1>1, FeedInvariant, PTL

\* However late and in whatever order handlers run, at most one session is open
\* and it is the one the manager's guards let through.
THEOREM FeedOneLiveSession == Spec => []OneLiveSession
<1>1. Inv => OneLiveSession
  BY DEF Inv, Control
<1>. QED
  BY <1>1, FeedInvariant, PTL

\* A started manager never loses its last way to make progress.
THEOREM FeedNeverStranded == Spec => []NeverStranded
<1>1. Inv => NeverStranded
  BY DEF Inv, Control
<1>. QED
  BY <1>1, FeedInvariant, PTL

\* After a recording failure the feed is stopped, Invalid and closed.
THEOREM FeedTerminalIsSealed == Spec => []TerminalIsSealed
<1>1. Inv => TerminalIsSealed
  BY DEF Inv, Control
<1>. QED
  BY <1>1, FeedInvariant, PTL

\* A Valid book holds an unbroken run of the open connection's envelopes.
THEOREM FeedValidIsSynchronised == Spec => []ValidIsSynchronised
<1>1. Inv => ValidIsSynchronised
  BY DEF Inv, Data
<1>. QED
  BY <1>1, FeedInvariant, PTL

\* A Valid book has ended the recovery and reset the backoff.
THEOREM FeedValidEndsRecovery == Spec => []ValidEndsRecovery
<1>1. Inv => ValidEndsRecovery
  BY DEF Inv, Data
<1>. QED
  BY <1>1, FeedInvariant, PTL

-----------------------------------------------------------------------------
(***************************************************************************)
(* What a step may never do.                                               *)
(***************************************************************************)

\* After a terminal failure no entry point, timer or callback of the manager
\* has an effect on it: start() and stop() return early, no guard is passed.
THEOREM FeedTerminalIsFinal == Spec => TerminalIsFinal
<1>1. ASSUME Inv, Next, terminal
      PROVE  UNCHANGED <<flags, counters, book, sequence, policy, client>>
  <2>. USE DEF flags, counters, policy
  <2>0. /\ stopping /\ terminal = TRUE /\ book.state = "Invalid" /\ generation \notin retries
        /\ \A g : ~Current(g)
    BY <1>1 DEF Inv, TypeOK, FlagsOK, Control, TerminalIsSealed, Current
  <2>1. CASE Start \/ Stop \/ ForceDisconnect \/ Tick \/ CheckHealth
    BY <2>0, <2>1 DEF Start, Stop, ForceDisconnect, Tick, CheckHealth
  <2>2. CASE TerminalRecordingFailure
    <3>1. book' = book
      BY <1>1, <2>0, <2>2 DEF TerminalRecordingFailure, Transition, Inv, TypeOK, BookOK
    <3>. QED
      BY <2>0, <2>2, <3>1 DEF TerminalRecordingFailure
  <2>3. ASSUME NEW g \in retries, RetryFires(g)
        PROVE  UNCHANGED <<flags, counters, book, sequence, policy, client>>
    BY <2>0, <2>3 DEF RetryFires, managerVars
  <2>4. ASSUME NEW g \in DOMAIN sessions, SessionStep(g)
        PROVE  UNCHANGED <<flags, counters, book, sequence, policy, client>>
    <3>1. CASE HandshakeDone(g) \/ RequestDone(g) \/ AbortedCompletes(g) \/ UnwantedMessage(g)
      BY <3>1 DEF HandshakeDone, RequestDone, AbortedCompletes, UnwantedMessage, managerVars
    <3>2. CASE Subscribed(g)
      BY <2>0, <3>2 DEF Subscribed, managerVars
    <3>3. CASE OperationFails(g) \/ CloseCompletes(g)
      BY <2>0, <3>3 DEF OperationFails, CloseCompletes, ErrorCallback
    <3>. QED
      BY <2>0, <2>4, <3>1, <3>2, <3>3
      DEF SessionStep, MessageNotRecorded, MessageFails, MessageAccepted
  <2>. QED
    BY <1>1, <2>1, <2>2, <2>3, <2>4 DEF Next
<1>2. Inv /\ [Next]_vars => [terminal => UNCHANGED <<flags, counters, book, sequence, policy, client>>]_vars
  BY <1>1
<1>. QED
  BY <1>2, FeedInvariant, PTL DEF Spec, TerminalIsFinal

\* How a step may change the book and the backoff: it leaves both, it is an
\* accepted message, or it leaves the book other than Valid and the delay no
\* shorter.
LEMMA BookAndBackoffSteps ==
    ASSUME Inv, Next
    PROVE  \/ UNCHANGED <<book, backoff>>
           \/ book'.state # "Valid" /\ backoff' >= backoff
           \/ \E g \in DOMAIN sessions, m \in Messages : MessageAccepted(g, m)
<1>. DEFINE Cooled == book'.state # "Valid" /\ backoff' >= backoff
<1>0. backoff \in Int /\ backoff >= backoff /\ NextDelay(backoff) >= backoff
  BY FeedAssumption DEF Inv, TypeOK, NextDelay
<1>1. ASSUME NEW state \in BookStates \ {"Valid"}, Transition(state) PROVE book'.state # "Valid"
  BY <1>1, TransitionType DEF Inv, TypeOK
<1>2. ASSUME NEW state \in BookStates \ {"Valid"}, NEW all, Recover(state, all) PROVE Cooled
  BY <1>0, <1>1, <1>2 DEF Recover
<1>3. ASSUME NEW state \in BookStates \ {"Valid"}, NEW all, StopThen(state, all) PROVE Cooled
  BY <1>0, <1>1, <1>3 DEF StopThen, policy
<1>4. ASSUME NEW rest, BeginConnection(rest) PROVE Cooled
  <2>1. CASE AttemptOpens(rest)
    BY <1>0, <1>1, <2>1 DEF AttemptOpens, policy, BookStates
  <2>2. CASE AttemptFails(rest)
    BY <1>0, <1>1, <2>2 DEF AttemptFails, BookStates
  <2>. QED
    BY <1>4, <2>1, <2>2 DEF BeginConnection
<1>5. CASE Start \/ Stop \/ ForceDisconnect \/ CheckHealth
  BY <1>2, <1>3, <1>4, <1>5 DEF Start, Stop, ForceDisconnect, CheckHealth, BookStates
<1>6. CASE Tick
  BY <1>6 DEF Tick, policy
<1>7. CASE TerminalRecordingFailure
  BY <1>0, <1>1, <1>3, <1>7 DEF TerminalRecordingFailure, BookStates, policy
<1>8. CASE \E g \in retries : RetryFires(g)
  BY <1>4, <1>8 DEF RetryFires, managerVars, policy
<1>9. ASSUME NEW g \in DOMAIN sessions, SessionStep(g)
      PROVE  Cooled \/ UNCHANGED <<book, backoff>> \/ \E m \in Messages : MessageAccepted(g, m)
  <2>1. CASE HandshakeDone(g) \/ RequestDone(g) \/ AbortedCompletes(g) \/ UnwantedMessage(g)
    BY <2>1 DEF HandshakeDone, RequestDone, AbortedCompletes, UnwantedMessage, managerVars, policy
  <2>2. CASE Subscribed(g)
    BY <1>0, <1>1, <2>2 DEF Subscribed, managerVars, policy, BookStates
  <2>3. CASE OperationFails(g) \/ CloseCompletes(g)
    BY <1>2, <2>3 DEF OperationFails, CloseCompletes, ErrorCallback, policy, BookStates
  <2>4. CASE MessageNotRecorded(g)
    BY <1>3, <2>4 DEF MessageNotRecorded, BookStates
  <2>5. CASE \E m \in Messages : MessageFails(g, m)
    BY <1>2, <2>5 DEF MessageFails, BookStates
  <2>. QED
    BY <1>9, <2>1, <2>2, <2>3, <2>4, <2>5 DEF SessionStep
<1>. QED
  BY <1>5, <1>6, <1>7, <1>8, <1>9 DEF Next

\* Only a fresh snapshot shortens the reconnect delay.
THEOREM FeedBackoffShrinksOnlyOnResync == Spec => BackoffShrinksOnlyOnResync
<1>1. ASSUME Inv, Next, backoff' < backoff
      PROVE  book.state # "Valid" /\ book'.state = "Valid"
  <2>0. backoff \in Int
    BY <1>1, FeedAssumption DEF Inv, TypeOK
  <2>1. ~(backoff' >= backoff) /\ backoff' # backoff
    BY <1>1, <2>0, StepInv, FeedAssumption DEF Inv, TypeOK
  <2>2. PICK g \in DOMAIN sessions, m \in Messages : MessageAccepted(g, m)
    BY <1>1, <2>1, BookAndBackoffSteps
  <2>3. FreshSnapshot(m)
    BY <2>1, <2>2 DEF MessageAccepted, policy
  <2>. QED
    BY <2>2, <2>3, AcceptedEffect DEF FreshSnapshot
<1>2. Inv /\ [Next]_vars =>
          [backoff' < backoff => book.state # "Valid" /\ book'.state = "Valid"]_vars
  BY <1>1
<1>. QED
  BY <1>2, FeedInvariant, PTL DEF Spec, BackoffShrinksOnlyOnResync

\* A book that stays Valid never takes an older envelope.
THEOREM FeedBookNeverRewinds == Spec => BookNeverRewinds
<1>1. ASSUME Inv, Next, book.state = "Valid", book'.state = "Valid"
      PROVE  book'.last_sequence >= book.last_sequence
  <2>0. /\ sequence \in Nat /\ sequence # NoSequence
        /\ book.last_sequence \in Nat /\ book.last_sequence <= sequence
    <3>1. PICK first \in admitted : admitted = first .. sequence /\ book.last_sequence \in admitted
      BY <1>1 DEF Inv, Data, ValidIsSynchronised
    <3>. QED
      BY <1>1, <3>1 DEF Inv, TypeOK, CountersOK, Data, ValidIsSynchronised
  <2>1. CASE book' = book
    BY <2>0, <2>1
  <2>2. ASSUME NEW g \in DOMAIN sessions, NEW m \in Messages, MessageAccepted(g, m), book' # book
        PROVE  book'.last_sequence >= book.last_sequence
    <3>1. /\ Outcome(m) = "BookUpdated" /\ Outcome(m) \notin Errors
          /\ book' = [state |-> "Valid", last_sequence |-> m.sequence]
      BY <2>2, AcceptedEffect DEF MessageAccepted
    <3>2. m.sequence = sequence + 1
      BY <2>0, <3>1, AdmittedMessage DEF Skipped, NoSequence
    <3>. QED
      BY <2>0, <3>1, <3>2
  <2>. QED
    BY <1>1, <2>1, <2>2, BookAndBackoffSteps
<1>2. Inv /\ [Next]_vars =>
          [book.state = "Valid" /\ book'.state = "Valid" =>
               book'.last_sequence >= book.last_sequence]_vars
  BY <1>1
<1>. QED
  BY <1>2, FeedInvariant, PTL DEF Spec, BookNeverRewinds

\* Every session but g is as it was.
OthersKept(g) == \A h \in DOMAIN sessions \ {g} : h \in DOMAIN sessions' /\ sessions'[h] = sessions[h]

\* No completion of an abandoned session passes the generation guard: it changes
\* that session alone.
LEMMA AbandonedStepIsInert ==
    ASSUME Inv, NEW g \in DOMAIN sessions, sessions[g].stopping, SessionStep(g)
    PROVE  UNCHANGED <<managerVars, retries>> /\ OthersKept(g)
<1>0. ~Current(g)
  BY CurrentIsLive
<1>1. ASSUME sessions' = sessions \/ sessions' = Without(g) \/ \E s : sessions' = With(g, s)
      PROVE  OthersKept(g)
  BY <1>1 DEF OthersKept, Without, With
<1>2. CASE OperationFails(g) \/ CloseCompletes(g)
  BY <1>0, <1>1, <1>2 DEF OperationFails, CloseCompletes, ErrorCallback, managerVars
<1>3. CASE HandshakeDone(g) \/ RequestDone(g) \/ AbortedCompletes(g) \/ UnwantedMessage(g)
  BY <1>1, <1>3 DEF HandshakeDone, RequestDone, AbortedCompletes, UnwantedMessage, ClosedByReader
<1>4. CASE Subscribed(g)
  BY <1>0, <1>1, <1>4 DEF Subscribed
<1>. QED
  BY <1>0, <1>2, <1>3, <1>4 DEF SessionStep, MessageNotRecorded, MessageFails, MessageAccepted

\* A late callback of an abandoned session, a late message included, reaches
\* neither the manager nor its retries nor another session, also with a transport
\* that reports after abort().
THEOREM FeedLateCompletionsAreInert == Spec => LateCompletionsAreInert
<1>1. Inv => [\A g \in DOMAIN sessions :
                  sessions[g].stopping => ReachesNoOther(g) \/ ~SessionStep(g)]_vars
  BY AbandonedStepIsInert DEF OthersKept, ReachesNoOther
<1>. QED
  BY <1>1, FeedInvariant, PTL DEF LateCompletionsAreInert

\* A retry that was cancelled after its timer expired, or overtaken by a later
\* one, changes nothing when its callback runs.
THEOREM FeedStaleRetriesAreInert == Spec => StaleRetriesAreInert
<1>1. ASSUME Inv, NEW g \in retries, RetryFires(g), Stale(g)
      PROVE  UNCHANGED <<managerVars, sessions, ticks, disturbances>>
  <2>1. stopping \/ g # generation
    BY <1>1 DEF Stale, Inv, Control, Bookkeeping, TypeOK, CountersOK
  <2>. QED
    BY <1>1, <2>1 DEF RetryFires
<1>2. Inv => [\A g \in retries :
                  RetryFires(g) /\ Stale(g) =>
                      UNCHANGED <<managerVars, sessions, ticks, disturbances>>]_vars
  BY <1>1
<1>. QED
  BY <1>2, FeedInvariant, PTL DEF StaleRetriesAreInert

\* Neither a late completion of an abandoned session nor a stale retry changes the
\* manager.
THEOREM FeedAbandonedAreInert == Spec => AbandonedAreInert
  BY FeedLateCompletionsAreInert, FeedStaleRetriesAreInert DEF AbandonedAreInert

-----------------------------------------------------------------------------
(***************************************************************************)
(* CoinbaseFeed implements CoinbaseManager.                                *)
(***************************************************************************)

\* stop() forgets the sequence; nothing is observed until the next start().
StoppedForgets == stopping => sequence = NoSequence

\* The manager's variables, which the refinement maps to themselves.
visible == <<stopping, terminal, recovery_pending, connected, connection_id, book, sequence>>

\* The instance computes with the same processor.
LEMMA SameProcessor ==
    /\ Manager!Messages = Messages /\ Manager!Errors = Errors /\ Manager!NoSequence = NoSequence
    /\ \A m \in Messages : /\ Manager!Outcome(m) = Outcome(m)
                           /\ Manager!ProcessedBook(m) = ProcessedBook(m)
                           /\ Manager!ProcessedSequence(m) = ProcessedSequence(m)
<1>1. /\ Manager!Messages = Messages /\ Manager!Errors = Errors /\ Manager!NoSequence = NoSequence
  BY DEF Manager!Messages, Messages, Manager!Errors, Errors, Manager!NoSequence, NoSequence,
         Manager!L2Kinds, L2Kinds, Manager!OtherKinds, OtherKinds
<1>2. \A n : Manager!Observe(n) = Observe(n)
  BY DEF Manager!Observe, Observe, Manager!NoSequence, NoSequence
<1>3. Manager!Skipped = Skipped /\ Manager!OtherKinds = OtherKinds /\ Manager!NotL2Outcome = NotL2Outcome
  BY DEF Manager!Skipped, Skipped, Manager!OtherKinds, OtherKinds, Manager!NotL2Outcome, NotL2Outcome
<1>4. \A m : Manager!Outcome(m) = Outcome(m)
  BY <1>1, <1>2, <1>3 DEF Manager!Outcome, Outcome
<1>5. \A m : Manager!ProcessedBook(m) = ProcessedBook(m)
  BY <1>1, <1>4 DEF Manager!ProcessedBook, ProcessedBook
<1>6. \A m : Manager!ProcessedSequence(m) = ProcessedSequence(m)
  BY <1>1, <1>2 DEF Manager!ProcessedSequence, ProcessedSequence
<1>. QED
  BY <1>1, <1>4, <1>5, <1>6

\* Only a connection of a running manager observes sequence numbers.
LEMMA StoppedForgetsStep == Inv /\ StoppedForgets /\ [Next]_vars => StoppedForgets'
<1>. SUFFICES ASSUME Inv, StoppedForgets, [Next]_vars, stopping' PROVE sequence' = NoSequence
  BY DEF StoppedForgets
<1>1. CASE sequence' = NoSequence \/ (stopping /\ sequence' = sequence)
  BY <1>1 DEF StoppedForgets
<1>2. CASE UNCHANGED <<stopping, sequence>>
  BY <1>1, <1>2
<1>3. ASSUME NEW rest, BeginConnection(rest) PROVE sequence' = NoSequence
  BY <1>3 DEF BeginConnection
<1>4. ASSUME NEW state, NEW all, Recover(state, all) \/ StopThen(state, all) PROVE sequence' = NoSequence
  BY <1>4 DEF Recover, StopThen
<1>5. CASE UNCHANGED vars \/ Tick
  BY <1>2, <1>5 DEF vars, managerVars, flags, Tick
<1>6. CASE Start \/ Stop \/ TerminalRecordingFailure \/ ForceDisconnect \/ CheckHealth
  BY <1>2, <1>3, <1>4, <1>6 DEF Start, Stop, TerminalRecordingFailure, ForceDisconnect, CheckHealth
<1>7. CASE \E g \in retries : RetryFires(g)
  BY <1>2, <1>3, <1>7 DEF RetryFires, managerVars, flags
<1>8. ASSUME NEW g \in DOMAIN sessions, SessionStep(g) PROVE sequence' = NoSequence
  <2>1. CASE HandshakeDone(g) \/ RequestDone(g) \/ AbortedCompletes(g) \/ UnwantedMessage(g)
    BY <1>2, <2>1 DEF HandshakeDone, RequestDone, AbortedCompletes, UnwantedMessage, managerVars, flags
  <2>2. CASE Subscribed(g)
    BY <1>2, <2>2 DEF Subscribed, managerVars, flags
  <2>3. CASE OperationFails(g) \/ CloseCompletes(g)
    BY <1>2, <1>4, <2>3 DEF OperationFails, CloseCompletes, ErrorCallback, flags
  <2>4. CASE MessageNotRecorded(g) \/ \E m \in Messages : MessageFails(g, m)
    BY <1>4, <2>4 DEF MessageNotRecorded, MessageFails
  <2>5. ASSUME NEW m \in Messages, MessageAccepted(g, m) PROVE FALSE
    BY <2>5 DEF MessageAccepted, Current, flags
  <2>. QED
    BY <1>8, <2>1, <2>2, <2>3, <2>4, <2>5 DEF SessionStep
<1>. QED
  BY <1>5, <1>6, <1>7, <1>8 DEF Next

\* recover() is the manager's failure of the current connection.
LEMMA RecoverIsFail ==
    ASSUME ~stopping, ~recovery_pending, NEW state \in {"Disconnected", "Stale"},
           state = "Stale" => connected, NEW all, Recover(state, all)
    PROVE  Manager!Next
<1>1. Manager!Fail(state)
  BY SameProcessor DEF Recover, Transition, Manager!Fail, Manager!Offline
<1>. QED
  BY <1>1 DEF Manager!Next

\* begin_connection() is the manager's next attempt.
LEMMA BeginIsAttempt ==
    ASSUME NEW rest, BeginConnection(rest)
    PROVE  \E state \in Manager!AttemptStates : Manager!Attempt(state)
<1>. USE SameProcessor DEF BeginConnection, Transition, Manager!Attempt, Manager!Offline, Manager!AttemptStates
<1>1. CASE AttemptOpens(rest)
  <2>1. Manager!Attempt("Resyncing")
    BY <1>1 DEF AttemptOpens
  <2>. QED
    BY <2>1
<1>2. CASE AttemptFails(rest)
  <2>1. Manager!Attempt("Disconnected")
    BY <1>2 DEF AttemptFails
  <2>. QED
    BY <2>1
<1>. QED
  BY <1>1, <1>2

\* The stop that follows a refused message is the manager's terminal failure.
LEMMA StopIsTerminal ==
    ASSUME terminal' = TRUE, NEW all, StopThen("Invalid", all)
    PROVE  Manager!Next
  BY SameProcessor DEF StopThen, Transition, Manager!Next, Manager!TerminalRecordingFailure, Manager!Offline

\* A step of the feed is a step of the manager or changes nothing it shows.
LEMMA StepRefines ==
    ASSUME Inv, StoppedForgets, Next
    PROVE  Manager!Next \/ UNCHANGED visible
<1>. USE DEF visible, flags, counters, managerVars
<1>1. CASE Start
  <2>1. PICK state \in Manager!AttemptStates : Manager!Attempt(state)
    BY <1>1, BeginIsAttempt DEF Start
  <2>2. Manager!Start(state)
    BY <1>1, <2>1 DEF Start, Manager!Start
  <2>. QED
    BY <2>2 DEF Manager!Next
<1>2. CASE Stop
  <2>1. Manager!Stop
    BY <1>2, SameProcessor DEF Stop, StopThen, Transition, Manager!Stop, Manager!Offline
  <2>. QED
    BY <2>1 DEF Manager!Next
<1>3. CASE TerminalRecordingFailure
  <2>1. CASE ~stopping /\ StopThen("Invalid", sessions)
    BY <1>3, <2>1, StopIsTerminal DEF TerminalRecordingFailure
  <2>2. CASE stopping /\ Transition("Invalid") /\ UNCHANGED <<stopping, recovery_pending, connected, counters, sequence>>
    <3>1. stopping = TRUE /\ recovery_pending = FALSE /\ connected = FALSE
      BY <2>2 DEF Inv, TypeOK, FlagsOK, Control, Bookkeeping
    <3>2. Manager!TerminalRecordingFailure
      BY <1>3, <2>2, <3>1, SameProcessor
      DEF TerminalRecordingFailure, Transition, StoppedForgets, Manager!TerminalRecordingFailure, Manager!Offline
    <3>. QED
      BY <3>2 DEF Manager!Next
  <2>. QED
    BY <1>3, <2>1, <2>2 DEF TerminalRecordingFailure
<1>4. CASE ForceDisconnect
  BY <1>4, RecoverIsFail DEF ForceDisconnect
<1>5. CASE CheckHealth
  BY <1>5, RecoverIsFail DEF CheckHealth
<1>6. CASE Tick
  BY <1>6 DEF Tick
<1>7. ASSUME NEW g \in retries, RetryFires(g) PROVE Manager!Next \/ UNCHANGED visible
  <2>1. CASE ~stopping /\ g = generation /\ BeginConnection(retries \ {g}) /\ UNCHANGED stopping
    <3>1. PICK state \in Manager!AttemptStates : Manager!Attempt(state)
      BY <2>1, BeginIsAttempt
    <3>2. Manager!Retry(state)
      BY <1>7, <2>1, <3>1 DEF Manager!Retry, Inv, Control, Bookkeeping
    <3>. QED
      BY <3>2 DEF Manager!Next
  <2>. QED
    BY <1>7, <2>1 DEF RetryFires
<1>8. ASSUME NEW g \in DOMAIN sessions, SessionStep(g) PROVE Manager!Next \/ UNCHANGED visible
  <2>1. CASE HandshakeDone(g) \/ RequestDone(g) \/ AbortedCompletes(g) \/ UnwantedMessage(g)
    BY <2>1 DEF HandshakeDone, RequestDone, AbortedCompletes, UnwantedMessage
  <2>2. CASE Subscribed(g)
    <3>1. CASE Current(g) /\ ~connected
      <4>1. Manager!Connect
        BY <2>2, <3>1, CurrentIsLive, SameProcessor DEF Subscribed, Transition, Manager!Connect
      <4>. QED
        BY <4>1 DEF Manager!Next
    <3>. QED
      BY <2>2, <3>1 DEF Subscribed
  <2>3. CASE OperationFails(g) \/ CloseCompletes(g)
    BY <2>3, RecoverIsFail DEF OperationFails, CloseCompletes, ErrorCallback, Current
  <2>4. CASE MessageNotRecorded(g)
    BY <2>4, StopIsTerminal DEF MessageNotRecorded
  <2>5. ASSUME NEW m \in Messages, MessageFails(g, m) \/ MessageAccepted(g, m) PROVE Manager!Message(m)
    BY <2>5, SameProcessor
    DEF MessageFails, MessageAccepted, Recover, Transition, Manager!Message, Manager!Offline
  <2>6. CASE \E m \in Messages : MessageFails(g, m) \/ MessageAccepted(g, m)
    BY <2>5, <2>6, SameProcessor DEF Manager!Next
  <2>. QED
    BY <1>8, <2>1, <2>2, <2>3, <2>4, <2>6 DEF SessionStep
<1>. QED
  BY <1>1, <1>2, <1>3, <1>4, <1>5, <1>6, <1>7, <1>8 DEF Next

\* Whatever abandoned sessions and old timers still do, the runtime sees a
\* succession of connections, each opened by its own attempt (RefinesManager).
THEOREM FeedRefinesManager == Spec => RefinesManager
<1>1. Init => Manager!Init /\ StoppedForgets
  BY SameProcessor DEF Init, Manager!Init, StoppedForgets
<1>2. Inv /\ StoppedForgets /\ [Next]_vars => [Manager!Next]_Manager!vars
  <2>1. UNCHANGED vars \/ UNCHANGED visible => UNCHANGED Manager!vars
    BY DEF vars, managerVars, flags, counters, visible, Manager!vars
  <2>. QED
    BY <2>1, StepRefines
<1>. QED
  BY <1>1, <1>2, FeedInvariant, StoppedForgetsStep, PTL DEF Spec, RefinesManager, Manager!Spec
=============================================================================

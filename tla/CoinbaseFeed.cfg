CONSTANTS
    Requests = 2
    ConnectTimeout = 0
    MaxAnyMessageAge = 0
    MaxHeartbeatAge = 0
    MaxInstrumentAge = 0
    InitialDelay = 1
    MaxDelay = 3
    LateCallbacks = TRUE
    MaxSequence = 2
    MaxTicks = 1
    MaxDisturbances = 2
SPECIFICATION Spec
INVARIANTS TypeOK ValidIsSynchronised OneLiveSession NeverStranded
PROPERTIES AbandonedAreInert BackoffShrinksOnlyOnResync RefinesManager

CONSTANTS
    Requests = 2
    ConnectTimeout = 1
    MaxAnyMessageAge = 2
    MaxHeartbeatAge = 2
    MaxInstrumentAge = 1
    InitialDelay = 1
    MaxDelay = 3
    LateCallbacks = FALSE
    MaxSequence = 2
    MaxTicks = 3
    MaxDisturbances = 1
SPECIFICATION TimerSpec
PROPERTIES SilenceIsNoticed SelfHeals

CONSTANTS
    Requests = 1
    MaxNoise = 2
    MaxDisturbances = 2
SPECIFICATION TimerSpec
INVARIANTS ValidIsCurrent NeverStranded ReplayAgrees
PROPERTIES StoppedIsFinal TimeoutIsNoticed SelfHeals

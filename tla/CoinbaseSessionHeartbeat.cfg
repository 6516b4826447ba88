CONSTANTS
    MaxSequence = 3
    Wire <- MCWire
    MaxRecords = 2
    MaxLifecycle = 6
SPECIFICATION SessionSpec
INVARIANT CompleteCaptureReplays

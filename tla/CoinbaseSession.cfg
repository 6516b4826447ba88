CONSTANTS
    MaxSequence = 3
    Wire <- MCWire
    MaxRecords = 3
    MaxLifecycle = 8
SPECIFICATION SessionSpec
INVARIANTS LogDeterminesBook PrefixReplayMatches LegacyReplayMatches FinalizedReplays

CONSTANTS
    Resting <- MCResting
    Depth = 2
    ChecksumDepth = 1
    MaxMoves = 2
SPECIFICATION Spec
INVARIANT ValidIsSound
PROPERTIES OnlySnapshotRevives CheckedTopAgrees

CONSTANTS
    Events <- MCEvents
    MaxEvents = 2
SPECIFICATION Spec
INVARIANTS TypeOK SpanIsSequential SnapshotForgets

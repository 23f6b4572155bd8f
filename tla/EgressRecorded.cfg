SPECIFICATION RepeatSpec
CONSTANTS
    Node = {a, b}
    NoNode = NoNode
    NoRecord = NoRecord
    Cap = 2
    QueueDepth = 2
    LogCapacity = 8
    SnapshotThreshold = 8
    HistorySize = 3
    MaxBatches = 3
    MaxElections = 2
    MaxCrashes = 0
SYMMETRY Symmetry
VIEW Uplinks
INVARIANTS RecordedOnce
CHECK_DEADLOCK FALSE

SPECIFICATION Spec
CONSTANTS
    Node = {a, b}
    NoNode = NoNode
    NoRecord = NoRecord
    Cap = 2
    QueueDepth = 1
    LogCapacity = 6
    SnapshotThreshold = 3
    HistorySize = 3
    MaxBatches = 2
    MaxElections = 2
    MaxCrashes = 1
SYMMETRY Symmetry
INVARIANTS NumberIdentifiesBatch
CHECK_DEADLOCK FALSE

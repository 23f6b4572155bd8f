SPECIFICATION Spec
CONSTANTS
    Node = {a, b}
    NoNode = NoNode
    NoRecord = NoRecord
    Cap = 2
    QueueDepth = 1
    LogCapacity = 5
    SnapshotThreshold = 3
    HistorySize = 3
    MaxBatches = 2
    MaxElections = 2
    MaxCrashes = 1
SYMMETRY Symmetry
VIEW FogNodes
INVARIANTS TrackersAgree StartedNumbersUnique AppliedIsDispatched
CHECK_DEADLOCK FALSE

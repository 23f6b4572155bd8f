SPECIFICATION ElectionSpec
CONSTANTS
    n1 = n1
    n2 = n2
    n3 = n3
    Server = {n1, n2, n3}
    BAD_NODE = BAD_NODE
    ZERO_NODE = ZERO_NODE
    Value = {v}
    NOOP = NOOP
    LogCapacity = 4
    MaxAppendEntries = 4
    SnapshotThreshold = 2
    SnapshotChunks = 2
    MaxInFlight = 2
    MaxTerm = 2
    MaxIndex = 3
    MaxTimeouts = 3
    MaxHeartbeats = 3
    MaxRestarts = 1
SYMMETRY Symmetry
VIEW WithoutAcks
INVARIANTS LeaderFlagAgrees ElectionInv ElectionSafety
PROPERTIES VoteIsStable
CHECK_DEADLOCK FALSE

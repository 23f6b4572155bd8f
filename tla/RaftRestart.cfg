SPECIFICATION RestartSpec
CONSTANTS
    n1 = n1
    n2 = n2
    n3 = n3
    Server = {n1, n2, n3}
    BAD_NODE = BAD_NODE
    ZERO_NODE = ZERO_NODE
    Value = {v}
    NOOP = NOOP
    LogCapacity = 4
    MaxAppendEntries = 4
    SnapshotThreshold = 4
    SnapshotChunks = 0
    MaxInFlight = 2
    MaxTerm = 2
    MaxIndex = 2
    MaxTimeouts = 2
    MaxHeartbeats = 2
    MaxRestarts = 1
VIEW WithoutAcks
INVARIANTS StateMachineSafety
CHECK_DEADLOCK FALSE

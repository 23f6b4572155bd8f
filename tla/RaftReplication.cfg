SPECIFICATION ReplicationSpec
CONSTANTS
    n1 = n1
    n2 = n2
    n3 = n3
    Server = {n1, n2, n3}
    BAD_NODE = BAD_NODE
    ZERO_NODE = ZERO_NODE
    Value = {v}
    NOOP = NOOP
    LogCapacity = 4
    MaxAppendEntries = 2
    SnapshotThreshold = 2
    SnapshotChunks = 0
    MaxInFlight = 2
    MaxTerm = 4
    MaxIndex = 3
    MaxTimeouts = 7
    MaxHeartbeats = 2
    MaxRestarts = 0
VIEW WithoutAcks
INVARIANTS TypeOK LogMatching StateMachineSafety LeaderCompleteness MatchIndexIsReplicated AppliedInOrder CommittedAgree
PROPERTIES CommittedIsStable
CHECK_DEADLOCK FALSE

SPECIFICATION Spec
CONSTANTS
    Payload = {p1, p2}
    NoPayload = NoPayload
    QueueDepth = 1
    SetupCommands = 2
    MinDelay = 500
    MaxDelay = 900
    MaxAttempt = 1
    MaxResets = 1
    MayStop = FALSE
INVARIANTS AcceptedIsKept
CHECK_DEADLOCK FALSE

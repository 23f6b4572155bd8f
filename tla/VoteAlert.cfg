SPECIFICATION Spec
CONSTANTS
    Sensor = {s1, s2, s3, s4}
    Faulty = {s4}
    Level = {0, 1, 2, 3, 4, 5}
    Noise = 1
    MaxSensors = 3
    MinReporters = 3
    Tolerance = 2
    Threshold = 4
    ClearWindows = 3
    Penalty = 2
    Recovery = 1
    ExcludeBelow = 2
    ReadmitAt = 4
    Initial = 5
    MinReputation = 1
    MaxReputation = 5
SYMMETRY Symmetry
INVARIANTS FloodKeepsAlert AlertIsJustified CorrectKeepReputation

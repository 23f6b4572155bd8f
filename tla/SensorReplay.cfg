SPECIFICATION Spec
CONSTANTS
    Sensor = {s1, s2}
    Fog = {f1, f2}
    MaxSensors = 1
    SeqStep = 2
    MaxReadings = 5
    MaxAccepted = 2
    MaxRestarts = 2
SYMMETRY Symmetry
INVARIANTS AcceptedOnce
CHECK_DEADLOCK FALSE

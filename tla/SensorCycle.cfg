SPECIFICATION FairSpec
CONSTANTS
    Warmup = 1
    Timeout = 2
    SleepTicks = 5
    AlertTicks = 4
    Pulse = {1160, 5800, 17400}
    Ground = 2000
INVARIANTS NeverSpins OneReadingPerTrigger SentIsMeasured SleepsUntilDue
PROPERTIES KeepsReading

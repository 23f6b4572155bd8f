SPECIFICATION Spec
CONSTANTS
    Fog = {a, b}
    Edge = {e}
    Normal = 2
    ClearWindows = 2
    MaxBatches = 3
    MaxFaults = 1
SYMMETRY Symmetry
INVARIANTS WindowIsArmed AlertIsCommitted LeaderKeepsItsWindow AlertWindowIsPrompt ClearedAfterCleanWindows

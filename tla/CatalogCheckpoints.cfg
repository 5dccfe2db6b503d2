SPECIFICATION FairSpec
CONSTANTS
    Cycle = {c1, c2}
    Starter = {s1}
    None = None
    Source <- AllSources
    TicksPerDay = 2
    ExpiryTicks = 1
    MaxClock = 2
    FaultKinds = {"crash", "duplicate_alarm"}
    MaxFaults = 1
INVARIANTS
    CheckpointsAgree
    NoLostWakeup
CHECK_DEADLOCK FALSE
PROPERTIES
    CycleEnds

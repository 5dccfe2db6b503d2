SPECIFICATION Spec
CONSTANTS
    Cycle = {c1, c2}
    Starter = {s1, s2}
    None = None
    Source <- OneSource
    TicksPerDay = 2
    ExpiryTicks = 1
    MaxClock = 3
    FaultKinds = {"crash", "io_error", "duplicate_alarm"}
    MaxFaults = 2
SYMMETRY CycleAndStarterSymmetry
INVARIANTS
    TypeOK
    PublishedWasServed
    RequestsBounded
    BaselineHolds
PROPERTIES
    KeepsProtocol
CHECK_DEADLOCK FALSE

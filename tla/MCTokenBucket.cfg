SPECIFICATION FairSpec
CONSTANTS
    c1 = c1
    c2 = c2
    Callers <- MCCallers
    Capacity = 2
    Interval = 2
    Cooldown = 3
    Horizon = 8
    MaxDrains = 2
INVARIANTS
    TypeOK
    BreakerHolds
    DrainEmpties
    NeverOversleeps
PROPERTIES
    ImplementsRateLimit
    EveryWaiterServed
CHECK_DEADLOCK FALSE

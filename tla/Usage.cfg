SPECIFICATION Spec
CONSTANTS
    Ticket = {t1, t2}
    TicksPerSecond = 2
    SecondsPerMinute = 1
    MinutesPerDay = 3
    Policies <- MCPolicies
    Horizon = 8
    MaxFaults = 1
    None = None
SYMMETRY Symmetry
CHECK_DEADLOCK FALSE
INVARIANTS
    WindowIsCyclic
    LimitIsReal
    AllowanceKept
    UsageInv

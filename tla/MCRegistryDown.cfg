SPECIFICATION DownSpec
CONSTANTS
    Callers = {c1}
    Roots = {r1, r2}
    NoRoot = NoRoot
    Names <- DownNames
    Services <- DownServices
    Texts <- DownTexts
    MaxCalls = 3
    MaxEdits = 0
    Allocators = {c1, c2}
    PinStacks = {s1, s2}
    PortServices = {"a", "b"}
    Requests <- MCRequests
    PortRange <- MCRange
    Canonical <- MCCanonical
    MaxAttempts = 2
    MaxRuns = 3
    MaxOthers = 2
PROPERTIES
    DownSparesData
CHECK_DEADLOCK FALSE

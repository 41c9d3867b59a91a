SPECIFICATION MCSpec
CONSTANTS
    Callers = {c1, c2}
    Roots = {r1, r2}
    NoRoot = NoRoot
    Names <- MCNames
    Services <- MCServices
    Texts <- MCTexts
    MaxCalls = 3
    MaxEdits = 1
    Allocators = {c1, c2}
    PinStacks = {s1, s2}
    PortServices = {"a", "b"}
    Requests <- MCRequests
    PortRange <- MCRange
    Canonical <- MCCanonical
    MaxAttempts = 2
    MaxRuns = 3
    MaxOthers = 2
INVARIANTS
  NamesHeld
PROPERTIES
  TakeoverJustified
  PinsHold
CHECK_DEADLOCK FALSE
SYMMETRY Symmetry

SPECIFICATION MCSpec
CONSTANTS
    MaxJobs = 3
    Projects = {p1}
    Clients = {c1}
    NoProject = NoProject
    Capacity = 1
    Retention = 0
    MaxEvents = 1
    MaxSteps = 1
    MaxTime = 1
INVARIANTS
  LaneExclusive
  StreamComplete
PROPERTIES
  LaneImplemented
  EverySettles

CONSTANTS
  Machines <- MCMachines
  Shared <- MCShared
  Requests <- MCRequests
  MaxRuns = 1
  MaxClicks = 2
  MaxOutside = 1
  Process = {1, 2, 3}
  Stack = {"a", "b"}
  PinnedPort = {1, 2}
  Service = {"db", "web"}
  NoBackup = NoBackup
  Nobody = Nobody
  NoFile = NoFile
  Foreign = Foreign
  LockAttempts = 3
  LegacyProjects = {"a"}
  LegacyPins <- MCLegacyPins
  Ports = 2
  Kills = 1
  RunnerLines = 1
  HelperLines = 1
  MaxStreams = 2
  MaxPrinted = 1
  MaxFaults = 1
  Tabs = {t1, t2}
  Ids = {i1, i2}
  Catalog_ <- MCCatalog
  Entries <- MCEntries
  Absent = Absent
  MaxRequests = 3
  MaxSurprises = 1
SPECIFICATION MCSpec
INVARIANTS
  OnlyAsAgreed
  Heals
  HostObeyed
  PinsWrittenWhole
  CleanAfterStop
  VolumesSafe
  RemovalTold
  SnapshotsHold
PROPERTIES
  OpeningSafe
  FindsRunning
CHECK_DEADLOCK FALSE

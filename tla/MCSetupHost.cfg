CONSTANTS
  Machines <- HostMachines
  Shared <- HostMachines
  Requests <- HostRequests
  MaxRuns = 1
  MaxClicks = 1
  MaxOutside = 1
  Process = {1, 2, 3}
  Stack = {"a", "b"}
  PinnedPort = {1, 2}
  Service = {"db", "web"}
  NoBackup = NoBackup
  Nobody = Nobody
  NoFile = NoFile
  Foreign = Foreign
  LockAttempts = 3
  LegacyProjects = {"a"}
  LegacyPins <- MCLegacyPins
  Ports = 2
  Kills = 1
  RunnerLines = 1
  HelperLines = 1
  MaxStreams = 2
  MaxPrinted = 1
  MaxFaults = 1
  Tabs = {t1, t2}
  Ids = {i1, i2}
  Catalog_ <- MCCatalog
  Entries <- MCEntries
  Absent = Absent
  MaxRequests = 3
  MaxSurprises = 1
SPECIFICATION HostSpec
INVARIANTS
  HostObeyed
CHECK_DEADLOCK FALSE

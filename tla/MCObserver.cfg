CONSTANTS
  Listeners = {l1, l2}
  Services = {a}
  Rows = {0, 1}
  Nothing = Nothing
  MaxChanges = 2
  MaxWatches = 2
  Page = {t1, t2}
  Overlay = Overlay
  History = 2
  HistoryPoints = 1
  MaxRing = 2
  Fresh = 1
  MaxKept = 2
  MaxPumps = 3
  MaxTime = 3
  Watched = {p1, p2}
  Row = {r1, r2}
  NoPicture = NoPicture
  MaxUsers = 2
  MaxSteps = 2
  MaxDrops = 1
  MaxUpdates = 2
  Emits = 3
  Buffer = 3
  Attempts = 2
  Lost = Lost
  MaxBreaks = 2
  Order <- MCOrder
  PortsFor <- MCPortsFor
  UsualPort <- MCUsualPort
  ForeignPins = {}
  WildcardBlocks = FALSE
  MaxProbes = 1
  MaxLooks = 2
  MaxEvents = 1
  NoBox = NoBox
SPECIFICATION MCSpec
INVARIANTS
  ViewsInStep
  UpstreamShared
  HubAgrees
  FollowedTruly
  StatusTold
PROPERTIES
  Converges
  PictureConverges
CHECK_DEADLOCK FALSE

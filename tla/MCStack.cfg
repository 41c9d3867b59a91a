SPECIFICATION MCSpec
CONSTANTS
    AllowedRegistries = {"docker.io"}
    ReservedWords <- MCReservedWords
    ReservedPrefixes = {"LD"}
    NonLetters = {"1"}
    MaxProbes = 2
    MaxServices = 5
    Bundled <- MCBundled
    OverrideDirs <- MCOverrideDirs
    HandWritten <- MCHandWritten
    Renamings <- MCRenamings
    LinkedFiles <- MCLinkedFiles
    ComposeFiles <- MCComposeFiles
    OtherPorts = {4}
    BusySets <- MCBusySets
    Requests <- MCRequests
    Patches <- MCPatches
    MaxOps = 2
    MaxEdits = 1
    Shape <- MCShape
    ProjectName = "shop"
    DefaultNames <- MCDefaultNames
    GoodNames = {"db", "db-2", "db-3", "db-4", "x", "unnamed"}
    TypedNames = {"", "x", "unnamed"}
    TypedPorts = {0, 2, 6}
    TypedValues = {"x", "odd"}
    TypedSeeds <- MCSeeds
    TypedTexts <- MCTexts
    MinHostPort = 2
    MaxHostPort = 5
    SeedFiles <- MCSeedFiles
    Others <- MCOthers
    MaxKeys = 2
    MaxMoves = 3
    MaxNews = 1
    Composes <- MCComposes
    NoCompose <- MCNoCompose
    GoodProjects = {"shop", "blog", "x"}
    TypedProjects = {"shop", "x"}
    TypedRoots = {"", "x", "odd", "hidden"}
    AbsoluteRoots = {"x", "hidden"}
    RefusedRoots = {"hidden"}
    MaxOpens = 2
    MaxChanges = 1
    MaxReads = 2
    MaxImports = 2
INVARIANTS
  PlansSound
  PreviewImportable
PROPERTIES
  EditsHarmless
  FormsTrue
CHECK_DEADLOCK FALSE

CONSTANTS
  NoStdin = NoStdin
  NoDaemon = NoDaemon
  Caller = {c1, c2}
  Daemon = {d1, d2}
  Jobs <- MCJobs
  Logs <- MCLogs
  StderrCap = 2
  MaxObjects = 2
  FetchAttempts = 3
  Switches = 3
  Sockets = {s1, s2}
  Tails = {1}
  BufferLines = 1
  MaxLines = 2
SPECIFICATION MCSpec
INVARIANTS
  ResultAgrees
  AnswerTrue
  SeedTrue
  LinesWhole
  VersionOfSocket
  EveryLineAccounted
PROPERTIES
  ReturnsInTime
CHECK_DEADLOCK FALSE

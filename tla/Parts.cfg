SPECIFICATION PartsSpec
CONSTANTS
  BulkUrl = {u1, u2}
  Proc = {11, 12, 13}
  MaxWrites = 1
  CaptureClient = 4
  InputFile <- Lines
  MaxOperations = 2
  MaxRows = 2
  MaxEnds = 1
  Null = Null
  Archive = {n1, n2}
  Parts = 2
  MaxVisits = 2
  MaxSockets = 2
  Matter = {"a", "own"}
  Own = "own"
  LocalLine <- LocalLines
  RemoteLine <- RemoteLines
  MaxLines = 2
  MaxRules = 5
  NoMatter = NoMatter
  Loadable <- Loads
  Path = {"f", "g"}
  Directories = {}
  Excluded = {"g"}
  MaxEvents = 2
  MaxTours = 2
  BrowserUrl = {b1, b2}
  Workers = 2
  MaxCalls = 2
  Handle = {h1, h2}
  BrowserPid = {p1, p2}
  NoHandle = NoHandle
  NoPid = NoPid
  MaxCaptures = 2
  MaxOptions = 3
CHECK_DEADLOCK FALSE
INVARIANTS
  PartsTypeOK
  BlameIsRight
  NoJobIsForgotten
  UploadsAreWhole
  VerdictHasAReason
  ReportedFilesAreCopied
  StoppedThreadsAreGone
  
  ArchiveFollowsVerdict
PROPERTIES
  VerdictsAreKept

SPECIFICATION DriversSpec
CONSTANTS
  Caller = {c1}
  Size = {1, 2}
  BufferSpace = 2
  TIMEOUT = 1
  GRACE = 2
  MaxEvents = 3
  Timer = Timer
  Drainer = {Timer, Unload, Disconnection}
  Unloader = Unload
  Worlds <- TwoWorlds
  NoEvent = NoEvent
  Worker = {w1}
  File <- Files
  DosDrive <- Drives
  MaxOperations = 2
  MaxVersion = 2
  NoFileOp = NoFileOp
  Pid = {p1, p2}
  Image = {i1}
  Other = {o1}
  Tries = 1
  MaxCreated = 2
  None = None
  Address = {a1}
  Endpoint = {e1}
  UdpFile = {u1}
  Process = {p1, p2}
  MaxConns = 2
  MaxChanges = 3
  NoConn = NoConn
  EventType = {"connect", "receive"}
  Table = {"connect", "receive"}
  Connecting = {"connect"}
  FileObject = {f1}
  Handler = {h1, h2}
  NodeBlock = {b1, b2}
  MaxRequests = 3
  NoHandler = NoHandler
  NoBlock = NoBlock
  Key = {k1, k2}
  Pair = {q1, q2, q3}
  Finder = {x1}
  MaxInserts = 3
  NoPair = NoPair
  NoKey = NoKey
  Context = {t1}
  Blocks = 4
  MaxReports = 3
  SemaphoreLimit = 2
CHECK_DEADLOCK FALSE
INVARIANTS
  DriversTypeOK
  UnloadFreesEverything
  EveryFileEventHasAnOwner
  NoProcessEventIsLost
  ReferencesAreAlive
  
  
  
PROPERTIES
  DriversAreChannels
  EveryEventLeaves
  
  

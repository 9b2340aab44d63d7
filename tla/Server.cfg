SPECIFICATION ServerSpec
CONSTANTS
  u1 = u1
  g1 = g1
  s1 = s1
  s2 = s2
  e1 = e1
  OK = OK
  NoGroup = NoGroup
  Urls = {u1}
  Group = {g1}
  Session = {s1, s2}
  Codes = {e1}
  GroupSize = 1
  Algorithms = {"dac"}
  ErrorCap = 2
  LateErrors = FALSE
  Processing = {FALSE}
  cl1 = cl1
  v1 = v1
  Client = {cl1}
  Machine = {v1}
  Mapping <- OneClient
  MaxGroups = 1
  MaxReverts = 1
  NoOne = NoOne
CHECK_DEADLOCK FALSE
INVARIANTS
  NoNotifyIsLost
PROPERTIES
  
  
  CheckerReturns

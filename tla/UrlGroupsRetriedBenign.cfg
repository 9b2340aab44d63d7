SPECIFICATION OneAlgorithmSpec
CONSTANTS
  u1 = u1
  g1 = g1
  s1 = s1
  e1 = e1
  OK = OK
  NoGroup = NoGroup
  Urls = {u1}
  Group = {g1}
  Session = {s1}
  Codes = {e1}
  GroupSize = 1
  Algorithms = {"dac"}
  ErrorCap = 2
  LateErrors = FALSE
SYMMETRY Symmetry
PROPERTIES
  BenignVisitIsLoggedSafe
CHECK_DEADLOCK FALSE

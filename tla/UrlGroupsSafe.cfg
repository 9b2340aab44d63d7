SPECIFICATION OneAlgorithmSpec
CONSTANTS
  u1 = u1
  u2 = u2
  g1 = g1
  g2 = g2
  g3 = g3
  s1 = s1
  s2 = s2
  e1 = e1
  OK = OK
  NoGroup = NoGroup
  Urls = {u1, u2}
  Group = {g1, g2, g3}
  Session = {s1, s2}
  Codes = {e1}
  GroupSize = 2
  Algorithms = {"dac", "bulk"}
  ErrorCap = 2
  LateErrors = TRUE
CONSTRAINT FewFailures
SYMMETRY Symmetry
INVARIANTS
  
  NoUrlLost
  
  MaliciousGroupIsNarrowed
PROPERTIES
  AttributedChangesDecide
  FirstVerdictIsSound
CHECK_DEADLOCK FALSE

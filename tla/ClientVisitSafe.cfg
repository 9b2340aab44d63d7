SPECIFICATION LiveSpec
CONSTANTS
  g1 = g1
  g2 = g2
  g3 = g3
  m1 = m1
  Groups = {g1, g2, g3}
  Size <- SmallAndLarge
  Supported = {g1, g2}
  MaxWorkerThreads = 2
  Monitors = {m1}
  Codes = {"process", "timeout"}
  NotRetried = {"timeout"}
INVARIANTS
  NoLostWakeUp
  JoinIsComplete
  VerdictCoversEvents
PROPERTIES
  SmallGroupsAreAnswered
CHECK_DEADLOCK FALSE

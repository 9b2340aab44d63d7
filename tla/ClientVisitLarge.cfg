SPECIFICATION LiveSpec
CONSTANTS
  g1 = g1
  g2 = g2
  g3 = g3
  m1 = m1
  Groups = {g1}
  Size <- LargeOnly
  Supported = {g1}
  MaxWorkerThreads = 2
  Monitors = {}
  Codes = {"timeout"}
  NotRetried = {"timeout"}
PROPERTIES
  EveryGroupIsAnswered
CHECK_DEADLOCK FALSE

SPECIFICATION LiveSpec
CONSTANTS
  VM = {v1}
  Receiver = {r1}
  Checker = Checker
  Main = Main
  NoClient = NoClient
INVARIANTS
  RevertIsExclusive
  WaitingIsQueuedOrLost
PROPERTIES
  QueuedIsReverted
  FailedRevertIsRepeated

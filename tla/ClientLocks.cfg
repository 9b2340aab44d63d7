SPECIFICATION LocksSpec
CONSTANTS
  c1 = c1
  v1 = v1
  Client = {c1}
  Machine = {v1}
  Mapping <- OneMachine
  MaxGroups = 1
  MaxReverts = 1
  NoOne = NoOne
INVARIANT NoCircularWait
CHECK_DEADLOCK FALSE

SPECIFICATION Spec
CONSTANTS
  Agents = {"parent", "stage"}
  Parent = "parent"
  NumFiles = 3
  Long = {1}
  Fat = {3}
  MaxLines = 2
  Denied = {}
  StopAt = 2
  RepeatCap = 1
  LoopAfter = 2
  MaxCalls = 3
INVARIANT
  ToldOffForRepeats
PROPERTY
  RereadIsAbove
CHECK_DEADLOCK FALSE

\* Every flow, over one file that the session and another driver may change.
SPECIFICATION Spec
CONSTANTS
  Versions = {"old", "new", "wired", "turned"}
  Text <- MCText
  Telling <- MCTelling
  Hollow = {"wired"}
  Inert = {"wired"}
  Logged = {"slow"}
  ClaimCap = 2
  Files = {"f"}
  First = "old"
  Failing = {"old", "turned"}
  Requests <- MCRequests
  Answers <- MCAnswers
  Prints = {"value", "interface"}
  Patterns = {"wired", "slow"}
  MaxChanges = 1
  MaxOthers = 1
INVARIANTS
  StoodWasChecked
  ShownIsNotRefused
  RedIsReal
PROPERTY
  RunEnds
CHECK_DEADLOCK FALSE

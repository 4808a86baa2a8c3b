\* A judge that leaves the tree as it should not is accepted the second time.
SPECIFICATION Spec
CONSTANTS
  Versions = {"old", "new", "wired", "turned"}
  Text <- MCText
  Telling <- MCTelling
  Hollow = {"wired"}
  Inert = {"wired"}
  Logged = {"slow"}
  ClaimCap = 2
  Files = {"f"}
  First = "old"
  Failing = {"old", "turned"}
  Requests <- MCRequests
  Answers <- MCAnswers
  Prints = {"value", "interface"}
  Patterns = {"wired", "slow"}
  MaxChanges = 1
  MaxOthers = 1
INVARIANT JudgesLeaveTheTree
CHECK_DEADLOCK FALSE

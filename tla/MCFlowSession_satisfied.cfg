SPECIFICATION Spec
CONSTANTS
  NumStages = 2
  Blocking = {1}
  Judged = {1, 2}
  Shell = {1, 2}
  Writers = {}
  Budget <- SmallBudget
  RoundCap = 2
  SilentCap = 1
  DeafAfter = 0
  Agents = {a1, a2}
  NoAgent = none
  Findings = {}
  Texts = {"empty", "digest", "ledger"}
  NudgeLimit = 1
  ParentDeafAfter = 1
  MaxPlaces = 3
VIEW View
SYMMETRY AgentSymmetry
INVARIANT
  NextStageAdmitted
CHECK_DEADLOCK FALSE

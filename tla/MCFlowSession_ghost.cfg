SPECIFICATION ClockSpec
CONSTANTS
  NumStages = 2
  Blocking = {2}
  Judged = {2}
  Shell = {2}
  Writers = {}
  Budget <- SmallBudget
  RoundCap = 2
  SilentCap = 1
  DeafAfter = 0
  Agents = {a1}
  NoAgent = none
  Findings = {f}
  Texts = {"empty", "digest", "ledger"}
  NudgeLimit = 1
  ParentDeafAfter = 1
  MaxPlaces = 2
INVARIANT
  ClosingIsProved
PROPERTY
  GhostNeverBlocks
CHECK_DEADLOCK FALSE

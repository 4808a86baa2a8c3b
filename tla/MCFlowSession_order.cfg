SPECIFICATION Spec
CONSTANTS
  NumStages = 2
  Blocking = {1}
  Judged = {1}
  Shell = {1, 2}
  Writers = {2}
  Budget <- SmallBudget
  RoundCap = 2
  SilentCap = 1
  DeafAfter = 0
  Agents = {a1, a2}
  NoAgent = none
  Findings = {}
  Texts = {"empty", "ledger"}
  NudgeLimit = 1
  ParentDeafAfter = 1
  MaxPlaces = 3
VIEW View
SYMMETRY AgentSymmetry
INVARIANTS
  TypeOK
  BuiltOnJudged
  GivenUpIsFinal
  OneLiveRound
  BoundedRefusals
PROPERTIES
  AcceptedSurvives
  EndsAnswered
CHECK_DEADLOCK FALSE

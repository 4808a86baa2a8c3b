SPECIFICATION Spec
CONSTANTS
  Loops <- MCLoops
  MaxRounds = 3
  MaxTools = 1
  Retries = 2
  Rescue = TRUE
  Lines = {x, y}
  MaxLines = 6
  LineRepeat = 3
  Sizes <- MCSizes
  BlockRepeat = 2
INVARIANTS TypeOK AnswerIsNoThinking GradedWasSaid
PROPERTIES NoLoopGoesOn TaskEnds
CHECK_DEADLOCK FALSE

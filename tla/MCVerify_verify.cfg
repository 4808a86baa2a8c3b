\* Answers of up to four lines of every kind, and every small question.
SPECIFICATION Spec
CONSTANTS
  MinClip = 3
  MinWords = 2
  Answers <- MCAnswers
  QuoteQuestions <- MCQuotes
  TreeQuestions <- MCTrees
  CommandQuestions <- MCCommands
  ReadQuestions <- MCReadings
  EventQuestions <- MCEvents
  TestQuestions <- MCTests
INVARIANTS
  ClaimsStandAlone
  NoQuoteLost
  AcceptedIsThere
  CommandsWereRun
  SessionEvidence
  HollowForItsOwnLines
CHECK_DEADLOCK FALSE

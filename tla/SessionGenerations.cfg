SPECIFICATION FairSpec
CONSTANT MaxGenerations = 3
INVARIANTS
  SingleGenerationWork
  AssertionsHold
  SpeculativePrivate
  ReleaseNeverRefused
  AnswerStaysReachable
  HistoryAnswersItsTurn
PROPERTIES
  CandidatePromptFrozen
  LifecycleLegal
  CancellationCompletes
  CommittedTurnIsAnswered
CHECK_DEADLOCK FALSE

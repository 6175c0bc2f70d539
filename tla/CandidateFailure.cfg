SPECIFICATION Spec
CONSTANT MaxGenerations = 2
INVARIANT CandidateFailureIsSurvived
CHECK_DEADLOCK FALSE

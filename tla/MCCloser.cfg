SPECIFICATION FairSpec
CONSTANT Funcs <- MCFuncs
INVARIANTS
  AnswerTrue
  NoRaceOnMsgs
PROPERTIES
  CloseReturns
  RunnerEnds
CHECK_DEADLOCK FALSE

CONSTANTS
  Nil = Nil
  Commands <- MCCommands
  Tokens <- MCTokens
  Numbers <- MCNumbers
  Durations <- MCDurations
  Lists <- MCLists
  ValidNames <- MCValidNames
  Default <- MCDefault
  WordBits = 7
  Shift = 3
  MaxBytes = 2
  Milli = 4
  Workers = {1, 2, 3}
  Examples <- MCExamples
  Cap0 = 1
  Queued0 = {0, 1}
  MaxCalls = 2
SPECIFICATION FairSpec
INVARIANTS
  ArgumentsMean
  TimeoutKept
  SpawnedOnSamePath
  ExitTells
  CountersBalance
  TimeoutIsLast
PROPERTY RunEnds
CHECK_DEADLOCK FALSE

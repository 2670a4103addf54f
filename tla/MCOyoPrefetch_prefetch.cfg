SPECIFICATION Spec
CONSTANTS
  w1 = w1  w2 = w2
  Worker = {w1, w2}
  Start = 2
  Target = 4
  Ahead = 2
  MaxBytes = 1
  MaxPerCall = 3
  MaxHeight = 5
  MaxReorgs = 1
CHECK_DEADLOCK FALSE
INVARIANTS
  TypeOK AnswersAreNodes NoneForgotten WindowExact
PROPERTIES
  SyncEnds WorkersGo

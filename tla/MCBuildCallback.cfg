CONSTANTS
  Workers = {w1, w2}
  Requests = {r1}
  NoWorker = NoWorker
  Script = Script
SPECIFICATION Spec
INVARIANTS
  TypeOK
  CalledOnceThenFreed
  WrongOnlyByOverlap
PROPERTIES
  ImplementsOnceUntilExit
CHECK_DEADLOCK FALSE

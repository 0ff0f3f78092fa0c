CONSTANTS
  Workers = {w1, w2}
  Requests = {r1}
  NoWorker = NoWorker
  Script = Script
SPECIFICATION SafeSpec
INVARIANTS NoCallbackLost
CHECK_DEADLOCK FALSE

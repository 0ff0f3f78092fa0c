CONSTANTS
  Workers = {w1, w2}
  Events = {e1, u1}
  UserEvents = {u1}
  NoEvent = NoEvent
  NoWorker = NoWorker
  Script = Script
  Word = 16
SPECIFICATION Spec
INVARIANTS
  TypeOK
  DeliveredStatus
  FreedAfterLastUse
  NoCallbackLost
  RefusedHoldsTheLoop
PROPERTIES
  QuietProcessEnds
  ImplementsOnce
CHECK_DEADLOCK FALSE

CONSTANTS
  Blocks = {b1, b2}
  Buffers = {a1, a2}
  Mems = {m1, m2}
  Nil = Nil
  MaxQueue = 2
  MaxInPlay = 3
SPECIFICATION Spec
CONSTRAINT InPlay
SYMMETRY Symmetry
INVARIANTS
  TypeOK
  KeptIsSafe
  OwnStorageLive
PROPERTIES
  BlockingIsSafe
  SVMPinned
CHECK_DEADLOCK FALSE

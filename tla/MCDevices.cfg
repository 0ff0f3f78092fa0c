CONSTANTS
  Roots = {r}
  Subs = {s1, s2}
  Contexts = {c}
  Wrappers = {w1, w2, w3, w4}
  NoDevice = NoDevice
  Garbage = Garbage
  MaxRefs = 3
SPECIFICATION Spec
CONSTRAINT SmallHistories
SYMMETRY Symmetry
INVARIANTS
  TypeOK
  SubDeviceAccounting
  OwedIsLive
PROPERTIES Stranded
CHECK_DEADLOCK FALSE

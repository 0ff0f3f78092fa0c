CONSTANTS
  Objs = {o1, o2, o3}
  Wrappers = {w1, w2, w3}
  NoObj = NoObj
  Kinds = {"context", "queue", "mem", "sampler", "program", "kernel", "event"}
  MaxRefs = 2
SPECIFICATION Spec
SYMMETRY Symmetry
INVARIANTS
  TypeOK
  Accounting
  LiveHandle
PROPERTIES RetainPinsForever
CHECK_DEADLOCK FALSE

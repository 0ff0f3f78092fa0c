CONSTANTS
  Objs = {o1, o2, o3, o4}
  Wrappers = {w1, w2, w3}
  NoObj = NoObj
  Kinds = {"context", "program", "kernel"}
  MaxRefs = 2
SPECIFICATION Spec
SYMMETRY Symmetry
INVARIANTS
  Accounting
CHECK_DEADLOCK FALSE

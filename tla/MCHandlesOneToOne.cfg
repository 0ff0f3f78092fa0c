CONSTANTS
  Objs = {o1, o2}
  Wrappers = {w1, w2, w3}
  NoObj = NoObj
  Kinds = {"context", "queue", "event"}
  MaxRefs = 3
SPECIFICATION BalanceSpec
SYMMETRY Symmetry
INVARIANTS OneToOne
CHECK_DEADLOCK FALSE

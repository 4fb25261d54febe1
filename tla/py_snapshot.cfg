CONSTANTS
  a1 = a1
  a2 = a2
  y1 = y1
  y2 = y2
  v = v
  w = w
  Objects <- MCObjects
  ClassOf <- MCClassOf
  HashOf <- MCHashOf
  Builtin = {a1, a2}
  Raisers = {y1, y2}
  Values = {v, w}
  Operands <- MCOperands
  Unit = Unit
  None = None
  MaxGeneration = 2
SPECIFICATION Spec
INVARIANTS
  SnapshotsInvalidated

\* Two imports and two calls on the list, over three files.
SPECIFICATION Spec
CONSTANTS
  f1 = f1  p1 = p1  p2 = p2  i1 = i1  i2 = i2  c1 = c1  c2 = c2
  Flows = {f1}  Phones = {p1, p2}  Files <- SmallFiles
  Imports = {i1, i2}  Callers = {c1, c2}  None = None
  ReadAs <- TakenFor
  CHUNK = 1  SAMPLE = 2  MaxOps = 3  MaxFaults = 1
INVARIANTS Reconciles InStep FileRead
PROPERTY NoOverwrite
SYMMETRY Alike
CHECK_DEADLOCK FALSE

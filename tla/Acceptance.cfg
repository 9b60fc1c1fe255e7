SPECIFICATION Spec
CONSTANTS
  a1 = a1  a2 = a2  k1 = k1  x1 = x1  x2 = x2
  Calls = {a1, a2}
  Keys = {k1}
  Bodies = {x1, x2}
  Routes = {"send", "bulk", "message"}
  MaxAttempts = 2
  Items = 2
  Delay = 2
  Capacity = 1
  Window = 2
  MaxTime = 2
  MaxRestarts = 1
  Faults = {"db", "publish"}
  None = None
  Old = Old
SYMMETRY Symmetry
INVARIANTS OneRowPerCall ConflictLeavesNothing BatchesArePaced WithinRate
PROPERTIES ImplementsContract
CHECK_DEADLOCK FALSE

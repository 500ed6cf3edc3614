SPECIFICATION Spec
CONSTANTS
  Keys = {k1}
  Immediate = {}
  MaxEvents = 3
INVARIANTS
  ResetLeavesOneTimer
CHECK_DEADLOCK FALSE

SPECIFICATION Spec
CONSTANTS
  Calls <- McCalls
  CAPACITY = 2
INVARIANTS
  OutputAccepted
  FaithfulCopy
  CompleteOrCut
CHECK_DEADLOCK FALSE

SPECIFICATION Spec
CONSTANTS
  Calls <- McCalls
  Digits <- ToString
INVARIANTS
  MadeUnique
CHECK_DEADLOCK FALSE

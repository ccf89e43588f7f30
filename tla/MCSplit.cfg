SPECIFICATION Spec
CONSTANTS
  Calls <- McCalls
  Digits <- ToString
INVARIANTS
  NothingOverwritten
  ApartIfNoneExtends
  WrittenInOrder
CHECK_DEADLOCK FALSE

SPECIFICATION Spec
CONSTANTS
  RULES <- McRules
  ASSOCIATIONS <- McAssociations
  Requests <- McRequests
INVARIANTS
  LoopInv
  NothingLost
PROPERTIES
  ImplementsClosure
  Terminates
CHECK_DEADLOCK FALSE

SPECIFICATION Spec
CONSTANTS
  Worlds <- McExternal
  RULES <- McRules
  ASSOCIATIONS = {}
INVARIANTS
  PastEveryName

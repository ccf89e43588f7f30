SPECIFICATION Spec
CONSTANTS
  Worlds <- Splits
  RULES <- McRules
  ASSOCIATIONS = {}
INVARIANT FramesRestored

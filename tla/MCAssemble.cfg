SPECIFICATION Spec
CONSTANTS
  Worlds <- McWorlds
  RULES <- McRules
  ASSOCIATIONS = {}
INVARIANTS
  NamesApart
  MergedOnce
  CyclesRefused
  SelfContainedIfBacked
  StructureRestored
PROPERTIES
  Advances

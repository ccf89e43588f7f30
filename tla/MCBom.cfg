SPECIFICATION Spec
CONSTANTS
  Requests <- McRequests
  MAX_ASSEMBLY_DEPTH = 3
  MAX_BOM_NODES = 7
INVARIANTS
  WalkedOnce
  EveryComponentListed
  TotalsOfAcyclic
  MarkedIfIncomplete
  ListingsAgree
PROPERTIES
  Finishes
CHECK_DEADLOCK FALSE

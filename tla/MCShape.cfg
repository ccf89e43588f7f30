SPECIFICATION Spec
CONSTANTS Files <- McFiles
 MaxShapeDepth = 2
 MaxShapeVisits = 22
INVARIANTS CompleteIsWhole OneOwner
CHECK_DEADLOCK FALSE

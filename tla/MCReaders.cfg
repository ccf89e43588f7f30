SPECIFICATION Spec
CONSTANTS MaxConversionDepth = 2
 MaxExponent = 12
 MaxReal = 20
 SineScale = 100
 MinSemiAngle = 1
 MaxSemiAngle = 80
 MaxPmiDepth = 3
 MaxInheritance = 2
INVARIANTS ReadOnce UsesRunAlong GeometrySound ResolvesAll NothingSkipped NamingAgrees LayoutsCompose ProblemsExact NoHolderMissed NoUnitIgnored
CHECK_DEADLOCK FALSE

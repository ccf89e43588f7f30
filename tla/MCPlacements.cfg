SPECIFICATION Spec
CONSTANTS Files <- McFiles
 MaxConversionDepth = 2
 MaxExponent = 12
 MaxReal = 20
 SineScale = 100
 MinSemiAngle = 1
 MaxSemiAngle = 80
 MaxAssemblyDepth = 2
INVARIANTS OccurrencesComplete CarriesFrame FollowsPath
CHECK_DEADLOCK FALSE

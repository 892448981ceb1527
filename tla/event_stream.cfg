SPECIFICATION Spec
CONSTANTS
  AnyNode = AnyNode  Undef = Undef  NoFrame = NoFrame
  Kinds <- MCKinds
  Filters <- MCFilters
  StreamWindow = 1
  AlertWindow = 1
  PageSize = 1
  MaxFrames = 2
  MaxTime = 2
  MaxFaults = 1
  MaxLoads = 2
  MaxClicks = 1
INVARIANTS TypeOK ListHolds StreamSkipsOnlyBursts
PROPERTIES RecoveryRepairs
CHECK_DEADLOCK FALSE

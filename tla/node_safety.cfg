SPECIFICATION Spec
CONSTANTS
  NumDevices = 1
  IdSpace = 2
  MaxTimeout = 1
  MaxShift = 1
  MaxLag = 0
  Profiles <- BothProfiles
  DefaultProfile <- Short
  Frames <- SafetyFrames
INVARIANTS TypeOK SlotMatchesState FaultIsBlamed
PROPERTIES NothingDisplaced TelemetryAfterDeclaration

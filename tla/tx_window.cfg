SPECIFICATION TxSpec
CONSTANTS
  NumDevices = 1
  IdSpace = 2
  MaxTimeout = 1
  MaxShift = 1
  MaxLag = 0
  Profiles <- OneProfile
  DefaultProfile <- Short
  Frames <- SlowFrames
  ChunkUnits = 2
INVARIANT WholeFrames

SPECIFICATION Spec
CONSTANTS
  Version = "v"
  Bad = "bad"
  Types = {"ack", "prop", "odd", "res", "conn"}
  LAYOUT <- MCLayout
  Known = {"n"}
  Sendable <- MCSendable
  Closing <- MCClosing
  Noise <- MCNoise
  MaxFrames = 3
  MaxFaults = 1
  MaxGaps = 1
  MaxBehind = 2
INVARIANTS ChunksDoNotMatter CleanLineDelivers Recovers GapRestores
CHECK_DEADLOCK FALSE

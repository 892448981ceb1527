SPECIFICATION FairSpec
CONSTANTS
  NumDevices = 1
  IdSpace = 2
  MaxTimeout = 1
  MaxShift = 1
  MaxLag = 1
  Profiles <- OneProfile
  DefaultProfile <- Short
  Frames <- BusyFrames
PROPERTIES WaitingEnds KeepAliveNotStarved

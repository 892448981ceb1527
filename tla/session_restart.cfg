SPECIFICATION SessionSpec
CONSTANTS
  NumDevices = 1
  IdSpace = 2
  MaxTimeout = 1
  MaxShift = 1
  MaxLag = 0
  Profiles <- MCProfiles
  DefaultProfile <- Once
  Frames <- MCFrames
  MaxLine = 2
  MaxRestarts = 1
  MaxBreaks = 0
PROPERTIES KnownAgain
CHECK_DEADLOCK FALSE

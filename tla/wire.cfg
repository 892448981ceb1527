SPECIFICATION Spec
CONSTANTS
  MaxDevices = 16
  Lengths <- MCLengths
  Samples <- MCSamples
INVARIANTS KindsApart DecodersAgree SentIsAccepted SlicesShowFrame
CHECK_DEADLOCK FALSE

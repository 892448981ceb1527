SPECIFICATION Spec
CONSTANTS
  temp = temp  rain = rain  fan = fan
  Devs = {1}
  Subtypes = {temp, rain, fan}
  KindOf <- MCKindOf
  Unranged = {rain}
  Nullable = {fan}
  NaN = NaN
  Periods = {0, 2}
  MaxLevel = 1
  Singly = {}
  Builds <- PlainBuild
  Fields = {"period"}
  MaxPatches = 1
  MaxFaults = 2
  MaxLine = 2
PROPERTY InRangeStored
CHECK_DEADLOCK FALSE

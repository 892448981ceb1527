SPECIFICATION Spec
CONSTANTS
  temp = temp  rain = rain  fan = fan
  Devs = {1, 2}
  Subtypes = {temp, rain, fan}
  KindOf <- MCKindOf
  Unranged = {rain}
  Nullable = {fan}
  NaN = NaN
  Periods = {0, 2}
  MaxLevel = 1
  Singly = {1}
  Builds <- AllBuilds
  Fields = {"period"}
  MaxPatches = 1
  MaxFaults = 3
  MaxLine = 2
INVARIANTS TypeOK OnlyNaNEnds IdentityHolds HistoryReplays ListedIsInstalled AtRestTheyAgree
CHECK_DEADLOCK FALSE

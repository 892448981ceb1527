SPECIFICATION FairSpec
CONSTANTS
  t1 = t1  t2 = t2  r1 = r1  d1 = d1  d2 = d2  on = on
  Threads = {t1, t2}
  Rules = {r1}
  Devices = {d1, d2}
  Sensors = {d1}
  Nodes = {1, 2}
  NodeOf <- MCNodeOf
  Commands = {on}
  Fields = {"limit", "period"}
  Vals = {0, 1}
  Factory = 0
  Fixed = {"limit"}
  Histories <- MixedHistories
  MaxFaults = 1
  BusyLimit = 2
  Retries = 1
  Manual = Manual
  NoOne = NoOne
INVARIANTS TypeOK Authorised ResultIsTheNodes SettingsBacked LateIsReported
PROPERTIES DecidedOnce AllNodesAgreed CallsEnd
CHECK_DEADLOCK FALSE

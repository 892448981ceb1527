SPECIFICATION FairSpec
CONSTANTS
  c1 = c1
  n1 = n1
  Callers <- OneCaller
  Nodes <- OneNode
  MaxCalls = 2
  Profiles <- MCProfiles
  DefaultProfile <- Twice
  MaxTimeout = 1
  MaxRetry = 1
  Limits <- ShortLimit
  Inbound <- MixedInbound
  MaxWire = 1
INVARIANTS TypeOK OwnAnswer TableMatchesWaiters
PROPERTIES Promise CallsReturn EntriesSettle
CHECK_DEADLOCK FALSE

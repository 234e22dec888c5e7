SPECIFICATION FairSpec
CONSTANTS
  Workers = {w1, w2}
  small = small
  large = large
  Contents = {small, large}
  Asked = {small}
  NoId = NoId
  Size <- MCSize
  Quota = 3
  MaxVersion = 2
  MaxCalls = 3
  MaxCrashes = 1
  MaxDamages = 1
  MaxFailures = 1
INVARIANTS
  ReadyIsStored
  LineageFollows
  QuotaOvershootBounded
PROPERTIES
  ImplementsAssetLife
  PendingSettles
CHECK_DEADLOCK FALSE

SPECIFICATION FairSpec
CONSTANTS
  Alerts = {k1, k2, n1}
  Keyed = {k1, k2}
  RetryCount = 1
INVARIANTS ExitZeroMeansPaged GivesUpLast DuplicatesOnlyAfterLoss OneIncidentPerKey
PROPERTY PagerExits

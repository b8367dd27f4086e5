SPECIFICATION FairSpec
CONSTANTS
  NumLogs = 2
  MaxBodies = 9
  RetryMax = 1
INVARIANTS HealthyLogVerified OrphansOnlyAfterLoss
PROPERTIES Returns ImplementsProber

SPECIFICATION FairSpec
CONSTANTS
  Limit = 5
  MaxConns = 3
CHECK_DEADLOCK FALSE
INVARIANT ReturnSound
PROPERTIES QuietAfterWait Returns

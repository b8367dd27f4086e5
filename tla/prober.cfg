SPECIFICATION FairSpec
CONSTANTS
  RunWriteProber = TRUE
  DisableGrpc = FALSE
  MaxServices = 2
  MaxShards = 1
  MaxRounds = 2
INVARIANTS StatusSound MaskedFailureCounted NoFalseAlarm
PROPERTIES TrueCountsVerified VisitsCounted RoundEnds

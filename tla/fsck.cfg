SPECIFICATION FairSpec
CONSTANTS
  Logs = {l1, l2, l3}
INVARIANTS ExitZeroMeansChecked ReportedIsAtFault
PROPERTIES SoundLogsExitZero FaultEnds

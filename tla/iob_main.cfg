SPECIFICATION FairSpec
CONSTANTS
  Jobs <- MCJobs
  InitBufSize = 4
  MaxThreads = 2
  MaxSeconds = 3
  TimeBound = 3
  IssueBound = 2
CHECK_DEADLOCK FALSE
INVARIANTS InitMissesAtMostWindow MonitorReadsPublished TotalsExact
PROPERTIES ProgramEnds GeneratorsLive

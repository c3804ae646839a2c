CONSTANTS
  TestRuns = 3
  Jobs = 2
SPECIFICATION FairSpec
INVARIANTS
  TypeOK
  JobsBound
  EveryPidKnown
  CountsMatchReports
  TotalsAgree
  BarCountsCollected
  OrigFromFirstJob
PROPERTIES
  Terminates
  CountsOncePerJob
  KeepsBatch

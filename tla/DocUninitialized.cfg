CONSTANTS
  TestRuns = 2
  Jobs = 2
SPECIFICATION Spec
INVARIANTS
  OnlyReportsCounted

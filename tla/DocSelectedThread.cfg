CONSTANTS
  UIntMax = 2
  NThreads = 1
  Configs <- OneRunConfigs
SPECIFICATION Spec
INVARIANT StopsSelectedThread
CHECK_DEADLOCK FALSE

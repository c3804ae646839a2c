CONSTANTS
  UIntMax = 2
  NThreads = 0
  Configs <- LateConfigs
SPECIFICATION FairSpec
PROPERTY Terminates
CHECK_DEADLOCK FALSE

CONSTANTS
  UIntMax = 3
  NThreads = 0
  Configs <- RetryConfigs
SPECIFICATION Spec
INVARIANT StopsAfterLimit

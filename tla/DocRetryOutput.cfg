CONSTANTS
  UIntMax = 3
  NThreads = 0
  Configs <- PlainConfigs
SPECIFICATION Spec
INVARIANT CorruptedSound
CHECK_DEADLOCK FALSE

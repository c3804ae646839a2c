CONSTANTS
  UIntMax = 3
  NThreads = 1
  Configs <- JobConfigs
SPECIFICATION FairSpec
INVARIANTS
  TypeOK
  NoWorkloadLeft
  FaultBeforeVerdict
  VerdictSound
  CorruptedSoundOnCleanFile
  NoReapedThreadKnown
  AttemptsRespected
PROPERTIES
  TerminatesInTime
  KeepsContract
CHECK_DEADLOCK FALSE

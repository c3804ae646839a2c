CONSTANTS
  SoPaths <- MCSoPaths
  LibPaths <- MCLibPaths
  RegTable <- MCRegTable
  Masked <- MCMasked
  Instrs <- MCInstrs
  Settings <- MCSettings
SPECIFICATION Spec
INVARIANTS
  TypeOK
  AsRequested
  DiffersInOneBit
  FaultReachesProgram
  NothingLeftOut
PROPERTIES
  OwnPathDecides
  KeepsRunnersView

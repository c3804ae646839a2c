CONSTANTS
  SoPaths <- MCSoPaths
  LibPaths <- MCLibPaths
  RegTable <- MCRegTable
  Masked <- MCMasked
  Instrs <- VectorInstrs
  Settings <- DefaultSettings
SPECIFICATION Spec
INVARIANTS
  SuccessMeansFlipped

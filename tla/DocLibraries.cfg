CONSTANTS
  SoPaths <- MCSoPaths
  LibPaths <- MCLibPaths
  RegTable <- MCRegTable
  Masked <- MCMasked
  Instrs <- LibraryInstrs
  Settings <- LibrarySettings
SPECIFICATION Spec
INVARIANTS
  LibrariesSpared

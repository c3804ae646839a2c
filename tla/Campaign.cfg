CONSTANTS
  Argvs <- MCArgvs
  Numeral <- MCNumeral
  OutOfRange = {"huge"}
  Letters <- MCLetters
  LastBit <- MCLastBit
  Files <- MCFiles
  UIntMax = 3
  Cores = {0, 2}
  Imports <- MCImports
SPECIFICATION FairSpec
INVARIANTS
  TypeOK
  OptionsEstablished
  OrigFilesKept
  LeftoversKnown
  ReportComplete
  EndExplained
PROPERTIES
  Ends

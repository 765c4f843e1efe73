CONSTANTS
  Bases <- MCBases
  Models <- MCModels
  Heads = 4
  Layers = 2
  Divisor = 128
  Width = 5
  NgramSize = 3
  HeadsPerNgram = 2
SPECIFICATION HashSpec
INVARIANTS
  SizesAreTheNextPrimes
  RowsArePartitioned
  HashIsExact
  IdsAreRowsOfTable
  TableIsReadAsWritten

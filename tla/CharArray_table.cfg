CONSTANTS
  Cells = 3
  RowHint = 1
  RowGrow = 1
  MaxRows = 3
  ColMax = 2
  CellLength = 4
  BufferSize = 6
  Lines <- MCLines
  Needles <- MCNeedles
  Replacements <- MCReplacements
  Tables <- MCTables
  Rank <- MCRank
  Freed = Freed
  SortMixed = FALSE
SPECIFICATION Spec
INVARIANTS
  CellsOwned
  FileHoldsTable
PROPERTIES
  PointersStable
  PreconditionsSuffice
  LineTableSpec

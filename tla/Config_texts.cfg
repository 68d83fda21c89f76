\* A reader's buffer of four bytes: most lines of these texts span two refills.
CONSTANTS
  B = 4
  M = 5
  N = 6
  Files <- MCFiles
  Room = 9
  KeySize = 4
  ValueSize = 5
  IntRoom = 3
  Keys <- MCKeys
  Values <- MCValues
  Integers10 <- MCIntegers
  Junk <- MCJunk
  ConfigFiles <- MCConfigFiles
  MaxItems = 2
SPECIFICATION TextSpec
INVARIANTS RowsAreTheLines BufferHoldsTheLines RoundTrip CrashKeepsPrefix
CHECK_DEADLOCK FALSE

SPECIFICATION FairSpec
CONSTANTS
  MANIFEST = MANIFEST
  NoFile = NoFile
  InputFile = InputFile
  Foreign = Foreign
  InputBytes = d1
  a = a  b = b  c = c  v = v  w = w  d1 = d1  d2 = d2  d3 = d3
  Writers = {w}
  Names = {a, b}
  Data = {d1, d2}
  Size <- TotalLength
  Maximum = 3
  MaxRuns = 1
  MaxForeign = 1
INVARIANT CommitMarker
PROPERTY UnrelatedKept
CHECK_DEADLOCK FALSE
PROPERTY Terminates

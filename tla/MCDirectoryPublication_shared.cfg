SPECIFICATION Spec
CONSTANTS
  MANIFEST = MANIFEST
  NoFile = NoFile
  InputFile = InputFile
  Foreign = Foreign
  InputBytes = d1
  a = a  b = b  c = c  v = v  w = w  d1 = d1  d2 = d2  d3 = d3
  Writers = {v, w}
  Names = {a}
  Data = {d1, d2, d3}
  Size <- TotalLength
  Maximum = 3
  MaxRuns = 2
  MaxForeign = 0
INVARIANT LockExclusive
INVARIANT NothingLost
PROPERTY ScratchExclusive
PROPERTY Atomic
CHECK_DEADLOCK FALSE

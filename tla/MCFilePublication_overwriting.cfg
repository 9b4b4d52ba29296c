SPECIFICATION Spec
CONSTANTS
  u = u  v = v  w = w
  NoFile = NoFile
  Previous = Previous
  InputFile = InputFile
  Foreign = Foreign
  Callers = {v, w}
  MaxCalls = 2
INVARIANT CompleteOnly
CHECK_DEADLOCK FALSE

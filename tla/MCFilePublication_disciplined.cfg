SPECIFICATION DisciplinedSpec
CONSTANTS
  u = u  v = v  w = w
  NoFile = NoFile
  Previous = Previous
  InputFile = InputFile
  Foreign = Foreign
  Callers = {u, v, w}
  MaxCalls = 2
INVARIANT CompleteOnly
PROPERTY DestinationKept
PROPERTY ScratchOwned
PROPERTY HonestAnswer
CHECK_DEADLOCK FALSE

SPECIFICATION Spec
CONSTANTS
  r1 = r1  r2 = r2  r3 = r3  r4 = r4
  Requests = {r1, r2}
  Profiles <- SimulationProfiles
  Ends = {"result"}
  Workers = 1
  Timeout = 2
  LongestWait = 3
INVARIANT EndToEndTimeout
SYMMETRY Symmetry
CHECK_DEADLOCK FALSE

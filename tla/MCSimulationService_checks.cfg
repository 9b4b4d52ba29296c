SPECIFICATION MixedSpec
CONSTANTS
  r1 = r1  r2 = r2  r3 = r3  r4 = r4
  Requests = {r1, r2, r3}
  Profiles <- AllProfiles
  Ends = {"result", "rejected", "limit", "unserializable", "panic"}
  Workers = 1
  Timeout = 1
  LongestWait = 0
INVARIANT Conservation
INVARIANT WorkEarned
PROPERTY AnswersStand
PROPERTY EveryRequestEnds
PROPERTY ShutdownEnds
CHECK_DEADLOCK FALSE

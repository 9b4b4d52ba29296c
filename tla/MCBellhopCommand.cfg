SPECIFICATION Spec
CONSTANTS
  NaN = 1000000
  MaxVector = 4
  MaxPoints = 4
  MaxMatrix = 8
  AutomaticCount = 3
  FullCircle = 360
  LoudLevel = 9000
  RecommendedBeams = 5
  Spacing = 1024
  Overflow = 900000
  Limits <- MCLimits
  ReferenceArrivals = 2
  Loudest = 3
  NotFinite = NotFinite
  HeaderWords = 41
  NoQuota = NoQuota
  Requests <- MCRequests
INVARIANT Reported
INVARIANT Consumed
INVARIANT RoundTrip
INVARIANT Usable
INVARIANT Retained
INVARIANT ReadBack

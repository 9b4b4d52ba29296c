SPECIFICATION FairSpec
CONSTANTS
  ReceiverRanges <- SomeRanges
  Positions <- SomePositions
  Far = 100
INVARIANT Swept
INVARIANT Passed
INVARIANT FirstPassage
PROPERTY WalkEnds
CHECK_DEADLOCK FALSE

SPECIFICATION Spec
CONSTANTS
  Waters <- SomeWaters
  Sources = {3, 6}
  BaseStep = 5
  MinStep = 2
  Rounding = 1
  Shifts <- SomeShifts
  MaxRange = 16
  MaxDepth = 14
  MaxSteps = 8
  Wide = 1000
INVARIANT Contained
INVARIANT Alternating
INVARIANT Truthful
PROPERTY KnotsRespected
CHECK_DEADLOCK FALSE

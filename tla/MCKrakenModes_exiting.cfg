SPECIFICATION Spec
CONSTANTS
  N = 2
  High = 6
  Places <- SomePlaces
  Drift = 2
  Meshes = 3
  Steps = 3
  RootLimit = 2
  Methods = {"fluid"}
  MaxRanges = {1}
PROPERTY SurvivorsKept

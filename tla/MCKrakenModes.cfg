SPECIFICATION Spec
CONSTANTS
  N = 3
  High = 6
  Places <- SomePlaces
  Drift = 2
  Meshes = 3
  Steps = 3
  RootLimit = 2
  Methods = {"fluid", "elasticTop", "layers", "complex"}
  MaxRanges = {0, 1}
INVARIANT Bracketing
INVARIANT WholeSpectrum
INVARIANT Aligned
PROPERTY Nearer

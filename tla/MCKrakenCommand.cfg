SPECIFICATION Spec
CONSTANTS
  NaN = 1000000
  MaxVector = 7
  MaxLayers = 3
  MaxFrequencies = 2
  MaxBiological = 1
  LoudLevel = 9000
  MinimumMesh = 10
  Scale <- MCScale
  MostLoss = 545
  MaxMesh = 4000
  MaxModes = 3
  MaxSamples = 8
  MaxValues = 42
  MostModes = 3
  MaxWork = 80
  LeastWords = 3
  TitleWords = 3
  BoundaryWords = 3
  HeaderWords = 21
  NoQuota = NoQuota
  Overhead = 20
  ReportWords = 5
  ManifestWords = 5
  Requests <- MCRequests
INVARIANT Discovered
INVARIANT Exportable
INVARIANT Quadrature
INVARIANT Marched
INVARIANT Within
INVARIANT ReadBack

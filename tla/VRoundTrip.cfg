CONSTANTS
  Rank <- MCRank
  Shapes <- MCShapes
  References <- MCReferences
  Configs <- MCConfigs
  MaxKeys = 4
SPECIFICATION Spec
INVARIANT RoundTrips
CHECK_DEADLOCK FALSE

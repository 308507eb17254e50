CONSTANTS
  Rank <- MCRank
  Shapes <- MCShapes
  References <- MCReferences
  Configs <- MCConfigs
  MaxKeys = 3
SPECIFICATION Spec
INVARIANTS
  RelationsMirror NothingNamedIsMissing CatalogOrderForgotten KeyIdentifiesRows
  ItBuilds ReadsBackOrRefuses
CHECK_DEADLOCK FALSE

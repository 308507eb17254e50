SPECIFICATION FairSpec
CONSTANTS
  Id <- MCId
  Null = 0
  Tables <- MCTables
  Levels <- MCLevels
  Queries <- MCQueries
  MaxWrites = 1
  MaxDepth = 2
INVARIANTS
  AttachedByKey
  FewestQueries
  HookedOnceInOrder
  LoadedIsTheJoin
PROPERTIES
  Terminates

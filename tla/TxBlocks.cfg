SPECIFICATION Spec
CONSTANTS
  Block = {b1, b2, b3}
  Root = root
  Engines = {"Postgres", "MySql", "Sqlite"}
  MaxWrites = 1
  Siblings = FALSE
  Cancels = {"body"}
  StmtSurvives <- MCCarriesOn
  NestedSurvives <- MCCallerCarriesOn
INVARIANTS
  AllOrNothing
  PooledIsClean
  LevelsAreSound
PROPERTIES
  OuterLivesOn
  BlocksAreAtomic

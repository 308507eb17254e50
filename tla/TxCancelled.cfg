SPECIFICATION Spec
SYMMETRY BlockSymmetry
CONSTANTS
  Block = {b1, b2}
  Root = root
  Engines = {"Postgres", "MySql", "Sqlite"}
  MaxWrites = 1
  Siblings = TRUE
  Cancels = {"begin", "body", "end", "savepoint"}
  StmtSurvives <- MCCarriesOn
  NestedSurvives <- MCCallerCarriesOn
INVARIANTS
  SettledWithOutcome

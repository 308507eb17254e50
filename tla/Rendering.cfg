SPECIFICATION Spec
CONSTANTS
  Parts <- MCParts
  Fragment <- MCFragments
  Dialect <- MCDialects
  NamedDialects <- MCNamed
  Word <- MCWord
  Value <- MCValue
  Null = "null"
  Start = {1, 3}
INVARIANTS
  ArgumentsMatch
  FirstErrorSurfaces
  DialectRestored
  
  NameIsTheNextArgument

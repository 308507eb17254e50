SPECIFICATION Spec
SYMMETRY MCSymmetry
CONSTANTS
  Family = "MySql"
  Conn = {c1, c2}
  Task = {t1, t2, t3}
  Asks <- MCSome
  Pooled = TRUE
  Cancels = {}
  NoConn = NoConn
INVARIANTS
  NothingLeaks
  IdleIsClean
  RunsAsAsked
  OnlyOwnWork

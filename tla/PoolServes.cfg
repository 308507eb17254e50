SPECIFICATION FairSpec
CONSTANTS
  Family = "MySql"
  Conn = {c1}
  Task = {t1, t2}
  Asks <- MCSome
  Pooled = TRUE
  Cancels = {"begin", "end"}
  NoConn = NoConn
PROPERTIES
  EveryoneServed

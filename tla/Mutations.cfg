CONSTANTS
  Callers = {a, b}
  a = a
  b = b
  Tables <- MCTables
  Refers <- MCRefers
  Existing <- MCExisting
  Dialects = {"psql", "mysql"}
  MaxFailures = 1
  Jobs <- MCJobs
  Bases = {100}
SPECIFICATION Spec
INVARIANTS
  AnswersWhatItDid HooksShareTheFate AllOrNothing CreatesWhatIsImplied SequencesKeepApart
SYMMETRY MCAlike
CHECK_DEADLOCK FALSE

SPECIFICATION Spec
CONSTANTS
    Operands <- MCOperands
    Calls <- MCCalls
    Starts <- MCSqliteSelect
    MaxCalls = 2
INVARIANTS
    NoJoinIsDropped
CHECK_DEADLOCK FALSE

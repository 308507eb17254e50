SPECIFICATION Spec
CONSTANTS
    Operands <- MCOperands
    Calls <- MCCalls
    Starts <- MCStarts
    MaxCalls = 2
INVARIANTS
    RefusedWhenIncomplete
    AcceptedByTheEngine
    SaysWhatWasAsked
CHECK_DEADLOCK FALSE

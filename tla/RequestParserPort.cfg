SPECIFICATION Spec
CONSTANTS
    Requests <- MCRequests
    MaxCuts = 0
INVARIANTS DocumentedTarget
CHECK_DEADLOCK FALSE

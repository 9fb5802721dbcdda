SPECIFICATION Spec
CONSTANTS
    Requests <- MCRequests
    MaxCuts = 3
INVARIANTS TypeOK TargetRight RequestIntact
CHECK_DEADLOCK FALSE

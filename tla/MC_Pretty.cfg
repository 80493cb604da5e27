CONSTANTS
    Strs <- MCStrs
    SubIdx = {1, 10}
    MaxSize = 4
SPECIFICATION Spec
CHECK_DEADLOCK FALSE
INVARIANT ExprUnambiguous

CONSTANTS
    Strs <- MCStrs
    SubIdx = {1, 10}
    MaxSize = 3
SPECIFICATION Spec
CHECK_DEADLOCK FALSE
INVARIANT TyUnambiguous

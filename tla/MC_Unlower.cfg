CONSTANTS
    s1 = s1  s2 = s2  s3 = s3
    N = 3
    Spans <- MCSpans
    Locs <- MCLocs
    HirShapes <- MCHirShapes
    MirShapes <- MCMirShapes
SPECIFICATION Spec
CHECK_DEADLOCK FALSE
INVARIANTS FirstVisitedWins ConflictLogged KeysExist NoConflictWhenInjective

CONSTANTS
    p = p  q = q  r = r  x = x
    lp = lp  lq = lq  lr = lr  ap = ap  aq = aq  ar = ar  ax = ax  rv = rv
    NONE = NONE
    Locals <- MCLocals
    PtrIds <- MCPtrIds
    NoLabel <- NONE
    LocalTy <- MCLocalTy
    AddrOfLocal <- MCAddrOfLocal
    NumBlocks = 1
    MaxStmts = 1
    StmtShapes <- MCStmtShapesAll
    TermShapes <- MCTermShapesGoto
    FactChoices <- MCFactChoicesAll
SPECIFICATION Spec
CHECK_DEADLOCK FALSE
INVARIANTS CellNewOnlyForLocals

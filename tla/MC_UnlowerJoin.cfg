CONSTANTS
    p = p  t = t  y = y  lp = lp  lt = lt  ly = ly  ap = ap  at = at  ay = ay
    NONE = NONE  sLet = sLet  sP = sP  sCall = sCall  sOne = sOne
    Locals <- MCLocals
    PtrIds <- MCPtrIds
    NoLabel <- NONE
    LocalTy <- MCLocalTy
    AddrOfLocal <- MCAddrOfLocal
    NumBlocks = 1
    MaxStmts = 2
    StmtShapes <- MCStmtShapes
    TermShapes <- MCTermShapes
    FactChoices <- MCFactChoices
    N = 3
    Spans <- MCSpans
    Program <- MCProgram
    ProgramHir <- MCProgramHir
    SpanOf <- MCSpanOf
    NArgs <- MCNArgs
SPECIFICATION JSpec
CHECK_DEADLOCK FALSE
INVARIANT ArgRewriteJoinsArg

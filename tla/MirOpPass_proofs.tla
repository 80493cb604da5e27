-------------------------- MODULE MirOpPass_proofs --------------------------
(***************************************************************************)
(* The loop of gen_mir_rewrites (MirOp) implements the pass's promise      *)
(* (MirPass) under the mapping of MirOpPass, for every value of the        *)
(* constants that MirOpAssumptions allows.                                 *)
(*                                                                         *)
(* The argument rests on OutputInv (MirOpOutput_proofs): since the map     *)
(* holds at every passed Location exactly its handler's output and the     *)
(* empty list elsewhere, appending a handler's output at the Location      *)
(* being visited (Record) is the same as setting it (Fill), and the        *)
(* locations past the terminator that the loop skips name no instruction.  *)
(* The handler operators that MirPass reads through INSTANCE are first     *)
(* shown equal to MirOp's own, since none of them reads the position.      *)
(***************************************************************************)
EXTENDS MirOpPass, MirOpOutput_proofs

USE MirOpAssumptions

\* MirPass reads the Locations of MirOp.
LEMMA PassLocation == Pass!M!Location = Location
BY DEF Pass!M!Location, Location

\* MirPass reads the instructions of a Location as MirOp does.
LEMMA PassShape ==
    ASSUME NEW l
    PROVE  /\ Pass!M!IsStmtLoc(l) = IsStmtLoc(l) /\ Pass!M!IsTermLoc(l) = IsTermLoc(l)
           /\ Pass!M!StmtAt(l) = StmtAt(l) /\ Pass!M!TermAt(l) = TermAt(l)
BY DEF Pass!M!IsStmtLoc, IsStmtLoc, Pass!M!IsTermLoc, IsTermLoc, Pass!M!StmtAt, StmtAt,
       Pass!M!TermAt, TermAt

\* The loop starts where the pass starts, with nothing handled.
LEMMA InitRefines == Init => Pass!Init
<1>. SUFFICES ASSUME Init PROVE Pass!Init
  OBVIOUS
<1>1. Pass!M!Init
  BY DEF Init, Pass!M!Init, Pass!M!UsedIds, UsedIds, Pass!M!BlockShapes, BlockShapes,
         Pass!M!StmtsOf, StmtsOf, Pass!M!Location, Location
<1>2. Handled = {}
  BY DEF Init, Handled, Visited, Location
<1>. QED
  BY <1>1, <1>2 DEF Pass!Init

\* The descriptor resolvers read the same analysis results in both
\* specifications (their parameters are named like the variables, so they
\* are expanded apart).
LEMMA SameDescriptors ==
    /\ \A t, a, b : Pass!M!PermsToDesc(t, a, b) = PermsToDesc(t, a, b)
    /\ \A t, a, b : Pass!M!LocalPermsToDesc(t, a, b) = LocalPermsToDesc(t, a, b)
    /\ \A lty : Pass!M!Desc(lty) = Desc(lty)
<1>0. /\ \A a : Pass!M!QtyOfPerms(a) = QtyOfPerms(a)
      /\ \A a, b : Pass!M!OwnOfPerms(a, b) = OwnOfPerms(a, b)
  BY DEF Pass!M!QtyOfPerms, QtyOfPerms, Pass!M!OwnOfPerms, OwnOfPerms
<1>1. \A t, a, b : Pass!M!PermsToDesc(t, a, b) = PermsToDesc(t, a, b)
  BY <1>0 DEF Pass!M!PermsToDesc, PermsToDesc
<1>2. \A t, a, b : Pass!M!LocalPermsToDesc(t, a, b) = LocalPermsToDesc(t, a, b)
  BY <1>0 DEF Pass!M!LocalPermsToDesc, LocalPermsToDesc
<1>3. \A lty : Pass!M!Desc(lty) = Desc(lty)
  BY <1>1 DEF Pass!M!Desc, Desc
<1>. QED
  BY <1>1, <1>2, <1>3

\* The handler operators are the same in both specifications: none of them
\* reads the loop's position.
LEMMA SameHandlers ==
    /\ \A t : Pass!M!PtrOffsetRewrites(t) = PtrOffsetRewrites(t)
    /\ \A t : Pass!M!SliceAsPtrRewrites(t) = SliceAsPtrRewrites(t)
    /\ \A st : Pass!M!AssignRewrites(st) = AssignRewrites(st)
<1>1. /\ \A k, m, sb : Pass!M!Emit(k, m, sb) = Emit(k, m, sb)
      /\ Pass!M!NoRewrite = NoRewrite
      /\ \A a, b : Pass!M!Then(a, b) = Then(a, b)
      /\ \A pl : Pass!M!TypeOf(pl) = TypeOf(pl)
      /\ \A op : Pass!M!TypeOfOperand(op) = TypeOfOperand(op)
      /\ \A rv : Pass!M!RvalueTy(rv) = RvalueTy(rv)
      /\ \A lty : Pass!M!IsAnyPtr(lty) = IsAnyPtr(lty)
      /\ \A q : Pass!M!Widen(q) = Widen(q)
      /\ Pass!M!AssignRvalueLoc = AssignRvalueLoc
      /\ \A n : Pass!M!RvalueOperandLoc(n) = RvalueOperandLoc(n)
      /\ \A n : Pass!M!CallArgLoc(n) = CallArgLoc(n)
  BY DEF Pass!M!Emit, Emit, Pass!M!NoRewrite, NoRewrite, Pass!M!Then, Then,
         Pass!M!TypeOf, TypeOf, Pass!M!IntTy, IntTy, Pass!M!TypeOfOperand, TypeOfOperand,
         Pass!M!RvalueTy, RvalueTy, Pass!M!IsAnyPtr, IsAnyPtr, Pass!M!Widen, Widen,
         Pass!M!AssignRvalueLoc, AssignRvalueLoc, Pass!M!RvalueOperandLoc,
         RvalueOperandLoc, Pass!M!CallArgLoc, CallArgLoc
<1>2. \A a, b, sb : Pass!M!EmitCastDescDesc(a, b, sb) = EmitCastDescDesc(a, b, sb)
  BY <1>1 DEF Pass!M!EmitCastDescDesc, EmitCastDescDesc
<1>3. \A a, b, sb : Pass!M!EmitCastLtyLty(a, b, sb) = EmitCastLtyLty(a, b, sb)
  BY <1>1, <1>2, SameDescriptors DEF Pass!M!EmitCastLtyLty, EmitCastLtyLty
<1>4. /\ \A op, e, sb : Pass!M!VisitOperand(op, e, sb) = VisitOperand(op, e, sb)
      /\ \A op, e, sb : Pass!M!VisitOperandDesc(op, e, sb) = VisitOperandDesc(op, e, sb)
  BY <1>1, <1>2, <1>3, SameDescriptors
  DEF Pass!M!VisitOperand, VisitOperand, Pass!M!VisitOperandDesc, VisitOperandDesc
<1>5. \A rv, e, sb : Pass!M!VisitRvalue(rv, e, sb) = VisitRvalue(rv, e, sb)
  BY <1>1, <1>4, SameDescriptors DEF Pass!M!VisitRvalue, VisitRvalue
<1>6. /\ \A pl : Pass!M!CellSetRw(pl) = CellSetRw(pl)
      /\ \A pl, rv : Pass!M!CellNewRw(pl, rv) = CellNewRw(pl, rv)
      /\ \A rv : Pass!M!CellGetRw(rv) = CellGetRw(rv)
  BY <1>1, SameDescriptors
  DEF Pass!M!CellSetRw, CellSetRw, Pass!M!CellNewRw, CellNewRw, Pass!M!CellGetRw, CellGetRw
<1>7. \A st : Pass!M!AssignRewrites(st) = AssignRewrites(st)
  BY <1>1, <1>3, <1>5, <1>6 DEF Pass!M!AssignRewrites, AssignRewrites
<1>8. \A t : Pass!M!PtrOffsetRewrites(t) = PtrOffsetRewrites(t)
  BY <1>1, <1>4, SameDescriptors DEF Pass!M!PtrOffsetRewrites, PtrOffsetRewrites
<1>9. \A t : Pass!M!SliceAsPtrRewrites(t) = SliceAsPtrRewrites(t)
  BY <1>1, SameDescriptors DEF Pass!M!SliceAsPtrRewrites, SliceAsPtrRewrites
<1>. QED
  BY <1>7, <1>8, <1>9

\* At an instruction, the abstract handler output is the one OutputInv
\* keeps in the map.
LEMMA HandlerIsOutAt ==
    ASSUME NEW l, IsStmtLoc(l) \/ IsTermLoc(l)
    PROVE  /\ Pass!Handler(l) = OutAt(l)
           /\ Pass!HandlerReports(l) = Reports(l)
<1>1. Pass!Handler(l) = OutAt(l)
  BY PassShape, SameHandlers DEF Pass!Handler, OutAt, Pass!M!NoRewrite, NoRewrite
<1>. QED
  BY <1>1 DEF Pass!HandlerReports, Reports

\* The instructions of the body, in the terms of MirOp.
LEMMA InstrIsLocation ==
    Pass!Instr = {l \in Location : IsStmtLoc(l) \/ IsTermLoc(l)}
BY PassLocation, PassShape DEF Pass!Instr

\* The todo!() handlers, in the terms of MirOp.
LEMMA AbortsAt ==
    ASSUME NEW l
    PROVE  Pass!Aborts(l) = \/ IsStmtLoc(l) /\ StmtAt(l).kind \in TodoStmtKinds
                            \/ IsTermLoc(l) /\ TermAt(l).kind = "InlineAsm"
BY PassShape DEF Pass!Aborts, Pass!M!TodoStmtKinds, TodoStmtKinds


\* A step that leaves the body and the analysis results alone reads the
\* same instructions.
LEMMA ShapeUnchanged ==
    ASSUME UNCHANGED <<body, perms, flags>>
    PROVE  \A l : /\ IsStmtLoc(l)' = IsStmtLoc(l) /\ IsTermLoc(l)' = IsTermLoc(l)
                  /\ OutAt(l)' = OutAt(l) /\ Reports(l)' = Reports(l)
BY OutAtUnchanged

\* A step of the loop that runs the whole handler of one instruction not
\* handled before, and passes no other instruction, is a Fill step of the
\* pass.
LEMMA FillStep ==
    ASSUME TypeOK, TypeOK', OutputInv, OutputInv', status = "running",
           UNCHANGED <<body, perms, flags, status>>,
           NEW loc \in Location, IsStmtLoc(loc) \/ IsTermLoc(loc),
           ~Visited(loc), Visited(loc)',
           \A l \in Location : Visited(l) => Visited(l)',
           \A l \in Location : Visited(l)' /\ ~Visited(l) /\ l # loc =>
                                  ~IsStmtLoc(l) /\ ~IsTermLoc(l),
           ~Pass!Aborts(loc)
    PROVE  Pass!Next
<1>1. loc \in Pass!Instr \ Handled
  BY InstrIsLocation DEF Handled
<1>2. Handled' = Handled \cup {loc}
  BY ShapeUnchanged DEF Handled
<1>3. \A l \in Location : Visited(l)' /\ ~Visited(l) /\ l # loc => OutAt(l) = NoRewrite
  BY NoInstrNoOut
<1>4. rewrites' = [rewrites EXCEPT ![loc] = Pass!Handler(loc).rw]
  <2>1. Pass!Handler(loc) = OutAt(loc)
    BY HandlerIsOutAt
  <2>2. rewrites \in [Location -> Seq(MirRewrite)] /\ rewrites' \in [Location -> Seq(MirRewrite)]
    BY DEF TypeOK
  <2>3. ASSUME NEW l \in Location
        PROVE  rewrites'[l] = IF l = loc THEN OutAt(loc).rw ELSE rewrites[l]
    <3>1. rewrites'[l] = IF Visited(l)' THEN OutAt(l).rw ELSE << >>
      BY ShapeUnchanged DEF OutputInv
    <3>2. rewrites[l] = IF Visited(l) THEN OutAt(l).rw ELSE << >>
      BY DEF OutputInv
    <3>. QED
      BY <1>3, <3>1, <3>2 DEF NoRewrite
  <2>. QED
    BY <2>1, <2>2, <2>3
<1>5. unsupported' = unsupported \cup Pass!HandlerReports(loc)
  <2>1. Pass!HandlerReports(loc) = Reports(loc)
    BY HandlerIsOutAt
  <2>2. \A l \in Location : Visited(l)' /\ ~Visited(l) /\ l # loc => Reports(l) = {}
    BY <1>3 DEF Reports, NoRewrite
  <2>3. unsupported' = UNION {Reports(l) : l \in {m \in Location : Visited(m)'}}
    BY ShapeUnchanged DEF OutputInv
  <2>4. unsupported = UNION {Reports(l) : l \in {m \in Location : Visited(m)}}
    BY DEF OutputInv
  <2>. QED
    BY <2>1, <2>2, <2>3, <2>4
<1>6. Pass!Fill(loc)
  BY <1>1, <1>2, <1>4, <1>5 DEF Pass!Fill
<1>. QED
  BY <1>1, <1>6 DEF Pass!Next

\* A todo!() handler panicking at an instruction not handled before is an
\* Abort step of the pass.
LEMMA AbortStep ==
    ASSUME status = "running", status' = "panicked",
           UNCHANGED <<body, perms, flags, bb, idx, rewrites, unsupported>>,
           NEW loc \in Location, IsStmtLoc(loc) \/ IsTermLoc(loc), ~Visited(loc),
           Pass!Aborts(loc)
    PROVE  Pass!Next
<1>1. loc \in Pass!Instr \ Handled
  BY InstrIsLocation DEF Handled
<1>2. Handled' = Handled
  BY ShapeUnchanged DEF Handled, Visited
<1>3. Pass!Abort(loc)
  BY <1>1, <1>2 DEF Pass!Abort
<1>. QED
  BY <1>1, <1>3 DEF Pass!Next


\* Passing the terminator of a block (the loop moves to the next block)
\* runs that terminator's handler, and passes no other instruction.
LEMMA TermFill ==
    ASSUME TypeOK, OutputInv, TypeOK', OutputInv', status = "running", AtTerminator,
           bb' = bb + 1, idx' = 0, UNCHANGED <<body, perms, flags, status>>,
           CurTerm.kind # "InlineAsm"
    PROVE  Pass!Next
<1>1. /\ TermLoc \in Location /\ ~Visited(TermLoc) /\ (\A l \in {TermLoc} : Visited(l)')
      /\ \A l \in Location : Visited(l) => Visited(l)'
      /\ \A l \in Location : Visited(l)' /\ ~Visited(l) /\ l # TermLoc =>
                                ~IsStmtLoc(l) /\ ~IsTermLoc(l)
      /\ ~IsStmtLoc(TermLoc) /\ IsTermLoc(TermLoc) /\ TermAt(TermLoc) = CurTerm
  BY TermStepVisited
<1>2. PICK loc \in Location : loc = TermLoc
  BY <1>1
<1>3. ~Pass!Aborts(loc)
  BY <1>1, <1>2, AbortsAt
<1>. QED
  BY <1>1, <1>2, <1>3, FillStep

\* Passing a statement runs that statement's handler, and passes no other
\* instruction.
LEMMA StmtFill ==
    ASSUME TypeOK, OutputInv, TypeOK', OutputInv', status = "running", AtStatement,
           bb' = bb, idx' = idx + 1, UNCHANGED <<body, perms, flags, status>>,
           CurStmt.kind \notin TodoStmtKinds
    PROVE  Pass!Next
<1>1. /\ StmtLoc \in Location /\ ~Visited(StmtLoc) /\ (\A l \in {StmtLoc} : Visited(l)')
      /\ \A l \in Location : Visited(l) => Visited(l)'
      /\ \A l \in Location : Visited(l)' /\ ~Visited(l) => l = StmtLoc
      /\ IsStmtLoc(StmtLoc) /\ StmtAt(StmtLoc) = CurStmt
  BY StmtStepVisited
<1>2. PICK loc \in Location : loc = StmtLoc
  BY <1>1
<1>3. ~Pass!Aborts(loc)
  <2>1. ~IsTermLoc(loc)
    BY <1>1, <1>2 DEF IsStmtLoc, IsTermLoc
  <2>. QED
    BY <1>1, <1>2, <2>1, AbortsAt
<1>. QED
  BY <1>1, <1>2, <1>3, FillStep

\* Every step of the loop is a step of the pass or leaves its variables
\* alone.
LEMMA StepRefines ==
    TypeOK /\ OutputInv /\ [Next]_vars => [Pass!Next]_Pass!avars
<1>. SUFFICES ASSUME TypeOK, OutputInv, [Next]_vars PROVE [Pass!Next]_Pass!avars
  OBVIOUS
<1>0. TypeOK' /\ OutputInv'
  BY NextTypeOK, NextOutputInv
<1>1. CASE VisitAssign \/ VisitIgnoredStatement
  <2>1. /\ status = "running" /\ AtStatement /\ bb' = bb /\ idx' = idx + 1
        /\ UNCHANGED <<body, perms, flags, status>>
        /\ CurStmt.kind \notin TodoStmtKinds
    BY <1>1 DEF VisitAssign, VisitIgnoredStatement, IgnoredStmtKinds, TodoStmtKinds
  <2>. QED
    BY <1>0, <2>1, StmtFill
<1>2. CASE VisitTodoStatement
  <2>1. /\ status = "running" /\ status' = "panicked" /\ AtStatement
        /\ CurStmt.kind \in TodoStmtKinds
        /\ UNCHANGED <<body, perms, flags, bb, idx, rewrites, unsupported>>
    BY <1>2 DEF VisitTodoStatement
  <2>2. /\ StmtLoc \in Location /\ ~Visited(StmtLoc)
        /\ IsStmtLoc(StmtLoc) /\ StmtAt(StmtLoc) = CurStmt
    BY <2>1, StmtLocFresh, CurrentType DEF TypeOK, IsStmtLoc, StmtAt, StmtLoc,
       AtStatement, CurStmt, CurBlock
  <2>3. Pass!Aborts(StmtLoc)
    BY <2>1, <2>2, AbortsAt
  <2>. QED
    BY <2>1, <2>2, <2>3, AbortStep
<1>3. CASE VisitPtrOffset \/ VisitSliceAsPtr \/ VisitOtherCall \/ VisitIgnoredTerminator
  <2>1. Desc(TypeOf(CurTerm.dest)).qty # "Array"
    BY QtyNeverArray
  <2>2. /\ status = "running" /\ AtTerminator /\ NextBlock
        /\ UNCHANGED <<body, perms, flags, status>>
        /\ CurTerm.kind # "InlineAsm"
    BY <1>3, <2>1 DEF VisitPtrOffset, VisitSliceAsPtr, VisitOtherCall,
       VisitIgnoredTerminator, IgnoredTermKinds
  <2>. QED
    BY <1>0, <2>2, TermFill DEF NextBlock
<1>4. CASE VisitInlineAsm
  <2>1. /\ status = "running" /\ status' = "panicked" /\ AtTerminator
        /\ CurTerm.kind = "InlineAsm"
        /\ UNCHANGED <<body, perms, flags, bb, idx, rewrites, unsupported>>
    BY <1>4 DEF VisitInlineAsm
  <2>2. /\ TermLoc \in Location /\ ~Visited(TermLoc)
        /\ IsTermLoc(TermLoc) /\ TermAt(TermLoc) = CurTerm
    BY <2>1, TermLocFresh, CurrentType DEF TypeOK, IsTermLoc, TermAt, TermLoc,
       AtTerminator, CurTerm, CurBlock
  <2>3. Pass!Aborts(TermLoc)
    BY <2>1, <2>2, AbortsAt
  <2>. QED
    BY <2>1, <2>2, <2>3, AbortStep
<1>5. CASE Finish
  <2>1. /\ status = "running" /\ status' = "done" /\ bb = NumBlocks
        /\ UNCHANGED <<body, perms, flags, bb, idx, rewrites, unsupported>>
    BY <1>5 DEF Finish
  <2>2. \A l \in Location : Visited(l)
    BY <2>1 DEF Location, Visited
  <2>3. Handled = Pass!Instr /\ Handled' = Handled
    BY <2>1, <2>2, InstrIsLocation, ShapeUnchanged DEF Handled, Visited
  <2>4. Pass!Done
    BY <2>1, <2>3 DEF Pass!Done
  <2>. QED
    BY <2>4 DEF Pass!Next
<1>6. CASE UNCHANGED vars
  <2>1. UNCHANGED <<body, perms, flags, bb, idx, rewrites, unsupported, status>>
    BY <1>6 DEF vars
  <2>2. Handled' = Handled
    BY <2>1, ShapeUnchanged DEF Handled, Visited
  <2>. QED
    BY <2>1, <2>2 DEF Pass!avars
<1>. QED
  BY <1>1, <1>2, <1>3, <1>4, <1>5, <1>6 DEF Next


\* gen_mir_rewrites implements its promise, for every body and every
\* analysis result: every visit_statement or visit_terminator call fills one
\* instruction not filled before with exactly its handler's rewrites and
\* reports, or panics in a todo!() handler, and the map is returned only
\* once every instruction was visited.  (The fairness part of Pass!Spec is
\* a liveness property and is checked by TLC only.)
THEOREM Implementation == Spec => Pass!SafeSpec
<1>1. Init => Pass!Init
  BY InitRefines
<1>2. TypeOK /\ OutputInv /\ [Next]_vars => [Pass!Next]_Pass!avars
  BY StepRefines
<1>. QED
  BY <1>1, <1>2, OutputIsHandlerOutput, PTL DEF Spec, Pass!SafeSpec

=============================================================================

------------------------ MODULE MirOpOutput_proofs -------------------------
(***************************************************************************)
(* The output of gen_mir_rewrites, for every value of the constants that   *)
(* MirOpAssumptions allows: the map holds, at every Location the loop has  *)
(* passed, exactly what that instruction's handler emitted, and nothing    *)
(* elsewhere; the reported casts are exactly the ones those handlers       *)
(* dropped.  The properties of the handlers (OffsetCallShape,             *)
(* CellAccessConsistent) follow from it and from lemmas                    *)
(* about the handler operators.                                           *)
(***************************************************************************)
EXTENDS MirOp_proofs, SequenceTheorems

USE MirOpAssumptions

\* What visit_statement or visit_terminator emits at Location l: Assign and
\* the two recognised calls emit, every other instruction nothing.  (A
\* todo!() or unreachable!() handler never completes, so it emits nothing
\* that stays in the map.)
OutAt(l) ==
    IF IsStmtLoc(l)
    THEN IF StmtAt(l).kind = "Assign" THEN AssignRewrites(StmtAt(l)) ELSE NoRewrite
    ELSE IF IsTermLoc(l) /\ TermAt(l).kind = "Call" /\ TermAt(l).callee = "PtrOffset"
         THEN PtrOffsetRewrites(TermAt(l))
    ELSE IF IsTermLoc(l) /\ TermAt(l).kind = "Call" /\ TermAt(l).callee = "SliceAsPtr"
         THEN SliceAsPtrRewrites(TermAt(l))
    ELSE NoRewrite

\* The unsupported-cast messages logged at l.
Reports(l) ==
    {[loc |-> l, sub_loc |-> d.sub_loc, from |-> d.from, to |-> d.to] : d \in OutAt(l).drop}

\* The loop never runs past the terminator of the current block.
PosOK == bb < NumBlocks => idx <= Len(CurBlock.stmts)

\* The output map and the log are the handlers' outputs at the visited
\* locations.
OutputInv ==
    /\ PosOK
    /\ \A l \in Location : rewrites[l] = IF Visited(l) THEN OutAt(l).rw ELSE << >>
    /\ unsupported = UNION {Reports(l) : l \in {m \in Location : Visited(m)}}

-----------------------------------------------------------------------------
(* Lemmas.                                                                 *)

\* The handlers read only the body and the analysis results, which no step
\* changes.
LEMMA OutAtUnchanged ==
    ASSUME UNCHANGED <<body, perms, flags>>, NEW l
    PROVE  /\ OutAt(l)' = OutAt(l)
           /\ Reports(l)' = Reports(l)
           /\ IsStmtLoc(l)' = IsStmtLoc(l) /\ IsTermLoc(l)' = IsTermLoc(l)
<1>1. OutAt(l)' = OutAt(l)
  BY DEF OutAt, IsStmtLoc, IsTermLoc, StmtAt, TermAt, AssignRewrites,
         PtrOffsetRewrites, SliceAsPtrRewrites, CellSetRw, CellNewRw, CellGetRw,
         VisitRvalue, VisitOperand, VisitOperandDesc, EmitCastLtyLty,
         EmitCastDescDesc, Desc, TypeOf, TypeOfOperand, RvalueTy
<1>. QED
  BY <1>1 DEF Reports, IsStmtLoc, IsTermLoc

\* Nothing is visited at the start.
LEMMA InitOutputInv == Init => OutputInv
<1>. SUFFICES ASSUME Init PROVE OutputInv
  OBVIOUS
<1>1. \A l \in Location : ~Visited(l)
  BY DEF Init, Visited, Location
<1>2. PosOK
  BY DEF Init, PosOK
<1>. QED
  BY <1>1, <1>2 DEF Init, OutputInv

\* A step that records the output of the handler of the one Location it
\* newly visits (and possibly newly visits locations with no instruction)
\* keeps the map and the log equal to the handlers' outputs.
LEMMA RecordKeeps ==
    ASSUME TypeOK, OutputInv, NEW loc \in Location, ~Visited(loc), Visited(loc)',
           UNCHANGED <<body, perms, flags>>,
           OutAt(loc).rw \in Seq(MirRewrite),
           Record(loc, OutAt(loc)),
           \A l \in Location : Visited(l) => Visited(l)',
           \A l \in Location : Visited(l)' /\ ~Visited(l) /\ l # loc => OutAt(l) = NoRewrite
    PROVE  /\ \A l \in Location : rewrites'[l] = IF Visited(l)' THEN OutAt(l)'.rw ELSE << >>
           /\ unsupported' = UNION {Reports(l)' : l \in {m \in Location : Visited(m)'}}
<1>1. \A l \in Location : OutAt(l)' = OutAt(l) /\ Reports(l)' = Reports(l)
  BY OutAtUnchanged
<1>2. ASSUME NEW l \in Location
      PROVE  rewrites'[l] = IF Visited(l)' THEN OutAt(l).rw ELSE << >>
  <2>1. CASE l = loc
    <3>1. rewrites[l] = << >>
      BY <2>1 DEF OutputInv
    <3>. QED
      BY <2>1, <3>1 DEF Record, TypeOK
  <2>2. CASE l # loc
    <3>1. rewrites'[l] = rewrites[l]
      BY <2>2 DEF Record, TypeOK
    <3>2. CASE Visited(l)
      BY <3>1, <3>2 DEF OutputInv
    <3>3. CASE ~Visited(l) /\ Visited(l)'
      BY <2>2, <3>1, <3>3 DEF OutputInv, NoRewrite
    <3>4. CASE ~Visited(l) /\ ~Visited(l)'
      BY <3>1, <3>4 DEF OutputInv
    <3>. QED
      BY <3>2, <3>3, <3>4
  <2>. QED
    BY <2>1, <2>2
<1>3. unsupported' = UNION {Reports(l) : l \in {m \in Location : Visited(m)'}}
  <2>1. unsupported' = unsupported \cup Reports(loc)
    BY DEF Record, Reports
  <2>2. \A l \in Location : Visited(l)' /\ ~Visited(l) /\ l # loc => Reports(l) = {}
    BY DEF Reports, NoRewrite
  <2>. QED
    BY <2>1, <2>2 DEF OutputInv
<1>. QED
  BY <1>1, <1>2, <1>3

\* A step that records nothing and newly visits only locations whose
\* handler emits nothing keeps the map and the log.
LEMMA SilentKeeps ==
    ASSUME OutputInv, UNCHANGED <<body, perms, flags, rewrites, unsupported>>,
           \A l \in Location : Visited(l) => Visited(l)',
           \A l \in Location : Visited(l)' /\ ~Visited(l) => OutAt(l) = NoRewrite
    PROVE  /\ \A l \in Location : rewrites'[l] = IF Visited(l)' THEN OutAt(l)'.rw ELSE << >>
           /\ unsupported' = UNION {Reports(l)' : l \in {m \in Location : Visited(m)'}}
<1>1. \A l \in Location : OutAt(l)' = OutAt(l) /\ Reports(l)' = Reports(l)
  BY OutAtUnchanged
<1>2. \A l \in Location : Visited(l)' /\ ~Visited(l) => Reports(l) = {}
  BY DEF Reports, NoRewrite
<1>. QED
  BY <1>1, <1>2 DEF OutputInv, NoRewrite

\* visit_statement moves to the next statement of the block: exactly the
\* statement's own Location becomes visited.
LEMMA StmtStepVisited ==
    ASSUME TypeOK, AtStatement, bb' = bb, idx' = idx + 1
    PROVE  /\ StmtLoc \in Location /\ ~Visited(StmtLoc) /\ (\A l \in {StmtLoc} : Visited(l)')
           /\ \A l \in Location : Visited(l) => Visited(l)'
           /\ \A l \in Location : Visited(l)' /\ ~Visited(l) => l = StmtLoc
           /\ IsStmtLoc(StmtLoc) /\ StmtAt(StmtLoc) = CurStmt
<1>1. StmtLoc \in Location /\ bb \in Nat /\ idx \in Nat
  BY CurrentType DEF TypeOK
<1>2. ~Visited(StmtLoc) /\ (\A l \in {StmtLoc} : Visited(l)')
  BY <1>1 DEF Visited, StmtLoc
<1>3. ASSUME NEW l \in Location
      PROVE  /\ Visited(l) => Visited(l)'
             /\ Visited(l)' /\ ~Visited(l) => l = StmtLoc
  <2>1. l = [block |-> l.block, statement_index |-> l.statement_index]
        /\ l.block \in Nat /\ l.statement_index \in Nat
    BY DEF Location
  <2>. QED
    BY <1>1, <2>1 DEF Visited, StmtLoc
<1>4. IsStmtLoc(StmtLoc) /\ StmtAt(StmtLoc) = CurStmt
  BY DEF AtStatement, IsStmtLoc, StmtLoc, StmtAt, CurStmt, CurBlock
<1>. QED
  BY <1>1, <1>2, <1>3, <1>4

\* After the terminator the loop moves to the next block: the terminator's
\* Location becomes visited, together with the Locations of the block past
\* it, which name no instruction.
LEMMA TermStepVisited ==
    ASSUME TypeOK, AtTerminator, bb' = bb + 1, idx' = 0
    PROVE  /\ TermLoc \in Location /\ ~Visited(TermLoc) /\ (\A l \in {TermLoc} : Visited(l)')
           /\ \A l \in Location : Visited(l) => Visited(l)'
           /\ \A l \in Location : Visited(l)' /\ ~Visited(l) /\ l # TermLoc =>
                                     ~IsStmtLoc(l) /\ ~IsTermLoc(l)
           /\ ~IsStmtLoc(TermLoc) /\ IsTermLoc(TermLoc) /\ TermAt(TermLoc) = CurTerm
<1>1. TermLoc \in Location /\ bb \in Nat /\ idx \in Nat /\ ~Visited(TermLoc)
  BY CurrentType, TermLocFresh DEF TypeOK
<1>2. (\A l \in {TermLoc} : Visited(l)')
  BY <1>1 DEF Visited, TermLoc
<1>3. ASSUME NEW l \in Location
      PROVE  /\ Visited(l) => Visited(l)'
             /\ Visited(l)' /\ ~Visited(l) /\ l # TermLoc => ~IsStmtLoc(l) /\ ~IsTermLoc(l)
  <2>1. l = [block |-> l.block, statement_index |-> l.statement_index]
        /\ l.block \in Nat /\ l.statement_index \in Nat
    BY DEF Location
  <2>2. Visited(l) => Visited(l)'
    BY <1>1, <2>1 DEF Visited
  <2>3. ASSUME Visited(l)', ~Visited(l), l # TermLoc
        PROVE  l.block = bb /\ l.statement_index > idx
    BY <1>1, <2>1, <2>3 DEF Visited, TermLoc, AtTerminator, CurBlock
  <2>4. Len(body[bb].stmts) = idx /\ idx \in Nat
    BY <1>1 DEF AtTerminator, CurBlock
  <2>5. ASSUME Visited(l)', ~Visited(l), l # TermLoc
        PROVE  ~IsStmtLoc(l) /\ ~IsTermLoc(l)
    <3>1. l.block = bb /\ l.statement_index > Len(body[bb].stmts)
      BY <2>3, <2>4, <2>5
    <3>2. l.statement_index \in Nat /\ Len(body[bb].stmts) \in Nat
      BY <2>1, <2>4
    <3>. QED
      BY <3>1, <3>2 DEF IsStmtLoc, IsTermLoc
  <2>. QED
    BY <2>2, <2>5
<1>4. ~IsStmtLoc(TermLoc) /\ IsTermLoc(TermLoc) /\ TermAt(TermLoc) = CurTerm
  BY DEF AtTerminator, IsStmtLoc, IsTermLoc, TermLoc, TermAt, CurTerm, CurBlock
<1>. QED
  BY <1>1, <1>2, <1>3, <1>4

\* A Location that names no instruction has no handler output.
LEMMA NoInstrNoOut ==
    ASSUME NEW l, ~IsStmtLoc(l), ~IsTermLoc(l)
    PROVE  OutAt(l) = NoRewrite
BY DEF OutAt

\* Moving on within the block keeps the position inside the block.
LEMMA StmtStepPos ==
    ASSUME TypeOK, AtStatement, bb' = bb, idx' = idx + 1, body' = body
    PROVE  PosOK'
<1>1. idx \in Nat /\ bb \in 0 .. NumBlocks - 1
  BY DEF TypeOK, AtStatement
<1>2. Len(body[bb].stmts) \in Nat /\ idx < Len(body[bb].stmts)
  BY <1>1 DEF TypeOK, Block, AtStatement, CurBlock
<1>. QED
  BY <1>1, <1>2 DEF PosOK, CurBlock

\* Moving to the next block starts at its first statement.
LEMMA TermStepPos ==
    ASSUME TypeOK, bb' = bb + 1, idx' = 0, body' = body
    PROVE  PosOK'
<1>1. bb \in Nat
  BY DEF TypeOK
<1>2. bb + 1 < NumBlocks => Len(body[bb + 1].stmts) \in Nat
  BY <1>1 DEF TypeOK, Block
<1>. QED
  BY <1>1, <1>2 DEF PosOK, CurBlock

\* Every step keeps the map and the log equal to the handlers' outputs.
LEMMA NextOutputInv == TypeOK /\ OutputInv /\ [Next]_vars => OutputInv'
<1>. SUFFICES ASSUME TypeOK, OutputInv, [Next]_vars PROVE OutputInv'
  OBVIOUS
<1>. DEFINE Kept == /\ \A l \in Location : rewrites'[l] = IF Visited(l)' THEN OutAt(l)'.rw ELSE << >>
                    /\ unsupported' = UNION {Reports(l)' : l \in {m \in Location : Visited(m)'}}
<1>0. Kept /\ PosOK' => OutputInv'
  BY DEF OutputInv
<1>1. CASE VisitAssign
  <2>0. /\ AtStatement /\ CurStmt.kind = "Assign"
        /\ Record(StmtLoc, AssignRewrites(CurStmt))
        /\ bb' = bb /\ idx' = idx + 1 /\ UNCHANGED <<body, perms, flags, status>>
    BY <1>1 DEF VisitAssign
  <2>1. /\ StmtLoc \in Location /\ ~Visited(StmtLoc) /\ (\A l \in {StmtLoc} : Visited(l)')
        /\ \A l \in Location : Visited(l) => Visited(l)'
        /\ \A l \in Location : Visited(l)' /\ ~Visited(l) => l = StmtLoc
        /\ IsStmtLoc(StmtLoc) /\ StmtAt(StmtLoc) = CurStmt
    BY <2>0, StmtStepVisited
  <2>2. PICK loc \in Location : loc = StmtLoc
    BY <2>1
  <2>3. OutAt(loc) = AssignRewrites(CurStmt)
    BY <2>0, <2>1, <2>2 DEF OutAt
  <2>4. CurStmt \in Stmt
    BY <2>0, CurrentType
  <2>5. OutAt(loc).rw \in Seq(MirRewrite)
    BY <2>3, <2>4, AssignRewritesType DEF Out
  <2>6. Kept
    <3>1. Record(loc, OutAt(loc)) /\ ~Visited(loc) /\ Visited(loc)'
      BY <2>0, <2>1, <2>2, <2>3
    <3>2. \A l \in Location : Visited(l)' /\ ~Visited(l) /\ l # loc => OutAt(l) = NoRewrite
      BY <2>1, <2>2
    <3>. QED
      BY <2>0, <2>1, <2>5, <3>1, <3>2, RecordKeeps
  <2>7. PosOK'
    BY <2>0, StmtStepPos
  <2>. QED
    BY <1>0, <2>6, <2>7
<1>2. CASE VisitIgnoredStatement
  <2>0. /\ AtStatement /\ CurStmt.kind \in IgnoredStmtKinds
        /\ bb' = bb /\ idx' = idx + 1
        /\ UNCHANGED <<body, perms, flags, rewrites, unsupported, status>>
    BY <1>2 DEF VisitIgnoredStatement
  <2>1. /\ \A l \in Location : Visited(l) => Visited(l)'
        /\ \A l \in Location : Visited(l)' /\ ~Visited(l) => l = StmtLoc
        /\ IsStmtLoc(StmtLoc) /\ StmtAt(StmtLoc) = CurStmt
    BY <2>0, StmtStepVisited
  <2>2. OutAt(StmtLoc) = NoRewrite
    BY <2>0, <2>1 DEF OutAt, IgnoredStmtKinds
  <2>3. Kept
    BY <2>0, <2>1, <2>2, SilentKeeps
  <2>4. PosOK'
    BY <2>0, StmtStepPos
  <2>. QED
    BY <1>0, <2>3, <2>4
<1>3. CASE VisitPtrOffset /\ Desc(TypeOf(CurTerm.dest)).qty # "Array"
  <2>1. Record(TermLoc, PtrOffsetRewrites(CurTerm)) /\ NextBlock /\ AtTerminator
        /\ UNCHANGED <<body, perms, flags, status>>
    BY <1>3 DEF VisitPtrOffset
  <2>2. /\ TermLoc \in Location /\ ~Visited(TermLoc) /\ (\A l \in {TermLoc} : Visited(l)')
        /\ \A l \in Location : Visited(l) => Visited(l)'
        /\ \A l \in Location : Visited(l)' /\ ~Visited(l) /\ l # TermLoc => OutAt(l) = NoRewrite
        /\ OutAt(TermLoc) = PtrOffsetRewrites(CurTerm)
    BY <1>3, <2>1, TermStepVisited, NoInstrNoOut DEF NextBlock, OutAt, VisitPtrOffset
  <2>3. OutAt(TermLoc).rw \in Seq(MirRewrite)
    BY <2>2, PtrOffsetRewritesType DEF Out
  <2>4. Kept
    BY <2>1, <2>2, <2>3, RecordKeeps
  <2>5. PosOK'
    BY <2>1, TermStepPos DEF NextBlock
  <2>. QED
    BY <1>0, <2>4, <2>5
<1>4. CASE VisitSliceAsPtr
  <2>1. Record(TermLoc, SliceAsPtrRewrites(CurTerm)) /\ NextBlock /\ AtTerminator
        /\ UNCHANGED <<body, perms, flags, status>>
        /\ CurTerm.kind = "Call" /\ CurTerm.callee = "SliceAsPtr"
    BY <1>4 DEF VisitSliceAsPtr
  <2>2. /\ TermLoc \in Location /\ ~Visited(TermLoc) /\ (\A l \in {TermLoc} : Visited(l)')
        /\ \A l \in Location : Visited(l) => Visited(l)'
        /\ \A l \in Location : Visited(l)' /\ ~Visited(l) /\ l # TermLoc => OutAt(l) = NoRewrite
        /\ OutAt(TermLoc) = SliceAsPtrRewrites(CurTerm)
    BY <2>1, TermStepVisited, NoInstrNoOut DEF NextBlock, OutAt
  <2>3. OutAt(TermLoc).rw \in Seq(MirRewrite)
    BY <2>2, SliceAsPtrRewritesType DEF Out
  <2>4. Kept
    BY <2>1, <2>2, <2>3, RecordKeeps
  <2>5. PosOK'
    BY <2>1, TermStepPos DEF NextBlock
  <2>. QED
    BY <1>0, <2>4, <2>5
<1>5. CASE VisitOtherCall \/ VisitIgnoredTerminator
  <2>1. /\ NextBlock /\ AtTerminator
        /\ UNCHANGED <<body, perms, flags, rewrites, unsupported, status>>
        /\ ~(CurTerm.kind = "Call" /\ CurTerm.callee \in {"PtrOffset", "SliceAsPtr"})
    BY <1>5 DEF VisitOtherCall, VisitIgnoredTerminator, IgnoredTermKinds
  <2>2. /\ \A l \in Location : Visited(l) => Visited(l)'
        /\ \A l \in Location : Visited(l)' /\ ~Visited(l) => OutAt(l) = NoRewrite
    BY <2>1, TermStepVisited, NoInstrNoOut DEF NextBlock, OutAt
  <2>3. Kept
    BY <2>1, <2>2, SilentKeeps
  <2>4. PosOK'
    BY <2>1, TermStepPos DEF NextBlock
  <2>. QED
    BY <1>0, <2>3, <2>4
<1>6. CASE \/ VisitTodoStatement \/ VisitInlineAsm \/ Finish \/ UNCHANGED vars
           \/ VisitPtrOffset /\ Desc(TypeOf(CurTerm.dest)).qty = "Array"
  <2>1. UNCHANGED <<body, perms, flags, bb, idx, rewrites, unsupported>>
    BY <1>6 DEF VisitTodoStatement, VisitInlineAsm, Finish, VisitPtrOffset, vars
  <2>2. \A l \in Location : Visited(l)' = Visited(l)
    BY <2>1 DEF Visited
  <2>3. Kept
    BY <2>1, <2>2, SilentKeeps
  <2>4. PosOK'
    BY <2>1 DEF PosOK, CurBlock, OutputInv
  <2>. QED
    BY <1>0, <2>3, <2>4
<1>. QED
  BY <1>1, <1>2, <1>3, <1>4, <1>5, <1>6 DEF Next

-----------------------------------------------------------------------------
(* The output of the pass.                                                 *)

\* gen_mir_rewrites keeps, in every state, for every Location it has
\* passed exactly the rewrites that instruction's handler emitted (an
\* empty list for every other Location), and logs as unsupported exactly
\* the casts those handlers dropped.
THEOREM OutputIsHandlerOutput == Spec => [](TypeOK /\ OutputInv)
<1>1. Init => TypeOK /\ OutputInv
  BY InitTypeOK, InitOutputInv
<1>2. TypeOK /\ OutputInv /\ [Next]_vars => (TypeOK /\ OutputInv)'
  BY NextTypeOK, NextOutputInv
<1>. QED
  BY <1>1, <1>2, PTL DEF Spec

\* A report logged at Location l came from l's own handler.
LEMMA ReportsAt ==
    ASSUME OutputInv, NEW l \in Location, NEW u \in unsupported, u.loc = l
    PROVE  u \in Reports(l)
BY DEF OutputInv, Reports

-----------------------------------------------------------------------------
(* Which rewrites the parts of the Assign handler emit.                    *)

\* A list holds a rewrite of kind k at path sub.
HasIn(s, k, sub) == \E i \in 1 .. Len(s) : s[i].kind = k /\ s[i].sub_loc = sub

\* Every rewrite of a list is of a kind in K.
KindsIn(s, K) == \A i \in 1 .. Len(s) : s[i].kind \in K

LEMMA HasInConcat ==
    ASSUME NEW s \in Seq(MirRewrite), NEW t \in Seq(MirRewrite), NEW k, NEW sub
    PROVE  HasIn(s \o t, k, sub) <=> HasIn(s, k, sub) \/ HasIn(t, k, sub)
<1>1. /\ Len(s \o t) = Len(s) + Len(t)
      /\ \A i \in 1 .. Len(s) + Len(t) :
            (s \o t)[i] = IF i <= Len(s) THEN s[i] ELSE t[i - Len(s)]
  BY ConcatProperties
<1>2. ASSUME HasIn(s \o t, k, sub) PROVE HasIn(s, k, sub) \/ HasIn(t, k, sub)
  <2>1. PICK i \in 1 .. Len(s \o t) : (s \o t)[i].kind = k /\ (s \o t)[i].sub_loc = sub
    BY <1>2 DEF HasIn
  <2>2. CASE i <= Len(s)
    BY <1>1, <2>1, <2>2 DEF HasIn
  <2>3. CASE ~(i <= Len(s))
    <3>1. i - Len(s) \in 1 .. Len(t) /\ (s \o t)[i] = t[i - Len(s)]
      BY <1>1, <2>1, <2>3
    <3>. QED
      BY <2>1, <3>1 DEF HasIn
  <2>. QED
    BY <2>2, <2>3
<1>3. ASSUME HasIn(s, k, sub) PROVE HasIn(s \o t, k, sub)
  <2>1. PICK i \in 1 .. Len(s) : s[i].kind = k /\ s[i].sub_loc = sub
    BY <1>3 DEF HasIn
  <2>. QED
    BY <1>1, <2>1 DEF HasIn
<1>4. ASSUME HasIn(t, k, sub) PROVE HasIn(s \o t, k, sub)
  <2>1. PICK i \in 1 .. Len(t) : t[i].kind = k /\ t[i].sub_loc = sub
    BY <1>4 DEF HasIn
  <2>2. Len(s) + i \in 1 .. Len(s \o t) /\ (s \o t)[Len(s) + i] = t[i]
    BY <1>1, <2>1
  <2>. QED
    BY <2>1, <2>2 DEF HasIn
<1>. QED
  BY <1>2, <1>3, <1>4

LEMMA KindsInConcat ==
    ASSUME NEW s \in Seq(MirRewrite), NEW t \in Seq(MirRewrite), NEW K,
           KindsIn(s, K), KindsIn(t, K)
    PROVE  KindsIn(s \o t, K)
<1>1. /\ Len(s \o t) = Len(s) + Len(t)
      /\ \A i \in 1 .. Len(s) + Len(t) :
            (s \o t)[i] = IF i <= Len(s) THEN s[i] ELSE t[i - Len(s)]
  BY ConcatProperties
<1>. QED
  BY <1>1 DEF KindsIn

\* emit_cast_desc_desc, emit_cast_lty_lty and visit_operand emit at most a
\* MutToImm; visit_rvalue adds at most a RawToRef.
LEMMA CastKinds ==
    ASSUME NEW from, NEW to, NEW sub
    PROVE  /\ KindsIn(EmitCastDescDesc(from, to, sub).rw, {"MutToImm"})
           /\ KindsIn(EmitCastLtyLty(from, to, sub).rw, {"MutToImm"})
           /\ KindsIn(VisitOperand(from, to, sub).rw, {"MutToImm"})
<1>1. KindsIn(EmitCastDescDesc(from, to, sub).rw, {"MutToImm"})
  BY DEF EmitCastDescDesc, Emit, NoRewrite, KindsIn
<1>2. \A f, t : KindsIn(EmitCastDescDesc(f, t, sub).rw, {"MutToImm"})
  BY DEF EmitCastDescDesc, Emit, NoRewrite, KindsIn
<1>3. KindsIn(NoRewrite.rw, {"MutToImm"})
  BY DEF NoRewrite, KindsIn
<1>. QED
  BY <1>1, <1>2, <1>3 DEF EmitCastLtyLty, VisitOperand

LEMMA VisitRvalueKinds ==
    ASSUME NEW rv, NEW expect, NEW sub
    PROVE  KindsIn(VisitRvalue(rv, expect, sub).rw, {"RawToRef", "MutToImm"})
<1>. DEFINE at == Append(sub, RvalueOperandLoc(0))
            K == {"RawToRef", "MutToImm"}
<1>1. KindsIn(VisitOperand(rv.op, expect, at).rw, K)
  <2>1. KindsIn(VisitOperand(rv.op, expect, at).rw, {"MutToImm"})
    BY CastKinds
  <2>. QED
    BY <2>1 DEF KindsIn
<1>2. \A m : KindsIn(Emit("RawToRef", m, at).rw, K)
  BY DEF Emit, KindsIn
<1>3. KindsIn(NoRewrite.rw, K)
  BY DEF NoRewrite, KindsIn
<1>. HIDE DEF at
<1>4. CASE rv.kind = "Use"
  <2>1. VisitRvalue(rv, expect, sub) = VisitOperand(rv.op, expect, at)
    BY <1>4 DEF VisitRvalue, at
  <2>. QED
    BY <1>1, <2>1
<1>5. CASE rv.kind = "AddressOf"
  <2>1. \/ VisitRvalue(rv, expect, sub) = Emit("RawToRef", FALSE, at)
        \/ VisitRvalue(rv, expect, sub) = Emit("RawToRef", rv.mutbl, at)
        \/ VisitRvalue(rv, expect, sub) = NoRewrite
    BY <1>5 DEF VisitRvalue, at
  <2>. QED
    BY <1>2, <1>3, <2>1
<1>6. CASE rv.kind # "Use" /\ rv.kind # "AddressOf"
  <2>1. VisitRvalue(rv, expect, sub) = NoRewrite
    BY <1>6 DEF VisitRvalue
  <2>. QED
    BY <1>3, <2>1
<1>. QED
  BY <1>4, <1>5, <1>6

\* The Assign handler emits Cell::set (at the rvalue) exactly when its
\* destination is `*v` for a pointer local v that resolves to Cell, and
\* Cell::get (at the rvalue's operand) exactly when its rvalue is a use of
\* A single Emit holds one rewrite of its kind at its path; NoRewrite none.
LEMMA EmitFacts ==
    ASSUME NEW k, NEW mu, NEW p, NEW K
    PROVE  /\ KindsIn(Emit(k, mu, p).rw, {k})
           /\ HasIn(Emit(k, mu, p).rw, k, p)
           /\ KindsIn(NoRewrite.rw, K)
           /\ ~HasIn(NoRewrite.rw, k, p)
BY DEF Emit, NoRewrite, KindsIn, HasIn

\* `*v` for a pointer local v flagged CELL.
LEMMA AssignCellRewrites ==
    ASSUME NEW s \in Stmt, ~(s.rv.kind = "Cast" /\ s.voidCast)
    PROVE  /\ HasIn(AssignRewrites(s).rw, "CellSet", << AssignRvalueLoc >>) <=>
                 /\ s.dest.deref /\ IsAnyPtr(LocalTy[s.dest.local])
                 /\ Desc(LocalTy[s.dest.local]).own = "Cell"
           /\ HasIn(AssignRewrites(s).rw, "CellGet", << AssignRvalueLoc, RvalueOperandLoc(0) >>) <=>
                 /\ s.rv.kind = "Use" /\ s.rv.op.kind = "Place" /\ s.rv.op.place.deref
                 /\ IsAnyPtr(LocalTy[s.rv.op.place.local])
                 /\ "CELL" \in flags[LocalTy[s.rv.op.place.local].label]
<1>. DEFINE A == CellSetRw(s.dest)
            B == CellNewRw(s.dest, s.rv)
            C == CellGetRw(s.rv)
            D == VisitRvalue(s.rv, RvalueTy(s.rv), << AssignRvalueLoc >>)
            E == EmitCastLtyLty(RvalueTy(s.rv), TypeOf(s.dest), << >>)
            SetP == << AssignRvalueLoc >>
            GetP == << AssignRvalueLoc, RvalueOperandLoc(0) >>
<1>1. AssignRewrites(s).rw = (((A.rw \o B.rw) \o C.rw) \o D.rw) \o E.rw
  BY DEF AssignRewrites, Then
<1>2. /\ A \in Out /\ B \in Out /\ C \in Out
      /\ D \in Out /\ E \in Out
  <2>1. s.rv \in Rvalue
    BY DEF Stmt
  <2>. QED
    BY <2>1, CellRwType, VisitRvalueType, SubLocPaths, EmitCastLtyLtyType
<1>3. /\ A.rw \in Seq(MirRewrite) /\ B.rw \in Seq(MirRewrite) /\ C.rw \in Seq(MirRewrite)
      /\ D.rw \in Seq(MirRewrite) /\ E.rw \in Seq(MirRewrite)
  BY <1>2 DEF Out
<1>4. KindsIn(B.rw, {"CellNew"})
  <2>1. B = Emit("CellNew", FALSE, << AssignRvalueLoc, RvalueOperandLoc(0) >>) \/ B = NoRewrite
    BY DEF CellNewRw
  <2>. QED
    BY <2>1, EmitFacts
<1>5. KindsIn(D.rw, {"RawToRef", "MutToImm"})
  BY VisitRvalueKinds
<1>6. KindsIn(E.rw, {"MutToImm"})
  BY CastKinds
<1>7. KindsIn(A.rw, {"CellSet"})
  <2>1. A = Emit("CellSet", FALSE, << AssignRvalueLoc >>) \/ A = NoRewrite
    BY DEF CellSetRw
  <2>. QED
    BY <2>1, EmitFacts
<1>8. KindsIn(C.rw, {"CellGet"})
  <2>1. C = Emit("CellGet", FALSE, << AssignRvalueLoc, RvalueOperandLoc(0) >>) \/ C = NoRewrite
    BY DEF CellGetRw
  <2>. QED
    BY <2>1, EmitFacts
<1>9. HasIn(A.rw, "CellSet", SetP) <=>
        s.dest.deref /\ IsAnyPtr(LocalTy[s.dest.local]) /\ Desc(LocalTy[s.dest.local]).own = "Cell"
  <2>. DEFINE cond == s.dest.deref /\ IsAnyPtr(LocalTy[s.dest.local])
                      /\ Desc(LocalTy[s.dest.local]).own = "Cell"
  <2>1. /\ cond => A = Emit("CellSet", FALSE, SetP)
        /\ ~cond => A = NoRewrite
    BY DEF CellSetRw
  <2>. HIDE DEF A, cond
  <2>. QED
    BY <2>1, EmitFacts DEF cond
<1>10. HasIn(C.rw, "CellGet", GetP) <=>
            /\ s.rv.kind = "Use" /\ s.rv.op.kind = "Place" /\ s.rv.op.place.deref
            /\ IsAnyPtr(LocalTy[s.rv.op.place.local])
            /\ "CELL" \in flags[LocalTy[s.rv.op.place.local].label]
  <2>. DEFINE cond == /\ s.rv.kind = "Use" /\ s.rv.op.kind = "Place" /\ s.rv.op.place.deref
                      /\ IsAnyPtr(LocalTy[s.rv.op.place.local])
                      /\ "CELL" \in flags[LocalTy[s.rv.op.place.local].label]
  <2>1. /\ cond => C = Emit("CellGet", FALSE, GetP)
        /\ ~cond => C = NoRewrite
    BY DEF CellGetRw
  <2>. HIDE DEF C, cond
  <2>. QED
    BY <2>1, EmitFacts DEF cond
<1>. HIDE DEF A, B, C, D, E, SetP, GetP
<1>11. /\ ~HasIn(B.rw, "CellSet", SetP) /\ ~HasIn(C.rw, "CellSet", SetP)
       /\ ~HasIn(D.rw, "CellSet", SetP) /\ ~HasIn(E.rw, "CellSet", SetP)
  <2>1. ~HasIn(B.rw, "CellSet", SetP)
    BY <1>4 DEF KindsIn, HasIn
  <2>2. ~HasIn(C.rw, "CellSet", SetP)
    BY <1>8 DEF KindsIn, HasIn
  <2>3. ~HasIn(D.rw, "CellSet", SetP)
    BY <1>5 DEF KindsIn, HasIn
  <2>4. ~HasIn(E.rw, "CellSet", SetP)
    BY <1>6 DEF KindsIn, HasIn
  <2>. QED
    BY <2>1, <2>2, <2>3, <2>4
<1>12. /\ ~HasIn(A.rw, "CellGet", GetP) /\ ~HasIn(B.rw, "CellGet", GetP)
       /\ ~HasIn(D.rw, "CellGet", GetP) /\ ~HasIn(E.rw, "CellGet", GetP)
  <2>1. ~HasIn(A.rw, "CellGet", GetP)
    BY <1>7 DEF KindsIn, HasIn
  <2>2. ~HasIn(B.rw, "CellGet", GetP)
    BY <1>4 DEF KindsIn, HasIn
  <2>3. ~HasIn(D.rw, "CellGet", GetP)
    BY <1>5 DEF KindsIn, HasIn
  <2>4. ~HasIn(E.rw, "CellGet", GetP)
    BY <1>6 DEF KindsIn, HasIn
  <2>. QED
    BY <2>1, <2>2, <2>3, <2>4
<1>. DEFINE AB == A.rw \o B.rw
            ABC == AB \o C.rw
            ABCD == ABC \o D.rw
<1>13. /\ AB \in Seq(MirRewrite) /\ ABC \in Seq(MirRewrite) /\ ABCD \in Seq(MirRewrite)
  BY <1>3
<1>. HIDE DEF AB, ABC, ABCD
<1>14. ASSUME NEW k, NEW p
       PROVE  HasIn(AssignRewrites(s).rw, k, p) <=>
                \/ HasIn(A.rw, k, p) \/ HasIn(B.rw, k, p) \/ HasIn(C.rw, k, p)
                \/ HasIn(D.rw, k, p) \/ HasIn(E.rw, k, p)
  <2>1. AssignRewrites(s).rw = ABCD \o E.rw
    BY <1>1 DEF AB, ABC, ABCD
  <2>2. HasIn(ABCD \o E.rw, k, p) <=> HasIn(ABCD, k, p) \/ HasIn(E.rw, k, p)
    BY <1>3, <1>13, HasInConcat
  <2>3. HasIn(ABCD, k, p) <=> HasIn(ABC, k, p) \/ HasIn(D.rw, k, p)
    BY <1>3, <1>13, HasInConcat DEF ABCD
  <2>4. HasIn(ABC, k, p) <=> HasIn(AB, k, p) \/ HasIn(C.rw, k, p)
    BY <1>3, <1>13, HasInConcat DEF ABC
  <2>5. HasIn(AB, k, p) <=> HasIn(A.rw, k, p) \/ HasIn(B.rw, k, p)
    BY <1>3, HasInConcat DEF AB
  <2>. QED
    BY <2>1, <2>2, <2>3, <2>4, <2>5
<1>. QED
  BY <1>9, <1>10, <1>11, <1>12, <1>14 DEF SetP, GetP

\* The statement at a location inside a block is one of the model's statements.
LEMMA StmtAtType ==
    ASSUME TypeOK, NEW l \in Location, IsStmtLoc(l)
    PROVE  StmtAt(l) \in Stmt
<1>1. body[l.block] \in Block
  BY DEF TypeOK, Location
<1>2. body[l.block].stmts \in Seq(Stmt)
  BY <1>1 DEF Block
<1>3. l.statement_index + 1 \in 1 .. Len(body[l.block].stmts)
  BY DEF IsStmtLoc, Location
<1>. QED
  BY <1>2, <1>3 DEF StmtAt

\* For a pointer type, the resolver's ownership is Cell exactly when the
\* CELL flag of its label is set (perms_to_desc lets CELL dominate).
LEMMA CellOwnIsCellFlag ==
    ASSUME NEW lty, IsAnyPtr(lty)
    PROVE  Desc(lty).own = "Cell" <=> "CELL" \in flags[lty.label]
BY DEF IsAnyPtr, Desc, PermsToDesc, OwnOfPerms

\* CellAccessConsistent follows from the handler-output invariant: the store
\* and the load of one pointer local v read the same CELL flag, once through
\* the resolver's ownership and once directly.
LEMMA OutputCellConsistent ==
    TypeOK /\ OutputInv => CellAccessConsistent
<1>. SUFFICES ASSUME TypeOK, OutputInv,
                     NEW v \in Locals, NEW a \in Location, NEW b \in Location,
                     Visited(a), IsStmtLoc(a), StoreThrough(StmtAt(a), v),
                     Visited(b), IsStmtLoc(b), LoadThrough(StmtAt(b), v)
              PROVE  HasRewrite(a, "CellSet", << AssignRvalueLoc >>)
                       <=> HasRewrite(b, "CellGet", << AssignRvalueLoc, RvalueOperandLoc(0) >>)
  BY DEF CellAccessConsistent
<1>. DEFINE sa == StmtAt(a)
            sb == StmtAt(b)
<1>1. sa \in Stmt /\ sb \in Stmt
  BY StmtAtType
<1>2. /\ rewrites[a] = AssignRewrites(sa).rw
      /\ rewrites[b] = AssignRewrites(sb).rw
  BY DEF OutputInv, OutAt, StoreThrough, LoadThrough
<1>3. /\ sa.dest.deref /\ sa.dest.local = v /\ ~(sa.rv.kind = "Cast" /\ sa.voidCast)
      /\ sb.rv.kind = "Use" /\ sb.rv.op.kind = "Place" /\ sb.rv.op.place.deref
      /\ sb.rv.op.place.local = v
  BY DEF StoreThrough, LoadThrough
<1>. HIDE DEF sa, sb
<1>4. HasRewrite(a, "CellSet", << AssignRvalueLoc >>) <=>
         IsAnyPtr(LocalTy[v]) /\ Desc(LocalTy[v]).own = "Cell"
  <2>1. HasIn(AssignRewrites(sa).rw, "CellSet", << AssignRvalueLoc >>) <=>
           sa.dest.deref /\ IsAnyPtr(LocalTy[sa.dest.local]) /\ Desc(LocalTy[sa.dest.local]).own = "Cell"
    BY <1>1, <1>3, AssignCellRewrites
  <2>. QED
    BY <1>2, <1>3, <2>1 DEF HasRewrite, HasIn
<1>5. HasRewrite(b, "CellGet", << AssignRvalueLoc, RvalueOperandLoc(0) >>) <=>
         IsAnyPtr(LocalTy[v]) /\ "CELL" \in flags[LocalTy[v].label]
  <2>1. ~(sb.rv.kind = "Cast" /\ sb.voidCast)
    BY <1>3
  <2>2. HasIn(AssignRewrites(sb).rw, "CellGet", << AssignRvalueLoc, RvalueOperandLoc(0) >>) <=>
           /\ sb.rv.kind = "Use" /\ sb.rv.op.kind = "Place" /\ sb.rv.op.place.deref
           /\ IsAnyPtr(LocalTy[sb.rv.op.place.local])
           /\ "CELL" \in flags[LocalTy[sb.rv.op.place.local].label]
    BY <1>1, <2>1, AssignCellRewrites
  <2>. QED
    BY <1>2, <1>3, <2>2 DEF HasRewrite, HasIn
<1>6. IsAnyPtr(LocalTy[v]) => (Desc(LocalTy[v]).own = "Cell" <=> "CELL" \in flags[LocalTy[v].label])
  BY CellOwnIsCellFlag
<1>. QED
  BY <1>4, <1>5, <1>6

\* A store `*v = e` is rewritten into Cell::set exactly when every load
\* `y = *v` of the same pointer is rewritten into Cell::get, in every
\* behaviour of the pass and for every body, type and permission table.
THEOREM CellAccessConsistentHolds == Spec => []CellAccessConsistent
<1>1. TypeOK /\ OutputInv => CellAccessConsistent
  BY OutputCellConsistent
<1>. QED
  BY <1>1, OutputIsHandlerOutput, PTL

\* perms_to_desc never yields the Array quantity: QtyOfPerms chooses
\* between OffsetPtr, Slice and Single.
LEMMA QtyNeverArray ==
    ASSUME NEW lty
    PROVE  Desc(lty).qty # "Array"
BY DEF Desc, PermsToDesc, QtyOfPerms

-----------------------------------------------------------------------------
(* The rewrites of a ptr.offset call, without SelectSeq.                   *)

\* The output of a visited call to ptr.offset: the casts visit_operand_desc
\* emits for the argument, then OffsetSlice and, for a single result,
\* SliceFirst, both with the result's mutability; every cast given up on at
\* the call targets the result's ownership with Slice for Single.
OffsetCallOutput ==
    \A l \in Location :
        (Visited(l) /\ IsTermLoc(l) /\ TermAt(l).kind = "Call"
            /\ TermAt(l).callee = "PtrOffset") =>
        LET res == Desc(TypeOf(TermAt(l).dest))
            m   == res.own = "Mut"
            tgt == [own |-> res.own,
                    qty |-> IF res.qty = "Single" THEN "Slice" ELSE res.qty]
            top == << [kind |-> "OffsetSlice", mutbl |-> m, sub_loc |-> << >>] >>
                   \o (IF res.qty = "Single"
                       THEN << [kind |-> "SliceFirst", mutbl |-> m, sub_loc |-> << >>] >>
                       ELSE << >>)
        IN  /\ rewrites[l] = VisitOperandDesc(TermAt(l).arg, tgt, << CallArgLoc(0) >>).rw \o top
            /\ \A u \in unsupported : u.loc = l => u.to = tgt

\* visit_operand_desc emits and reports only under the path it is given,
\* and every cast it gives up on targets the expected descriptor.
LEMMA OperandDescAtPath ==
    ASSUME NEW op, NEW expect, NEW sub
    PROVE  /\ \A i \in 1 .. Len(VisitOperandDesc(op, expect, sub).rw) :
                  VisitOperandDesc(op, expect, sub).rw[i].sub_loc = sub
           /\ \A d \in VisitOperandDesc(op, expect, sub).drop : d.sub_loc = sub /\ d.to = expect
<1>. DEFINE from == Desc(TypeOf(op.place))
            o == EmitCastDescDesc(from, expect, sub)
<1>. HIDE DEF from
<1>1. /\ \A i \in 1 .. Len(o.rw) : o.rw[i].sub_loc = sub
      /\ \A d \in o.drop : d.sub_loc = sub /\ d.to = expect
  <2>1. CASE from = expect
    BY <2>1 DEF EmitCastDescDesc, NoRewrite
  <2>2. CASE from # expect /\ from.qty = expect.qty /\ from.own = "Mut" /\ expect.own = "Imm"
    BY <2>2 DEF EmitCastDescDesc, Emit
  <2>3. CASE from # expect /\ ~(from.qty = expect.qty /\ from.own = "Mut" /\ expect.own = "Imm")
    <3>1. o = [rw |-> << >>, drop |-> {[sub_loc |-> sub, from |-> from, to |-> expect]}]
      BY <2>3 DEF EmitCastDescDesc
    <3>. HIDE DEF o
    <3>. QED
      BY <3>1
  <2>. QED
    BY <2>1, <2>2, <2>3
<1>2. /\ \A i \in 1 .. Len(NoRewrite.rw) : NoRewrite.rw[i].sub_loc = sub
      /\ \A d \in NoRewrite.drop : d.sub_loc = sub /\ d.to = expect
  BY DEF NoRewrite
<1>3. VisitOperandDesc(op, expect, sub) \in {o, NoRewrite}
  BY DEF VisitOperandDesc, from
<1>. HIDE DEF o
<1>. QED
  BY <1>1, <1>2, <1>3

\* The rewrites of three handler parts run in sequence, regrouped.
LEMMA ThenAssociative ==
    ASSUME NEW a \in Out, NEW b \in Out, NEW c \in Out
    PROVE  Then(Then(a, b), c).rw = a.rw \o (b.rw \o c.rw)
<1>. DEFINE x == a.rw  y == b.rw  z == c.rw
<1>1. x \in Seq(MirRewrite) /\ y \in Seq(MirRewrite) /\ z \in Seq(MirRewrite)
  BY DEF Out
<1>2. Then(Then(a, b), c).rw = (x \o y) \o z
  BY DEF Then
<1>. HIDE DEF x, y, z
<1>3. (x \o y) \o z = x \o (y \o z)
  BY <1>1, ConcatAssociative
<1>. QED
  BY <1>2, <1>3 DEF x, y, z

\* What visit_ptr_offset produces: the argument's casts towards the
\* widened result descriptor, then the top-level OffsetSlice and SliceFirst.
LEMMA PtrOffsetOut ==
    ASSUME NEW t
    PROVE  LET res == Desc(TypeOf(t.dest))
               m   == res.own = "Mut"
               tgt == [own |-> res.own,
                       qty |-> IF res.qty = "Single" THEN "Slice" ELSE res.qty]
               top == << [kind |-> "OffsetSlice", mutbl |-> m, sub_loc |-> << >>] >>
                      \o (IF res.qty = "Single"
                          THEN << [kind |-> "SliceFirst", mutbl |-> m, sub_loc |-> << >>] >>
                          ELSE << >>)
           IN  /\ PtrOffsetRewrites(t).rw
                     = VisitOperandDesc(t.arg, tgt, << CallArgLoc(0) >>).rw \o top
               /\ \A d \in PtrOffsetRewrites(t).drop : d.to = tgt
<1>. DEFINE res == Desc(TypeOf(t.dest))
            m   == res.own = "Mut"
            tgt == [own |-> res.own,
                    qty |-> IF res.qty = "Single" THEN "Slice" ELSE res.qty]
            A   == VisitOperandDesc(t.arg, tgt, << CallArgLoc(0) >>)
            B   == Emit("OffsetSlice", m, << >>)
            C   == IF res.qty = "Single" THEN Emit("SliceFirst", m, << >>) ELSE NoRewrite
<1>1. res \in TypeDescs
  BY DescType
<1>2. [own |-> res.own, qty |-> Widen(res.qty)] = tgt
  BY <1>1 DEF Widen, TypeDescs, Quantity
<1>3. PtrOffsetRewrites(t) = Then(Then(A, B), C)
  BY <1>2 DEF PtrOffsetRewrites
<1>4. /\ A \in Out /\ B \in Out /\ C \in Out
  <2>1. tgt \in TypeDescs
    BY <1>1 DEF TypeDescs, Quantity
  <2>2. /\ << CallArgLoc(0) >> \in Seq(SubLoc) /\ << >> \in Seq(SubLoc)
    BY SubLocPaths
  <2>3. /\ "OffsetSlice" \in RewriteKinds /\ "SliceFirst" \in RewriteKinds
        /\ m \in BOOLEAN
    BY DEF RewriteKinds
  <2>. QED
    BY <2>1, <2>2, <2>3, VisitOperandDescType, EmitType, NoRewriteType
<1>6. B.rw \o C.rw =
        << [kind |-> "OffsetSlice", mutbl |-> m, sub_loc |-> << >>] >>
        \o (IF res.qty = "Single"
            THEN << [kind |-> "SliceFirst", mutbl |-> m, sub_loc |-> << >>] >>
            ELSE << >>)
  BY DEF Emit, NoRewrite
<1>7. \A d \in PtrOffsetRewrites(t).drop : d.to = tgt
  <2>1. PtrOffsetRewrites(t).drop = A.drop
    <3>1. B.drop = {} /\ C.drop = {}
      BY DEF Emit, NoRewrite
    <3>. HIDE DEF A, B, C
    <3>. QED
      BY <1>3, <3>1 DEF Then
  <2>. QED
    BY <2>1, OperandDescAtPath
<1>. HIDE DEF A, B, C
<1>8. Then(Then(A, B), C).rw = A.rw \o (B.rw \o C.rw)
  BY <1>4, ThenAssociative
<1>9. PtrOffsetRewrites(t).rw = A.rw \o (B.rw \o C.rw)
  BY <1>3, <1>8
<1>. QED
  BY <1>6, <1>7, <1>9 DEF A

\* OffsetCallOutput follows from the handler-output invariant.
LEMMA OutputOffsetCall ==
    OutputInv => OffsetCallOutput
<1>. SUFFICES ASSUME OutputInv, NEW l \in Location, Visited(l), IsTermLoc(l),
                     TermAt(l).kind = "Call", TermAt(l).callee = "PtrOffset"
              PROVE  LET res == Desc(TypeOf(TermAt(l).dest))
                         m   == res.own = "Mut"
                         tgt == [own |-> res.own,
                                 qty |-> IF res.qty = "Single" THEN "Slice" ELSE res.qty]
                         top == << [kind |-> "OffsetSlice", mutbl |-> m, sub_loc |-> << >>] >>
                                \o (IF res.qty = "Single"
                                    THEN << [kind |-> "SliceFirst", mutbl |-> m, sub_loc |-> << >>] >>
                                    ELSE << >>)
                     IN  /\ rewrites[l] = VisitOperandDesc(TermAt(l).arg, tgt, << CallArgLoc(0) >>).rw \o top
                         /\ \A u \in unsupported : u.loc = l => u.to = tgt
  BY DEF OffsetCallOutput
<1>1. ~IsStmtLoc(l)
  BY DEF IsStmtLoc, IsTermLoc
<1>2. OutAt(l) = PtrOffsetRewrites(TermAt(l))
  BY <1>1 DEF OutAt
<1>3. rewrites[l] = OutAt(l).rw
  BY DEF OutputInv
<1>4. \A u \in unsupported : u.loc = l => \E d \in OutAt(l).drop : u.to = d.to
  BY ReportsAt DEF Reports
<1>. DEFINE res == Desc(TypeOf(TermAt(l).dest))
            m   == res.own = "Mut"
            tgt == [own |-> res.own,
                    qty |-> IF res.qty = "Single" THEN "Slice" ELSE res.qty]
            top == << [kind |-> "OffsetSlice", mutbl |-> m, sub_loc |-> << >>] >>
                   \o (IF res.qty = "Single"
                       THEN << [kind |-> "SliceFirst", mutbl |-> m, sub_loc |-> << >>] >>
                       ELSE << >>)
<1>5. /\ PtrOffsetRewrites(TermAt(l)).rw
           = VisitOperandDesc(TermAt(l).arg, tgt, << CallArgLoc(0) >>).rw \o top
      /\ \A d \in PtrOffsetRewrites(TermAt(l)).drop : d.to = tgt
  BY PtrOffsetOut
<1>. HIDE DEF res, m, tgt, top
<1>6. rewrites[l] = VisitOperandDesc(TermAt(l).arg, tgt, << CallArgLoc(0) >>).rw \o top
  BY <1>2, <1>3, <1>5
<1>7. \A u \in unsupported : u.loc = l => u.to = tgt
  BY <1>2, <1>4, <1>5
<1>. QED
  BY <1>6, <1>7 DEF res, m, tgt, top

\* visit_ptr_offset's output, as it stands in the map of every reachable
\* state: the argument's casts towards the widened result, then OffsetSlice
\* and (for a single result) SliceFirst, and no report of a cast towards any
\* other target.
THEOREM OffsetCallOutputHolds == Spec => []OffsetCallOutput
<1>1. TypeOK /\ OutputInv => OffsetCallOutput
  BY OutputOffsetCall
<1>. QED
  BY <1>1, OutputIsHandlerOutput, PTL


\* A concatenation ends with its second part, after the first part's
\* entries unchanged.
LEMMA SuffixOfConcat ==
    ASSUME NEW S, NEW a \in Seq(S), NEW b \in Seq(S)
    PROVE  /\ Len(a \o b) - Len(b) = Len(a)
           /\ SubSeq(a \o b, Len(a) + 1, Len(a \o b)) = b
           /\ \A i \in 1 .. Len(a) : (a \o b)[i] = a[i]
<1>1. Len(a \o b) = Len(a) + Len(b)
  BY ConcatProperties
<1>2. SubSeq(a \o b, Len(a) + 1, Len(a \o b)) = b
  <2>1. Len(SubSeq(a \o b, Len(a) + 1, Len(a \o b))) = Len(b)
    BY <1>1, ConcatProperties, SubSeqProperties
  <2>2. \A i \in 1 .. Len(b) : SubSeq(a \o b, Len(a) + 1, Len(a \o b))[i] = b[i]
    BY <1>1, ConcatProperties, SubSeqProperties
  <2>. QED
    BY <1>1, <2>1, <2>2, ConcatProperties, SubSeqProperties, SeqEqual
<1>. QED
  BY <1>1, <1>2, ConcatProperties

\* The order visit_ptr_offset emits in makes its top-level rewrites the
\* tail of the location's rewrites, after the argument's casts.
LEMMA OffsetCallShapeFromOutput ==
    OffsetCallOutput => OffsetCallShape
<1>. SUFFICES ASSUME OffsetCallOutput, NEW l \in Location, Visited(l), IsTermLoc(l),
                     TermAt(l).kind = "Call", TermAt(l).callee = "PtrOffset"
              PROVE  LET res == Desc(TypeOf(TermAt(l).dest))
                         m   == res.own = "Mut"
                         tgt == [own |-> res.own,
                                 qty |-> IF res.qty = "Single" THEN "Slice" ELSE res.qty]
                         top == << [kind |-> "OffsetSlice", mutbl |-> m, sub_loc |-> << >>] >>
                                \o (IF res.qty = "Single"
                                    THEN << [kind |-> "SliceFirst", mutbl |-> m, sub_loc |-> << >>] >>
                                    ELSE << >>)
                         s   == rewrites[l]
                         k   == Len(s) - Len(top)
                     IN  /\ k >= 0
                         /\ SubSeq(s, k + 1, Len(s)) = top
                         /\ \A i \in 1 .. k : s[i].sub_loc # << >>
                         /\ \A u \in unsupported : u.loc = l => u.to = tgt
  BY DEF OffsetCallShape
<1>. DEFINE res == Desc(TypeOf(TermAt(l).dest))
            m   == res.own = "Mut"
            tgt == [own |-> res.own,
                    qty |-> IF res.qty = "Single" THEN "Slice" ELSE res.qty]
            top == << [kind |-> "OffsetSlice", mutbl |-> m, sub_loc |-> << >>] >>
                   \o (IF res.qty = "Single"
                       THEN << [kind |-> "SliceFirst", mutbl |-> m, sub_loc |-> << >>] >>
                       ELSE << >>)
            path == << CallArgLoc(0) >>
            a   == VisitOperandDesc(TermAt(l).arg, tgt, path).rw
<1>1. /\ rewrites[l] = a \o top
      /\ \A u \in unsupported : u.loc = l => u.to = tgt
  BY DEF OffsetCallOutput
<1>2. tgt \in TypeDescs /\ path \in Seq(SubLoc)
  BY DescType, SubLocPaths DEF TypeDescs, Quantity
<1>3. a \in Seq(MirRewrite)
  BY <1>2, VisitOperandDescType DEF Out
<1>4. top \in Seq(MirRewrite)
  <2>1. << >> \in Seq(SubLoc) /\ m \in BOOLEAN
    BY SubLocPaths
  <2>. DEFINE r1 == [kind |-> "OffsetSlice", mutbl |-> m, sub_loc |-> << >>]
              r2 == [kind |-> "SliceFirst", mutbl |-> m, sub_loc |-> << >>]
              t2 == IF res.qty = "Single" THEN << r2 >> ELSE << >>
  <2>2. r1 \in MirRewrite /\ r2 \in MirRewrite
    BY <2>1 DEF MirRewrite, RewriteKinds
  <2>3. << r1 >> \in Seq(MirRewrite) /\ t2 \in Seq(MirRewrite)
    BY <2>2
  <2>4. top = << r1 >> \o t2
    OBVIOUS
  <2>. HIDE DEF r1, r2, t2, top
  <2>. QED
    BY <2>3, <2>4, ConcatProperties
<1>6. path # << >>
  OBVIOUS
<1>. HIDE DEF top, a, path, tgt, res, m
<1>5. \A i \in 1 .. Len(a) : a[i].sub_loc = path
  <2>1. \A i \in 1 .. Len(VisitOperandDesc(TermAt(l).arg, tgt, path).rw) :
           VisitOperandDesc(TermAt(l).arg, tgt, path).rw[i].sub_loc = path
    BY OperandDescAtPath
  <2>. QED
    BY <2>1 DEF a
<1>7. /\ Len(a \o top) - Len(top) = Len(a)
      /\ SubSeq(a \o top, Len(a) + 1, Len(a \o top)) = top
      /\ \A i \in 1 .. Len(a) : (a \o top)[i] = a[i]
  BY <1>3, <1>4, SuffixOfConcat
<1>8. Len(a) >= 0
  BY <1>3
<1>9. Len(rewrites[l]) - Len(top) = Len(a)
  BY <1>1, <1>7
<1>10. SubSeq(rewrites[l], Len(rewrites[l]) - Len(top) + 1, Len(rewrites[l])) = top
  BY <1>1, <1>7, <1>9
<1>11. \A i \in 1 .. (Len(rewrites[l]) - Len(top)) : rewrites[l][i].sub_loc # << >>
  BY <1>1, <1>5, <1>6, <1>7, <1>9
<1>. QED
  BY <1>1, <1>8, <1>9, <1>10, <1>11 DEF res, m, tgt, top

\* Offset-call quantity widening holds in every reachable state.
THEOREM OffsetCallShapeHolds == Spec => []OffsetCallShape
<1>1. TypeOK /\ OutputInv => OffsetCallShape
  BY OutputOffsetCall, OffsetCallShapeFromOutput
<1>. QED
  BY <1>1, OutputIsHandlerOutput, PTL

=============================================================================

---------------------------- MODULE MirOp_proofs ----------------------------
(***************************************************************************)
(* Proofs about the MIR rewrite annotator of MirOp, for every value of the *)
(* constants that MirOpAssumptions allows.                                 *)
(*                                                                         *)
(* The handlers are built from small operators that each return an output *)
(* record (the rewrites emitted and the casts dropped); the lemmas below  *)
(* show that each returns a well-formed one, which is what keeps the      *)
(* output map typed.                                                      *)
(***************************************************************************)
EXTENDS MirOp, TLAPS

\* The outputs a handler may produce.
Out == [rw : Seq(MirRewrite), drop : SUBSET Dropped]

-----------------------------------------------------------------------------
(* Lemmas about the descriptor resolver and the output combinators.        *)

\* perms_to_desc always yields a descriptor, whatever the bits it reads
\* (it is total: every branch names an Ownership and a Quantity).
LEMMA DescType ==
    ASSUME NEW lty
    PROVE  Desc(lty) \in TypeDescs
BY DEF Desc, PermsToDesc, OwnOfPerms, QtyOfPerms, TypeDescs, Ownership, Quantity

LEMMA LocalDescType ==
    ASSUME NEW t, NEW p, NEW f
    PROVE  LocalPermsToDesc(t, p, f) \in TypeDescs
BY DEF LocalPermsToDesc, OwnOfPerms, QtyOfPerms, TypeDescs, Ownership, Quantity

LEMMA NoRewriteType == NoRewrite \in Out
BY DEF NoRewrite, Out

\* self.emit pushes one well-formed MirRewrite.
LEMMA EmitType ==
    ASSUME NEW k \in RewriteKinds, NEW m \in BOOLEAN, NEW sub \in Seq(SubLoc)
    PROVE  Emit(k, m, sub) \in Out
BY DEF Emit, Out, MirRewrite

\* Emitting in sequence concatenates the lists and joins the reports.
LEMMA ThenType ==
    ASSUME NEW a \in Out, NEW b \in Out
    PROVE  Then(a, b) \in Out
BY DEF Then, Out

LEMMA SubLocPaths ==
    /\ << >> \in Seq(SubLoc)
    /\ << AssignRvalueLoc >> \in Seq(SubLoc)
    /\ << CallArgLoc(0) >> \in Seq(SubLoc)
    /\ << AssignRvalueLoc, RvalueOperandLoc(0) >> \in Seq(SubLoc)
    /\ \A s \in Seq(SubLoc) : Append(s, RvalueOperandLoc(0)) \in Seq(SubLoc)
BY DEF SubLoc, SubLocTags, AssignRvalueLoc, CallArgLoc, RvalueOperandLoc

LEMMA EmitCastDescDescType ==
    ASSUME NEW from \in TypeDescs, NEW to \in TypeDescs, NEW sub \in Seq(SubLoc)
    PROVE  EmitCastDescDesc(from, to, sub) \in Out
<1>1. Emit("MutToImm", FALSE, sub) \in Out
  BY EmitType DEF RewriteKinds
<1>2. [rw |-> << >>, drop |-> {[sub_loc |-> sub, from |-> from, to |-> to]}] \in Out
  BY DEF Out, Dropped
<1> QED BY <1>1, <1>2, NoRewriteType DEF EmitCastDescDesc

LEMMA EmitCastLtyLtyType ==
    ASSUME NEW from, NEW to, NEW sub \in Seq(SubLoc)
    PROVE  EmitCastLtyLty(from, to, sub) \in Out
BY DescType, EmitCastDescDescType, NoRewriteType DEF EmitCastLtyLty


LEMMA VisitOperandType ==
    ASSUME NEW op, NEW expect, NEW sub \in Seq(SubLoc)
    PROVE  VisitOperand(op, expect, sub) \in Out
BY EmitCastLtyLtyType, NoRewriteType DEF VisitOperand

LEMMA VisitOperandDescType ==
    ASSUME NEW op, NEW expect \in TypeDescs, NEW sub \in Seq(SubLoc)
    PROVE  VisitOperandDesc(op, expect, sub) \in Out
BY DescType, EmitCastDescDescType, NoRewriteType DEF VisitOperandDesc

\* visit_rvalue emits at most one RawToRef, under the operand path.
LEMMA VisitRvalueType ==
    ASSUME NEW rv \in Rvalue, NEW expect, NEW sub \in Seq(SubLoc)
    PROVE  VisitRvalue(rv, expect, sub) \in Out
<1> DEFINE at == Append(sub, RvalueOperandLoc(0))
<1>1. at \in Seq(SubLoc)
  BY SubLocPaths
<1>2. /\ Emit("RawToRef", FALSE, at) \in Out
      /\ Emit("RawToRef", rv.mutbl, at) \in Out
  BY <1>1, EmitType DEF RewriteKinds, Rvalue
<1>3. VisitOperand(rv.op, expect, at) \in Out
  BY <1>1, VisitOperandType
<1> QED BY <1>2, <1>3, NoRewriteType DEF VisitRvalue

\* The three Cell cases of visit_statement each emit at most one rewrite.
LEMMA CellRwType ==
    ASSUME NEW pl, NEW rv
    PROVE  /\ CellSetRw(pl) \in Out
           /\ CellNewRw(pl, rv) \in Out
           /\ CellGetRw(rv) \in Out
<1>1. /\ Emit("CellSet", FALSE, << AssignRvalueLoc >>) \in Out
      /\ Emit("CellNew", FALSE, << AssignRvalueLoc, RvalueOperandLoc(0) >>) \in Out
      /\ Emit("CellGet", FALSE, << AssignRvalueLoc, RvalueOperandLoc(0) >>) \in Out
  BY SubLocPaths, EmitType DEF RewriteKinds
<1> QED BY <1>1, NoRewriteType DEF CellSetRw, CellNewRw, CellGetRw

\* The whole Assign handler yields a well-formed output.
LEMMA AssignRewritesType ==
    ASSUME NEW s \in Stmt
    PROVE  AssignRewrites(s) \in Out
<1>1. s.rv \in Rvalue
  BY DEF Stmt
<1>2. VisitRvalue(s.rv, RvalueTy(s.rv), << AssignRvalueLoc >>) \in Out
  BY <1>1, SubLocPaths, VisitRvalueType
<1>3. EmitCastLtyLty(RvalueTy(s.rv), TypeOf(s.dest), << >>) \in Out
  BY SubLocPaths, EmitCastLtyLtyType
<1>4. Then(Then(Then(Then(CellSetRw(s.dest), CellNewRw(s.dest, s.rv)),
                     CellGetRw(s.rv)),
                VisitRvalue(s.rv, RvalueTy(s.rv), << AssignRvalueLoc >>)),
           EmitCastLtyLty(RvalueTy(s.rv), TypeOf(s.dest), << >>)) \in Out
  BY <1>2, <1>3, CellRwType, ThenType
<1> QED BY <1>4, NoRewriteType DEF AssignRewrites

\* visit_ptr_offset: an argument cast, OffsetSlice and maybe SliceFirst.
LEMMA PtrOffsetRewritesType ==
    ASSUME NEW t
    PROVE  PtrOffsetRewrites(t) \in Out
<1> DEFINE result == Desc(TypeOf(t.dest))
           expect == [own |-> result.own, qty |-> Widen(result.qty)]
           mutbl  == result.own = "Mut"
<1>1. result \in TypeDescs
  BY DescType
<1>2. expect \in TypeDescs
  BY <1>1 DEF Widen, TypeDescs, Quantity
<1>3. VisitOperandDesc(t.arg, expect, << CallArgLoc(0) >>) \in Out
  BY <1>2, SubLocPaths, VisitOperandDescType
<1>4. /\ Emit("OffsetSlice", mutbl, << >>) \in Out
      /\ Emit("SliceFirst", mutbl, << >>) \in Out
  BY SubLocPaths, EmitType DEF RewriteKinds
<1>5. (IF result.qty = "Single" THEN Emit("SliceFirst", mutbl, << >>)
                                ELSE NoRewrite) \in Out
  BY <1>4, NoRewriteType
<1> QED BY <1>3, <1>4, <1>5, ThenType DEF PtrOffsetRewrites

LEMMA SliceAsPtrRewritesType ==
    ASSUME NEW t
    PROVE  SliceAsPtrRewrites(t) \in Out
BY SubLocPaths, EmitType, NoRewriteType DEF SliceAsPtrRewrites, RewriteKinds

-----------------------------------------------------------------------------
(* Type correctness of the visiting loop.                                  *)

USE MirOpAssumptions

\* A body drawn from the shapes is a body of at most MaxStmts statements
\* per block.
LEMMA BlockShapesType ==
    ASSUME NEW blk \in BlockShapes
    PROVE  blk \in Block /\ Len(blk.stmts) <= MaxStmts
<1>1. PICK n \in 0 .. MaxStmts : blk.stmts \in [1 .. n -> StmtShapes]
  BY DEF BlockShapes
<1>2. blk.stmts \in Seq(Stmt) /\ Len(blk.stmts) = n
  BY <1>1
<1> QED BY <1>1, <1>2 DEF BlockShapes, Block

\* The current statement or terminator, and its Location, are well formed.
LEMMA CurrentType ==
    ASSUME TypeOK
    PROVE  /\ AtStatement => /\ CurStmt \in Stmt
                             /\ StmtLoc \in Location
                             /\ idx + 1 \in 0 .. MaxStmts
           /\ AtTerminator => TermLoc \in Location
<1>1. AtStatement => CurBlock \in Block /\ Len(CurBlock.stmts) <= MaxStmts
  BY DEF TypeOK, AtStatement, CurBlock
<1>2. AtTerminator => CurBlock \in Block /\ Len(CurBlock.stmts) <= MaxStmts
  BY DEF TypeOK, AtTerminator, CurBlock
<1> QED BY <1>1, <1>2 DEF TypeOK, AtStatement, AtTerminator, CurStmt,
                             StmtLoc, TermLoc, Location, Block

\* Recording a well-formed output at a Location keeps both outputs typed.
LEMMA RecordType ==
    ASSUME TypeOK, NEW loc \in Location, NEW out \in Out, Record(loc, out)
    PROVE  /\ rewrites' \in [Location -> Seq(MirRewrite)]
           /\ unsupported' \subseteq [loc : Location, sub_loc : Seq(SubLoc),
                                      from : TypeDescs, to : TypeDescs]
BY DEF TypeOK, Record, Out, Dropped

LEMMA InitTypeOK == Init => TypeOK
<1> SUFFICES ASSUME Init PROVE TypeOK
  OBVIOUS
<1>1. body \in [0 .. NumBlocks - 1 -> Block]
      /\ \A b \in 0 .. NumBlocks - 1 : Len(body[b].stmts) <= MaxStmts
  BY BlockShapesType DEF Init
<1>2. PICK f \in [UsedIds(body) -> FactChoices] :
          /\ perms = [p \in PtrIds |-> IF p \in UsedIds(body) THEN f[p].perms ELSE {}]
          /\ flags = [p \in PtrIds |-> IF p \in UsedIds(body) THEN f[p].flags ELSE {}]
  BY DEF Init
<1>3. perms \in [PtrIds -> SUBSET PermBits] /\ flags \in [PtrIds -> SUBSET FlagBits]
  BY <1>2 DEF Facts
<1> QED BY <1>1, <1>3 DEF Init, TypeOK, Location

LEMMA NextTypeOK == TypeOK /\ [Next]_vars => TypeOK'
<1> SUFFICES ASSUME TypeOK, [Next]_vars PROVE TypeOK'
  OBVIOUS
<1>1. CASE VisitAssign
  <2>1. AssignRewrites(CurStmt) \in Out
    BY <1>1, CurrentType, AssignRewritesType DEF VisitAssign
  <2> QED BY <1>1, <2>1, CurrentType, RecordType DEF VisitAssign, TypeOK
<1>2. CASE VisitIgnoredStatement
  BY <1>2, CurrentType DEF VisitIgnoredStatement, TypeOK
<1>3. CASE VisitTodoStatement
  BY <1>3 DEF VisitTodoStatement, TypeOK
<1>4. CASE VisitPtrOffset
  <2>1. CASE Desc(TypeOf(CurTerm.dest)).qty = "Array"
    BY <1>4, <2>1 DEF VisitPtrOffset, TypeOK
  <2>2. CASE Desc(TypeOf(CurTerm.dest)).qty # "Array"
    <3>1. PtrOffsetRewrites(CurTerm) \in Out
      BY PtrOffsetRewritesType
    <3> QED BY <1>4, <2>2, <3>1, CurrentType, RecordType
            DEF VisitPtrOffset, NextBlock, AtTerminator, TypeOK
  <2> QED BY <2>1, <2>2
<1>5. CASE VisitSliceAsPtr
  <2>1. SliceAsPtrRewrites(CurTerm) \in Out
    BY SliceAsPtrRewritesType
  <2>2. TermLoc \in Location /\ Record(TermLoc, SliceAsPtrRewrites(CurTerm))
    BY <1>5, CurrentType DEF VisitSliceAsPtr
  <2>3. /\ rewrites' \in [Location -> Seq(MirRewrite)]
        /\ unsupported' \subseteq [loc : Location, sub_loc : Seq(SubLoc),
                                   from : TypeDescs, to : TypeDescs]
    BY <2>1, <2>2, RecordType
  <2>4. bb' = bb + 1 /\ idx' = 0 /\ bb < NumBlocks
        /\ UNCHANGED <<body, perms, flags, status>>
    BY <1>5 DEF VisitSliceAsPtr, NextBlock, AtTerminator
  <2> QED BY <2>3, <2>4 DEF TypeOK
<1>6. CASE VisitOtherCall
  BY <1>6 DEF VisitOtherCall, NextBlock, AtTerminator, TypeOK
<1>7. CASE VisitIgnoredTerminator
  BY <1>7 DEF VisitIgnoredTerminator, NextBlock, AtTerminator, TypeOK
<1>8. CASE VisitInlineAsm
  BY <1>8 DEF VisitInlineAsm, TypeOK
<1>9. CASE Finish
  BY <1>9 DEF Finish, TypeOK
<1>10. CASE UNCHANGED vars
  BY <1>10 DEF vars, TypeOK
<1> QED BY <1>1, <1>2, <1>3, <1>4, <1>5, <1>6, <1>7, <1>8, <1>9, <1>10 DEF Next

\* Type correctness: every state the annotator reaches has a body of at
\* most MaxStmts statements per block, a block and statement index within
\* it, an output map from Locations to lists of well-formed MirRewrites
\* (each with a SubLoc path) and well-formed unsupported-cast reports.
THEOREM TypeCorrect == Spec => []TypeOK
BY InitTypeOK, NextTypeOK, PTL DEF Spec

-----------------------------------------------------------------------------
(* The Location the loop visits is one it has not passed yet.            *)

\* A statement's Location has index idx itself, so it is not yet visited.
LEMMA StmtLocFresh == TypeOK => ~Visited(StmtLoc)
BY DEF TypeOK, Visited, StmtLoc

\* A terminator's Location has index Len(statements) = idx.
LEMMA TermLocFresh == TypeOK /\ AtTerminator => ~Visited(TermLoc)
BY DEF TypeOK, Visited, TermLoc, AtTerminator

=============================================================================

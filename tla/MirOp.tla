------------------------------- MODULE MirOp -------------------------------
(***************************************************************************)
(* The MIR rewrite annotator, rewrite/expr/mir_op.rs: gen_mir_rewrites     *)
(* runs an ExprRewriteVisitor over every statement and terminator of one   *)
(* MIR body, in block order, and records for each Location the ordered     *)
(* list of MirRewrites it emits, each tagged with the SubLoc path that     *)
(* the visitor's enter_* calls had pushed when emit ran.                   *)
(*                                                                         *)
(* One step of this specification is one visit_statement or               *)
(* visit_terminator call, the whole handler with every emit it makes.      *)
(* The body and the analysis results (permissions and flags of every       *)
(* PointerId) are chosen in Init and never change.  The "unsupported cast  *)
(* kind" message of emit_cast_desc_desc is kept as the set unsupported,    *)
(* since it is the pass's only report of a rewrite it dropped.             *)
(***************************************************************************)
EXTENDS Naturals, Sequences, TypeDesc

CONSTANTS
    Locals,        \* the MIR locals of the body
    PtrIds,        \* PointerIds labelling pointer types
    NoLabel,       \* PointerId::NONE, the label of a non-pointer type
    LocalTy,       \* acx.local_tys: the labelled type of every local
    AddrOfLocal,   \* acx.addr_of_local: the PointerId of &local
    NumBlocks,     \* number of basic blocks of the body
    MaxStmts,      \* bound on the statements of one block
    StmtShapes,    \* the statements a block may contain
    TermShapes,    \* the terminators a block may end with
    FactChoices    \* the (permissions, flags) pairs the analysis may infer

LTy == [ty : TyKinds, label : PtrIds \cup {NoLabel}]

IntTy == [ty |-> "int", label |-> NoLabel]

\* A Place is a local, possibly dereferenced once (a pointer local's
\* pointee is a non-pointer in this model).
Place == [local : Locals, deref : BOOLEAN]

Operand == [kind : {"Place", "Constant"}, place : Place]

\* Use, AddressOf and Cast are the rvalues the visitor treats specially;
\* Other stands for Repeat, Ref, ThreadLocalRef, Len, BinaryOp,
\* CheckedBinaryOp, NullaryOp, UnaryOp, Discriminant, Aggregate,
\* ShallowInitBox and CopyForDeref, whose operands are visited with no
\* expected type and so never emit.  ty is the type of the rvalue
\* (acx.type_of_rvalue) where it is not that of a Use's operand.
Rvalue == [kind : {"Use", "AddressOf", "Cast", "Other"}, op : Operand,
           place : Place, mutbl : BOOLEAN, ty : LTy]

\* The variants of MIR's StatementKind.
StmtKinds == {"Assign", "FakeRead", "SetDiscriminant", "Deinit",
              "StorageLive", "StorageDead", "Retag", "AscribeUserType",
              "Coverage", "CopyNonOverlapping", "Nop"}

IgnoredStmtKinds == {"FakeRead", "Deinit", "StorageLive", "StorageDead",
                     "Retag", "AscribeUserType", "Coverage", "Nop"}

TodoStmtKinds == {"SetDiscriminant", "CopyNonOverlapping"}

\* voidCast: c_void_casts.should_skip_stmt holds at this statement.
Stmt == [kind : StmtKinds,
         dest : Place, rv : Rvalue, voidCast : BOOLEAN]

IgnoredTermKinds == {"Goto", "SwitchInt", "Resume", "Abort", "Return",
                     "Unreachable", "Drop", "DropAndReplace", "Assert",
                     "Yield", "GeneratorDrop", "FalseEdge", "FalseUnwind"}

\* util::ty_callee, reduced to the cases the visitor distinguishes.
Callees == {"PtrOffset", "SliceAsPtr", "Other"}

\* A call's first argument and its destination; other arguments are never
\* visited (the general case of visit_terminator emits nothing).
Term == [kind : {"Call", "InlineAsm"} \cup IgnoredTermKinds,
         callee : Callees, arg : Operand, dest : Place]

Block == [stmts : Seq(Stmt), term : Term]

Facts == [perms : SUBSET PermBits, flags : SUBSET FlagBits]

ASSUME MirOpAssumptions ==
    /\ NumBlocks \in Nat \ {0}
    /\ MaxStmts \in Nat
    /\ NoLabel \notin PtrIds
    /\ LocalTy \in [Locals -> LTy]
    /\ \A l \in Locals : (LocalTy[l].label = NoLabel) <=> (LocalTy[l].ty = "int")
    /\ AddrOfLocal \in [Locals -> PtrIds]
    /\ StmtShapes \subseteq Stmt
    /\ TermShapes \subseteq Term
    /\ FactChoices \subseteq Facts /\ FactChoices # {}

-----------------------------------------------------------------------------
(* SubLoc paths and the rewrites the visitor emits.                        *)

SubLocTags == {"Dest", "AssignRvalue", "CallArg", "RvalueOperand",
               "RvaluePlace", "OperandPlace", "PlacePointer"}

SubLoc == [tag : SubLocTags, idx : Nat]

AssignRvalueLoc == [tag |-> "AssignRvalue", idx |-> 0]

CallArgLoc(i) == [tag |-> "CallArg", idx |-> i]

RvalueOperandLoc(i) == [tag |-> "RvalueOperand", idx |-> i]

RewriteKinds == {"OffsetSlice", "SliceFirst", "MutToImm", "RemoveAsPtr",
                 "RawToRef", "CellNew", "CellGet", "CellSet"}

\* mutbl is FALSE for the kinds that carry no mutability.
MirRewrite == [kind : RewriteKinds, mutbl : BOOLEAN, sub_loc : Seq(SubLoc)]

\* A dropped cast, as printed by emit_cast_desc_desc.
Dropped == [sub_loc : Seq(SubLoc), from : TypeDescs, to : TypeDescs]

\* What one handler produces: the rewrites it emits, in order, and the
\* casts it reports as unsupported.
NoRewrite == [rw |-> << >>, drop |-> {}]

Then(a, b) == [rw |-> a.rw \o b.rw, drop |-> a.drop \cup b.drop]

Location == [block : 0 .. NumBlocks - 1, statement_index : 0 .. MaxStmts]

-----------------------------------------------------------------------------
VARIABLES
    body,         \* the MIR body: block number -> statements and terminator
    perms,        \* asn.perms(): PointerId -> PermissionSet
    flags,        \* asn.flags(): PointerId -> FlagSet
    bb,           \* block of the instruction visited next
    idx,          \* its statement index (= #statements: the terminator)
    rewrites,     \* the output HashMap; an absent key is the empty list
    unsupported,  \* casts reported as unsupported, with their Location
    status        \* "running", "done" (out returned) or "panicked"

vars == <<body, perms, flags, bb, idx, rewrites, unsupported, status>>

-----------------------------------------------------------------------------
(* Types and descriptors, as the visitor reads them through acx.          *)

\* acx.type_of(place)
TypeOf(pl) == IF pl.deref THEN IntTy ELSE LocalTy[pl.local]

TypeOfOperand(op) == IF op.kind = "Place" THEN TypeOf(op.place) ELSE IntTy

\* acx.type_of_rvalue: a Use has the type of its operand.
RvalueTy(rv) == IF rv.kind = "Use" THEN TypeOfOperand(rv.op) ELSE rv.ty

IsAnyPtr(lty) == lty.ty \in {"raw", "ref"}

\* perms_to_desc(lty.ty, self.perms[lty.label], self.flags[lty.label])
Desc(lty) == PermsToDesc(lty.ty, perms[lty.label], flags[lty.label])

\* self.emit(kind): one rewrite at the current sub_loc path.
Emit(kind, mutbl, sub) ==
    [rw |-> << [kind |-> kind, mutbl |-> mutbl, sub_loc |-> sub] >>, drop |-> {}]

\* emit_cast_desc_desc: nothing for equal descriptors, MutToImm for the one
\* supported narrowing, otherwise the cast is reported and dropped.
EmitCastDescDesc(from, to, sub) ==
    IF from = to THEN NoRewrite
    ELSE IF from.qty = to.qty /\ from.own = "Mut" /\ to.own = "Imm"
         THEN Emit("MutToImm", FALSE, sub)
         ELSE [rw |-> << >>, drop |-> {[sub_loc |-> sub, from |-> from, to |-> to]}]

\* emit_cast_lty_lty: skipped for two non-pointers and, as a workaround for
\* already-safe code, whenever neither side is a raw pointer.
EmitCastLtyLty(from, to, sub) ==
    IF from.label = NoLabel /\ to.label = NoLabel THEN NoRewrite
    ELSE IF from.ty # "raw" /\ to.ty # "raw" THEN NoRewrite
    ELSE EmitCastDescDesc(Desc(from), Desc(to), sub)

\* visit_operand with Some(expect_ty); visit_place does nothing.
VisitOperand(op, expect, sub) ==
    IF op.kind = "Place" /\ TypeOf(op.place).label # NoLabel
    THEN EmitCastLtyLty(TypeOf(op.place), expect, sub)
    ELSE NoRewrite

\* visit_operand_desc, through emit_cast_lty_desc.
VisitOperandDesc(op, expect, sub) ==
    IF op.kind = "Place" /\ TypeOf(op.place).label # NoLabel
    THEN EmitCastDescDesc(Desc(TypeOf(op.place)), expect, sub)
    ELSE NoRewrite

\* visit_rvalue(rv, Some(expect)) under the path sub.  Only Use and
\* AddressOf can emit; RawToRef is emitted under RvalueOperand(0).
VisitRvalue(rv, expect, sub) ==
    CASE rv.kind = "Use" ->
            VisitOperand(rv.op, expect, Append(sub, RvalueOperandLoc(0)))
      [] rv.kind = "AddressOf" ->
            LET desc == Desc(expect)
                at   == Append(sub, RvalueOperandLoc(0))
            IN  IF desc.own = "Cell" THEN Emit("RawToRef", FALSE, at)
                ELSE IF desc.own \in {"Imm", "Mut"}
                     THEN Emit("RawToRef", rv.mutbl, at)
                     ELSE NoRewrite
      [] OTHER -> NoRewrite

\* The store test reading the facts of &x (local_addr) instead of x's label.
CellSetRwAddr(pl) ==
    LET addr == AddrOfLocal[pl.local] IN
    IF /\ pl.deref
       /\ IsAnyPtr(LocalTy[pl.local])
       /\ LocalPermsToDesc(LocalTy[pl.local].ty, perms[addr], flags[addr]).own = "Cell"
    THEN Emit("CellSet", FALSE, << AssignRvalueLoc >>)
    ELSE NoRewrite

\* `*x = ...` where x is a pointer local whose descriptor is Cell.
CellSetRw(pl) ==
    IF /\ pl.deref
       /\ IsAnyPtr(LocalTy[pl.local])
       /\ Desc(LocalTy[pl.local]).own = "Cell"
    THEN Emit("CellSet", FALSE, << AssignRvalueLoc >>)
    ELSE NoRewrite

\* `x = y` where the address of the destination's local is Cell.
CellNewRw(pl, rv) ==
    LET addr == AddrOfLocal[pl.local] IN
    IF /\ rv.kind = "Use"
       /\ LocalPermsToDesc(LocalTy[pl.local].ty, perms[addr], flags[addr]).own = "Cell"
    THEN Emit("CellNew", FALSE, << AssignRvalueLoc, RvalueOperandLoc(0) >>)
    ELSE NoRewrite

\* `x = *y` where y is a pointer local flagged CELL.
CellGetRw(rv) ==
    IF /\ rv.kind = "Use"
       /\ rv.op.kind = "Place"
       /\ rv.op.place.deref
       /\ IsAnyPtr(LocalTy[rv.op.place.local])
       /\ "CELL" \in flags[LocalTy[rv.op.place.local].label]
    THEN Emit("CellGet", FALSE, << AssignRvalueLoc, RvalueOperandLoc(0) >>)
    ELSE NoRewrite

\* visit_statement on StatementKind::Assign(pl, rv), in emission order.
AssignRewrites(s) ==
    IF s.rv.kind = "Cast" /\ s.voidCast THEN NoRewrite
    ELSE Then(Then(Then(Then(CellSetRw(s.dest), CellNewRw(s.dest, s.rv)),
                        CellGetRw(s.rv)),
                   VisitRvalue(s.rv, RvalueTy(s.rv), << AssignRvalueLoc >>)),
              EmitCastLtyLty(RvalueTy(s.rv), TypeOf(s.dest), << >>))

\* Widening that forgets the Single case.
WidenKeepSingle(q) ==
    CASE q = "Single"    -> "Single"
      [] q = "Slice"     -> "Slice"
      [] q = "OffsetPtr" -> "OffsetPtr"
      [] q = "Array"     -> "Array"

\* The expected quantity of ptr.offset's argument: a Single result comes
\* from an offset on a slice.
Widen(q) ==
    CASE q = "Single"    -> "Slice"
      [] q = "Slice"     -> "Slice"
      [] q = "OffsetPtr" -> "OffsetPtr"
      [] q = "Array"     -> "Array"

\* visit_ptr_offset(args[0], type of destination).
PtrOffsetRewrites(t) ==
    LET result == Desc(TypeOf(t.dest))
        expect == [own |-> result.own, qty |-> Widen(result.qty)]
        mutbl  == result.own = "Mut"
    IN  Then(Then(VisitOperandDesc(t.arg, expect, << CallArgLoc(0) >>),
                  Emit("OffsetSlice", mutbl, << >>)),
             IF result.qty = "Single" THEN Emit("SliceFirst", mutbl, << >>)
                                      ELSE NoRewrite)

\* visit_slice_as_ptr(args[0], type of destination).
SliceAsPtrRewrites(t) ==
    LET opDesc  == Desc(TypeOfOperand(t.arg))
        resDesc == Desc(TypeOf(t.dest))
    IN  IF opDesc.own = resDesc.own /\ opDesc.qty = resDesc.qty
        THEN Emit("RemoveAsPtr", FALSE, << >>)
        ELSE NoRewrite

-----------------------------------------------------------------------------
(* The visiting loop of gen_mir_rewrites.                                  *)

CurBlock == body[bb]

AtStatement == bb < NumBlocks /\ idx < Len(CurBlock.stmts)

AtTerminator == bb < NumBlocks /\ idx = Len(CurBlock.stmts)

CurStmt == CurBlock.stmts[idx + 1]

CurTerm == CurBlock.term

\* Location { block: bb_id, statement_index: i } of statement i.
StmtLoc == [block |-> bb, statement_index |-> idx]

\* The terminator's Location has statement_index = statements.len().
TermLoc == [block |-> bb, statement_index |-> Len(CurBlock.stmts)]

\* emit pushes onto the list of the location (entry().or_insert_with).
Record(loc, out) ==
    /\ rewrites' = [rewrites EXCEPT ![loc] = @ \o out.rw]
    /\ unsupported' = unsupported \cup
          {[loc |-> loc, sub_loc |-> d.sub_loc, from |-> d.from, to |-> d.to] :
              d \in out.drop}

\* The statements of a block, as a set.
StmtsOf(blk) == {blk.stmts[i] : i \in DOMAIN blk.stmts}

\* The PointerIds whose analysis results a body can observe; the others
\* keep a fixed default so that Init does not enumerate irrelevant facts.
UsedIds(b) ==
    LET stmts  == UNION {StmtsOf(b[k]) : k \in DOMAIN b}
        places == UNION {{s.dest, s.rv.op.place, s.rv.place} : s \in stmts}
                  \cup {b[k].term.dest : k \in DOMAIN b}
                  \cup {b[k].term.arg.place : k \in DOMAIN b}
    IN  ({LocalTy[p.local].label : p \in places}
         \cup {s.rv.ty.label : s \in stmts}
         \cup {AddrOfLocal[s.dest.local] : s \in stmts}) \ {NoLabel}

\* The blocks a body may have: at most MaxStmts statements each.
BlockShapes ==
    [stmts : UNION {[1 .. n -> StmtShapes] : n \in 0 .. MaxStmts},
     term  : TermShapes]

Init ==
    /\ body \in [0 .. NumBlocks - 1 -> BlockShapes]
    /\ \E f \in [UsedIds(body) -> FactChoices] :
          /\ perms = [p \in PtrIds |-> IF p \in UsedIds(body) THEN f[p].perms ELSE {}]
          /\ flags = [p \in PtrIds |-> IF p \in UsedIds(body) THEN f[p].flags ELSE {}]
    /\ bb = 0
    /\ idx = 0
    /\ rewrites = [l \in Location |-> << >>]
    /\ unsupported = {}
    /\ status = "running"

-----------------------------------------------------------------------------
(* One action per handler of ExprRewriteVisitor.                           *)

\* visit_statement, StatementKind::Assign.
VisitAssign ==
    /\ status = "running"
    /\ AtStatement
    /\ CurStmt.kind = "Assign"
    /\ Record(StmtLoc, AssignRewrites(CurStmt))
    /\ idx' = idx + 1
    /\ UNCHANGED <<body, perms, flags, bb, status>>

\* visit_statement on the kinds it leaves alone.
VisitIgnoredStatement ==
    /\ status = "running"
    /\ AtStatement
    /\ CurStmt.kind \in IgnoredStmtKinds
    /\ idx' = idx + 1
    /\ UNCHANGED <<body, perms, flags, bb, rewrites, unsupported, status>>

\* visit_statement on SetDiscriminant or CopyNonOverlapping: todo!()
\* panics and the whole output map is dropped while unwinding.
VisitTodoStatement ==
    /\ status = "running"
    /\ AtStatement
    /\ CurStmt.kind \in TodoStmtKinds
    /\ status' = "panicked"
    /\ UNCHANGED <<body, perms, flags, bb, idx, rewrites, unsupported>>

\* Moving to the next block without resetting the statement index.
NextBlockNoReset == bb' = bb + 1 /\ idx' = idx + 1

\* After the terminator, the loop goes on with the next block.
NextBlock == bb' = bb + 1 /\ idx' = 0

\* visit_terminator, Call to ptr.offset: the unreachable!() of
\* visit_ptr_offset fires if the result's quantity is Array.
VisitPtrOffset ==
    /\ status = "running"
    /\ AtTerminator
    /\ CurTerm.kind = "Call" /\ CurTerm.callee = "PtrOffset"
    /\ IF Desc(TypeOf(CurTerm.dest)).qty = "Array"
       THEN /\ status' = "panicked"
            /\ UNCHANGED <<body, perms, flags, bb, idx, rewrites, unsupported>>
       ELSE /\ Record(TermLoc, PtrOffsetRewrites(CurTerm))
            /\ NextBlock
            /\ UNCHANGED <<body, perms, flags, status>>

\* visit_terminator, Call to as_ptr / as_mut_ptr.
VisitSliceAsPtr ==
    /\ status = "running"
    /\ AtTerminator
    /\ CurTerm.kind = "Call" /\ CurTerm.callee = "SliceAsPtr"
    /\ Record(TermLoc, SliceAsPtrRewrites(CurTerm))
    /\ NextBlock
    /\ UNCHANGED <<body, perms, flags, status>>

\* visit_terminator, any other Call: the loop over the arguments emits
\* nothing yet.
VisitOtherCall ==
    /\ status = "running"
    /\ AtTerminator
    /\ CurTerm.kind = "Call" /\ CurTerm.callee = "Other"
    /\ NextBlock
    /\ UNCHANGED <<body, perms, flags, rewrites, unsupported, status>>

\* visit_terminator on the kinds it leaves alone.
VisitIgnoredTerminator ==
    /\ status = "running"
    /\ AtTerminator
    /\ CurTerm.kind \in IgnoredTermKinds
    /\ NextBlock
    /\ UNCHANGED <<body, perms, flags, rewrites, unsupported, status>>

\* visit_terminator on InlineAsm: todo!() panics.
VisitInlineAsm ==
    /\ status = "running"
    /\ AtTerminator
    /\ CurTerm.kind = "InlineAsm"
    /\ status' = "panicked"
    /\ UNCHANGED <<body, perms, flags, bb, idx, rewrites, unsupported>>

\* The loop is over every block: gen_mir_rewrites returns out.
Finish ==
    /\ status = "running"
    /\ bb = NumBlocks
    /\ status' = "done"
    /\ UNCHANGED <<body, perms, flags, bb, idx, rewrites, unsupported>>

Next ==
    \/ VisitAssign
    \/ VisitIgnoredStatement
    \/ VisitTodoStatement
    \/ VisitPtrOffset
    \/ VisitSliceAsPtr
    \/ VisitOtherCall
    \/ VisitIgnoredTerminator
    \/ VisitInlineAsm
    \/ Finish

\* The pass is one sequential loop: it is never starved.
Spec == Init /\ [][Next]_vars /\ WF_vars(Next)

-----------------------------------------------------------------------------
(* Properties.                                                             *)

\* The visitor has already visited location l.
Visited(l) == l.block < bb \/ (l.block = bb /\ l.statement_index < idx)

IsStmtLoc(l) == l.statement_index < Len(body[l.block].stmts)

IsTermLoc(l) == l.statement_index = Len(body[l.block].stmts)

StmtAt(l) == body[l.block].stmts[l.statement_index + 1]

TermAt(l) == body[l.block].term

TypeOK ==
    /\ body \in [0 .. NumBlocks - 1 -> Block]
    /\ \A b \in 0 .. NumBlocks - 1 : Len(body[b].stmts) <= MaxStmts
    /\ perms \in [PtrIds -> SUBSET PermBits]
    /\ flags \in [PtrIds -> SUBSET FlagBits]
    /\ bb \in 0 .. NumBlocks
    /\ idx \in 0 .. MaxStmts
    /\ rewrites \in [Location -> Seq(MirRewrite)]
    /\ unsupported \subseteq [loc : Location, sub_loc : Seq(SubLoc),
                              from : TypeDescs, to : TypeDescs]
    /\ status \in {"running", "done", "panicked"}

\* Offset-call quantity widening (spec, section 8): a visited call to
\* ptr.offset ends its rewrites with exactly OffsetSlice and, when its result
\* is a single pointer, SliceFirst after it, both with the result's
\* mutability, at the call itself; every rewrite before them is at a
\* sub-location (the argument's casts, which visit_ptr_offset emits first);
\* and its argument is only ever cast towards the result's ownership with a
\* Slice in place of a Single quantity, so every cast the visitor gives up on
\* at the argument names that target.
OffsetCallShape ==
    \A l \in Location :
        (Visited(l) /\ IsTermLoc(l) /\ TermAt(l).kind = "Call"
            /\ TermAt(l).callee = "PtrOffset") =>
        LET res == Desc(TypeOf(TermAt(l).dest))
            m   == res.own = "Mut"
            tgt == [own |-> res.own,
                    qty |-> IF res.qty = "Single" THEN "Slice" ELSE res.qty]
            top == << [kind |-> "OffsetSlice", mutbl |-> m, sub_loc |-> << >>] >>
                   \o (IF res.qty = "Single"
                       THEN << [kind |-> "SliceFirst", mutbl |-> m, sub_loc |-> << >>] >>
                       ELSE << >>)
            s   == rewrites[l]
            k   == Len(s) - Len(top)
        IN  /\ k >= 0
            /\ SubSeq(s, k + 1, Len(s)) = top
            /\ \A i \in 1 .. k : s[i].sub_loc # << >>
            /\ \A u \in unsupported : u.loc = l => u.to = tgt

\* Stores and loads through a pointer in this body.
StoreThrough(s, v) ==
    /\ s.kind = "Assign" /\ ~(s.rv.kind = "Cast" /\ s.voidCast)
    /\ s.dest.deref /\ s.dest.local = v

LoadThrough(s, v) ==
    /\ s.kind = "Assign" /\ s.rv.kind = "Use" /\ s.rv.op.kind = "Place"
    /\ s.rv.op.place.deref /\ s.rv.op.place.local = v

HasRewrite(l, kind, sub) ==
    \E i \in 1 .. Len(rewrites[l]) :
        rewrites[l][i].kind = kind /\ rewrites[l][i].sub_loc = sub

\* A pointer is turned into a Cell consistently: the store `*v = e` is
\* rewritten into Cell::set exactly when a load `y = *v` of the same pointer
\* elsewhere in the body is rewritten into Cell::get.  The two decisions
\* are made by different tests (the resolver's ownership for the store,
\* the raw CELL flag for the load), at different locations.
CellAccessConsistent ==
    \A v \in Locals, a, b \in Location :
        (/\ Visited(a) /\ IsStmtLoc(a) /\ StoreThrough(StmtAt(a), v)
         /\ Visited(b) /\ IsStmtLoc(b) /\ LoadThrough(StmtAt(b), v)) =>
        (HasRewrite(a, "CellSet", << AssignRvalueLoc >>)
           <=> HasRewrite(b, "CellGet", << AssignRvalueLoc, RvalueOperandLoc(0) >>))

\* Spec, section 4.2: once the operands are processed, an assignment whose
\* right-hand side and destination have different descriptors gets
\* MutToImm when that narrowing is all that differs, and otherwise an
\* "unsupported cast" diagnostic; a mismatch is never dropped silently.
AssignCastReported ==
    \A l \in Location :
        (Visited(l) /\ IsStmtLoc(l) /\ StmtAt(l).kind = "Assign"
            /\ ~(StmtAt(l).rv.kind = "Cast" /\ StmtAt(l).voidCast)
            /\ TypeOf(StmtAt(l).dest).label # NoLabel) =>
        LET s == StmtAt(l)
        IN  Desc(RvalueTy(s.rv)) # Desc(TypeOf(s.dest)) =>
               \/ HasRewrite(l, "MutToImm", << >>)
               \/ \E u \in unsupported : u.loc = l /\ u.sub_loc = << >>

\* The sub-locations an instruction has (SubLoc's documentation): the
\* rvalue of an assignment, the operands of Use and Cast, the place of
\* AddressOf, and the first argument of a call.
SubLocsOf(l) ==
    IF IsStmtLoc(l)
    THEN LET rvk == StmtAt(l).rv.kind IN
         {<< >>, << AssignRvalueLoc >>}
         \cup (IF rvk \in {"Use", "Cast"}
               THEN {<< AssignRvalueLoc, RvalueOperandLoc(0) >>} ELSE {})
         \cup (IF rvk = "AddressOf"
               THEN {<< AssignRvalueLoc, [tag |-> "RvaluePlace", idx |-> 0] >>}
               ELSE {})
    ELSE {<< >>, << CallArgLoc(0) >>}

\* Every rewrite names a sub-location that exists in its instruction, so
\* that it can be joined with the unlowering map.
SubLocExists ==
    \A l \in Location : \A i \in 1 .. Len(rewrites[l]) :
        rewrites[l][i].sub_loc \in SubLocsOf(l)

\* CellNew wraps a value stored straight into a local (spec, section 4.2:
\* "a freshly introduced non-pointer local"; the code's comment: `let x =
\* 2` where x has CELL permissions), never one stored through a pointer.
CellNewOnlyForLocals ==
    \A l \in Location :
        (Visited(l) /\ IsStmtLoc(l) /\ HasRewrite(l, "CellNew",
                                  << AssignRvalueLoc, RvalueOperandLoc(0) >>))
            => ~StmtAt(l).dest.deref

=============================================================================

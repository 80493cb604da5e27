---------------------------- MODULE UnlowerJoin -----------------------------
(***************************************************************************)
(* The two maps the rewrite pass joins, built side by side on one MIR     *)
(* body and its HIR: gen_mir_rewrites (MirOp) keys every rewrite by its   *)
(* Location and the SubLoc path the visitor had entered, and unlower      *)
(* (Unlower) keys every HIR origin by a Location and the SubLoc path it   *)
(* chose.  The two passes share nothing and run in either order; the      *)
(* join looks a rewrite's key up in the unlowering map.                   *)
(*                                                                         *)
(* The MIR instruction Unlower sees is the MirOp instruction at the same  *)
(* Location, reduced to its kind, its span (SpanOf), whether its          *)
(* destination is a bare local, and for a call its argument count.        *)
(***************************************************************************)
EXTENDS MirOp

CONSTANTS
    N,          \* number of HIR expressions, in pre-order
    Spans,      \* source spans
    Program,    \* the MIR body, one of [0 .. NumBlocks - 1 -> BlockShapes]
    ProgramHir, \* its HIR body
    SpanOf,     \* source_info.span of every instruction of Program
    NArgs       \* the number of arguments of a call to each callee

VARIABLES hir, mir, pc, mir_map, conflicts, mismatched, attempts

uvars == <<hir, mir, pc, mir_map, conflicts, mismatched, attempts>>

\* The Locations of a body: its statements and its terminators.
LocsOf(b) ==
    UNION {{[block |-> k, statement_index |-> i] : i \in 0 .. Len(b[k].stmts)} :
              k \in DOMAIN b}

\* stmt_at(loc), as UnlowerVisitor reads it.
Lower(b) ==
    [l \in LocsOf(b) |->
        IF l.statement_index < Len(b[l.block].stmts)
        THEN LET s == b[l.block].stmts[l.statement_index + 1]
             IN  [kind |-> s.kind, span |-> SpanOf[l],
                  destIsVar |-> ~s.dest.deref, nargs |-> 0]
        ELSE LET t == b[l.block].term
             IN  [kind |-> IF t.kind = "Call" THEN "Call" ELSE "Goto",
                  span |-> SpanOf[l], destIsVar |-> ~t.dest.deref,
                  nargs |-> IF t.kind = "Call" THEN NArgs[t.callee] ELSE 0]]

U == INSTANCE Unlower WITH Locs <- Location, HirShapes <- {ProgramHir},
                           MirShapes <- {Lower(Program)}

\* The body is not under a derived impl: the unlowering visit runs.
JInit == Init /\ body = Program /\ U!Init /\ pc = 1

JNext == (Next /\ UNCHANGED uvars) \/ (U!Next /\ UNCHANGED vars)

JSpec == JInit /\ [][JNext]_<<vars, uvars>>

\* q is a prefix of p: p names a part inside the part q names.
PathPrefix(q, p) == Len(q) <= Len(p) /\ SubSeq(p, 1, Len(q)) = q

\* Once both maps are built, every rewrite the annotator put inside a call
\* argument (a path starting with CallArg(i)) lies inside a sub-location
\* the unlowering map records for that call, so the lifting step can place
\* it on the argument's source expression rather than on the whole call.
ArgRewriteJoinsArg ==
    (status = "done" /\ pc > N) =>
        \A l \in Location : \A i \in 1 .. Len(rewrites[l]) :
            LET path == rewrites[l][i].sub_loc IN
            (path # << >> /\ path[1].tag = "CallArg") =>
                \E k \in DOMAIN mir_map :
                    k.loc = l /\ k.path # << >> /\ PathPrefix(k.path, path)

=============================================================================

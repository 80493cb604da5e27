----------------------------- MODULE MirOpPass -----------------------------
(***************************************************************************)
(* The loop of gen_mir_rewrites (MirOp) implements MirPass: the handled    *)
(* instructions are the statement and terminator Locations the loop has    *)
(* passed, and every other variable is its own image.                      *)
(***************************************************************************)
EXTENDS MirOp

\* The instructions whose handler has run: the Locations before the loop's
\* position that name a statement or a terminator.
Handled == {l \in Location : Visited(l) /\ (IsStmtLoc(l) \/ IsTermLoc(l))}

Pass == INSTANCE MirPass WITH filled <- Handled

\* gen_mir_rewrites implements its promise: each visit_statement and
\* visit_terminator call fills one instruction not filled before with
\* exactly that handler's rewrites and reports, an abort happens only in a
\* todo!() handler, and the map is returned only after every statement and
\* terminator of every block was visited (and, under the loop's fairness,
\* the pass ends).
Refines == Pass!Spec

=============================================================================

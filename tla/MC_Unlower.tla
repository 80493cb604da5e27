------------------------------ MODULE MC_Unlower ----------------------------
(* A root expression with two operands, visited root first, and a block  *)
(* of two statements and a terminator.  The root is an assignment, a call *)
(* (with one argument after its callee, or a method call with two) or     *)
(* another expression; every expression's span and every instruction's   *)
(* kind, span and destination vary, so expressions may share spans with  *)
(* each other and with any instruction.                                   *)
EXTENDS Unlower

CONSTANTS s1, s2, s3

MCSpans == {s1, s2, s3}

MCLocs == {[block |-> 0, statement_index |-> i] : i \in 0 .. 2}

MCArgs(k) == CASE k = "Assign" -> {<<2, 3>>}
                [] k = "Call"   -> {<<3>>, <<2, 3>>}
                [] OTHER        -> {<< >>}

MCHirShapes ==
    UNION {{[kind |-> [e \in 1 .. 3 |-> IF e = 1 THEN k ELSE "Other"],
             span |-> [e \in 1 .. 3 |-> IF e = 1 THEN s1 ELSE IF e = 2 THEN sp2 ELSE sp3],
             args |-> [e \in 1 .. 3 |-> IF e = 1 THEN a ELSE << >>]] :
              sp2 \in MCSpans, sp3 \in MCSpans, a \in MCArgs(k)} : k \in HirKinds}

MCStmts == [kind : {"Assign", "StorageLive", "SetDiscriminant"}, span : MCSpans, destIsVar : BOOLEAN, nargs : {0}]

MCTerms == [kind : {"Goto"}, span : MCSpans, destIsVar : {FALSE}, nargs : {0}]
           \cup [kind : {"Call"}, span : MCSpans, destIsVar : BOOLEAN, nargs : {1, 2}]

MCMirShapes ==
    {[l \in MCLocs |-> IF l.statement_index = 0 THEN i0 ELSE IF l.statement_index = 1 THEN i1 ELSE t] :
       i0 \in MCStmts, i1 \in MCStmts, t \in MCTerms}

=============================================================================

--------------------------- MODULE MC_UnlowerJoin ---------------------------
(* `let y = p.offset(1);` lowered by rustc to                              *)
(*     bb0[0]: StorageLive(y)             span of the let                   *)
(*     bb0[1]: t = copy p                 span of `p`                      *)
(*     bb0[2]: y = offset(move t, 1)      span of `p.offset(1)`            *)
(* and its HIR: 1 = p.offset(1) (a method call with arguments <<2, 3>>),  *)
(* 2 = p, 3 = 1.  The analysis results of p, t and y vary.                 *)
EXTENDS UnlowerJoin

CONSTANTS p, t, y, lp, lt, ly, ap, at, ay, NONE, sLet, sP, sCall, sOne

MCLocals == {p, t, y}

MCSpans == {sLet, sP, sCall, sOne}

MCPtrIds == {lp, lt, ly, ap, at, ay}

MCLocalTy ==
    [l \in MCLocals |-> [ty |-> "raw", label |-> CASE l = p -> lp [] l = t -> lt [] l = y -> ly]]

MCAddrOfLocal == [l \in MCLocals |-> CASE l = p -> ap [] l = t -> at [] l = y -> ay]

Pl(l) == [local |-> l, deref |-> FALSE]

IntTy0 == [ty |-> "int", label |-> NONE]

ConstOp0 == [kind |-> "Constant", place |-> Pl(p)]

StorageLiveY ==
    [kind |-> "StorageLive", dest |-> Pl(y), voidCast |-> FALSE,
     rv |-> [kind |-> "Other", op |-> ConstOp0, place |-> Pl(p), mutbl |-> FALSE, ty |-> IntTy0]]

CopyP ==
    [kind |-> "Assign", dest |-> Pl(t), voidCast |-> FALSE,
     rv |-> [kind |-> "Use", op |-> [kind |-> "Place", place |-> Pl(p)],
             place |-> Pl(p), mutbl |-> FALSE, ty |-> IntTy0]]

OffsetCall ==
    [kind |-> "Call", callee |-> "PtrOffset",
     arg |-> [kind |-> "Place", place |-> Pl(t)], dest |-> Pl(y)]

MCStmtShapes == {StorageLiveY, CopyP}

MCTermShapes == {OffsetCall}

MCProgram == [k \in {0} |-> [stmts |-> <<StorageLiveY, CopyP>>, term |-> OffsetCall]]

MCSpanOf ==
    [l \in Location |-> CASE l.statement_index = 0 -> sLet
                          [] l.statement_index = 1 -> sP
                          [] OTHER                 -> sCall]

MCProgramHir ==
    [kind |-> <<"Call", "Other", "Other">>,
     span |-> <<sCall, sP, sOne>>,
     args |-> <<<<2, 3>>, << >>, << >>>>]

MCNArgs == [c \in Callees |-> IF c = "SliceAsPtr" THEN 1 ELSE 2]

MCFactChoices ==
    {[perms |-> {}, flags |-> {}],
     [perms |-> {"WRITE", "UNIQUE"}, flags |-> {}],
     [perms |-> {"WRITE", "UNIQUE", "OFFSET_ADD"}, flags |-> {}]}

=============================================================================

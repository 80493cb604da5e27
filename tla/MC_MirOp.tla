------------------------------ MODULE MC_MirOp ------------------------------
(***************************************************************************)
(* Small instances of MirOp for TLC.  Four locals cover the types the      *)
(* visitor tells apart: two raw pointers p and q, a safe reference r and   *)
(* an integer x.  Every rvalue with a pointer type gets the label rv.      *)
(* The statement and terminator shapes are every well-typed combination   *)
(* of these places; the analysis results range over the descriptors       *)
(* Imm, Mut and Cell with quantities Single, Slice and OffsetPtr.          *)
(***************************************************************************)
EXTENDS MirOp

CONSTANTS p, q, r, x, lp, lq, lr, ap, aq, ar, ax, rv, NONE

MCLocals == {p, q, r, x}

MCPtrIds == {lp, lq, lr, ap, aq, ar, ax, rv}

MCLocalTy ==
    [l \in MCLocals |->
        CASE l = p -> [ty |-> "raw", label |-> lp]
          [] l = q -> [ty |-> "raw", label |-> lq]
          [] l = r -> [ty |-> "ref", label |-> lr]
          [] l = x -> [ty |-> "int", label |-> NONE]]

MCAddrOfLocal ==
    [l \in MCLocals |-> CASE l = p -> ap [] l = q -> aq [] l = r -> ar [] l = x -> ax]

PlaceX == [local |-> x, deref |-> FALSE]

PlainPlaces == {[local |-> l, deref |-> FALSE] : l \in MCLocals}

DerefPlaces == {[local |-> l, deref |-> TRUE] : l \in {p, q, r}}

NoTy == [ty |-> "int", label |-> NONE]

PlaceOp(pl) == [kind |-> "Place", place |-> pl]

ConstOp == [kind |-> "Constant", place |-> PlaceX]

UseRv(op) == [kind |-> "Use", op |-> op, place |-> PlaceX, mutbl |-> FALSE, ty |-> NoTy]

MCRvalues ==
    {UseRv(PlaceOp(pl)) : pl \in PlainPlaces \cup DerefPlaces}
    \cup {UseRv(ConstOp)}
    \cup {[kind |-> "AddressOf", op |-> ConstOp, place |-> pl, mutbl |-> m,
           ty |-> [ty |-> "raw", label |-> rv]] :
              pl \in {PlaceX} \cup DerefPlaces, m \in BOOLEAN}
    \cup {[kind |-> "Cast", op |-> PlaceOp([local |-> l, deref |-> FALSE]),
           place |-> PlaceX, mutbl |-> FALSE, ty |-> [ty |-> "raw", label |-> rv]] :
              l \in {p, q}}
    \cup {[kind |-> "Other", op |-> ConstOp, place |-> PlaceX, mutbl |-> FALSE, ty |-> t] :
              t \in {NoTy, [ty |-> "ref", label |-> rv]}}

\* Every well-typed assignment, plus one ignored and one unsupported kind.
MCAssigns ==
    {[kind |-> "Assign", dest |-> d, rv |-> v, voidCast |-> c] :
        d \in PlainPlaces \cup DerefPlaces, v \in MCRvalues,
        c \in BOOLEAN}

WellTypedAssigns ==
    {s \in MCAssigns : /\ TypeOf(s.dest).ty = RvalueTy(s.rv).ty
                       /\ s.voidCast => s.rv.kind = "Cast"}

OtherStmts ==
    {[kind |-> k, dest |-> PlaceX, rv |-> UseRv(ConstOp), voidCast |-> FALSE] :
        k \in {"StorageLive", "SetDiscriminant"}}

MCStmtShapesAll == WellTypedAssigns \cup OtherStmts

\* Stores into and loads from *p and x only, for bodies of two statements.
MCStmtShapesCell ==
    {s \in WellTypedAssigns :
        /\ s.dest \in {[local |-> p, deref |-> TRUE], PlaceX}
        /\ s.rv \in {UseRv(PlaceOp([local |-> p, deref |-> TRUE])),
                     UseRv(PlaceOp(PlaceX)), UseRv(ConstOp)}}

Goto == [kind |-> "Goto", callee |-> "Other", arg |-> ConstOp, dest |-> PlaceX]

RawPlaces == {[local |-> l, deref |-> FALSE] : l \in {p, q}}

MCTermShapesAll ==
    {[kind |-> "Call", callee |-> "PtrOffset", arg |-> PlaceOp(a), dest |-> d] :
        a \in RawPlaces, d \in RawPlaces}
    \cup {[kind |-> "Call", callee |-> "SliceAsPtr", arg |-> PlaceOp(a), dest |-> d] :
        a \in {[local |-> r, deref |-> FALSE], [local |-> q, deref |-> FALSE]},
        d \in {[local |-> p, deref |-> FALSE]}}
    \cup {[kind |-> "Call", callee |-> "Other", arg |-> ConstOp, dest |-> PlaceX],
          [kind |-> "InlineAsm", callee |-> "Other", arg |-> ConstOp, dest |-> PlaceX],
          Goto}

MCTermShapesGoto == {Goto}

MCFactChoicesAll ==
    {[perms |-> {}, flags |-> {}],
     [perms |-> {"WRITE", "UNIQUE"}, flags |-> {}],
     [perms |-> {"OFFSET_ADD"}, flags |-> {}],
     [perms |-> {"WRITE", "UNIQUE", "OFFSET_ADD"}, flags |-> {}],
     [perms |-> {"OFFSET_SUB"}, flags |-> {}],
     [perms |-> {"WRITE", "UNIQUE"}, flags |-> {"CELL"}]}


\* For the refinement run: one cast-carrying assignment, one ignored and one
\* todo!() statement, and the two recognised calls, InlineAsm and Goto as
\* terminators, over two blocks.
PlaceOf(l) == [local |-> l, deref |-> FALSE]

MCStmtShapesPass ==
    {[kind |-> "Assign", dest |-> PlaceOf(p), rv |-> UseRv(PlaceOp(PlaceOf(q))),
      voidCast |-> FALSE]}
    \cup OtherStmts

MCTermShapesPass ==
    {[kind |-> "Call", callee |-> "PtrOffset", arg |-> PlaceOp(PlaceOf(q)), dest |-> PlaceOf(p)],
     [kind |-> "Call", callee |-> "SliceAsPtr", arg |-> PlaceOp(PlaceOf(r)), dest |-> PlaceOf(p)],
     [kind |-> "InlineAsm", callee |-> "Other", arg |-> ConstOp, dest |-> PlaceX],
     Goto}

MCFactChoicesPass ==
    {[perms |-> {}, flags |-> {}],
     [perms |-> {"WRITE", "UNIQUE", "OFFSET_ADD"}, flags |-> {}]}

=============================================================================

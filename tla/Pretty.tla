------------------------------- MODULE Pretty -------------------------------
(***************************************************************************)
(* Rewrite::pretty of rewrite/mod.rs: the precedence-aware printer of the  *)
(* Rewrite trees that rewrite::apply splices into the source.  A Rewrite   *)
(* is a record with its variant in `k`; the printed text is a sequence of  *)
(* pieces: each fixed text the code writes is one piece, and the strings   *)
(* the code copies (PrintTy, a TyCtor's name) and the digits of a Sub      *)
(* index are written character by character, as write! does, so that two  *)
(* outputs are equal exactly when their text is.                           *)
(*                                                                         *)
(* The printer is a pure function; the state machine around it is the      *)
(* Display impl called once on one rewrite.  Recursive: TLC only.         *)
(***************************************************************************)
EXTENDS Naturals, Sequences

CONSTANTS
    Strs,       \* PrintTy strings and TyCtor names, as sequences of characters
    SubIdx,     \* the indices of Rewrite::Sub
    MaxSize     \* bound on the nodes of a rewrite tree

Muts == {"Not", "Mut"}

\* The variants of enum Rewrite without children.
ExprAtoms ==
    {[k |-> "Identity"], [k |-> "LitZero"]} \cup {[k |-> "Sub", i |-> i] : i \in SubIdx}

\* The expression builders of enum Rewrite with n nodes.
RECURSIVE ExprTreesOfSize(_)
ExprTreesOfSize(n) ==
    IF n = 1 THEN ExprAtoms
    ELSE LET sub == ExprTreesOfSize(n - 1) IN
         {[k |-> "Ref", m |-> m, a |-> a] : m \in Muts, a \in sub}
         \cup {[k |-> "AddrOf", m |-> m, a |-> a] : m \in Muts, a \in sub}
         \cup {[k |-> "Deref", a |-> a] : a \in sub}
         \cup {[k |-> "CastUsize", a |-> a] : a \in sub}
         \cup UNION {{[k |-> c, a |-> a, b |-> b] :
                         c \in {"Index", "SliceTail"},
                         a \in ExprTreesOfSize(j), b \in ExprTreesOfSize(n - 1 - j)} :
                       j \in 1 .. n - 2}

\* The type builders of enum Rewrite with n nodes; a TyCtor has at most
\* two arguments.
RECURSIVE TyTreesOfSize(_)
TyTreesOfSize(n) ==
    IF n = 1 THEN {[k |-> "PrintTy", s |-> s] : s \in Strs}
                  \cup {[k |-> "TyCtor", s |-> s, args |-> << >>] : s \in Strs}
    ELSE LET sub == TyTreesOfSize(n - 1) IN
         {[k |-> c, m |-> m, a |-> a] : c \in {"TyPtr", "TyRef"}, m \in Muts, a \in sub}
         \cup {[k |-> "TySlice", a |-> a] : a \in sub}
         \cup {[k |-> "TyCtor", s |-> s, args |-> <<a>>] : s \in Strs, a \in sub}
         \cup UNION {{[k |-> "TyCtor", s |-> s, args |-> <<a, b>>] :
                         s \in Strs, a \in TyTreesOfSize(j), b \in TyTreesOfSize(n - 1 - j)} :
                       j \in 1 .. n - 2}

ExprTrees == UNION {ExprTreesOfSize(n) : n \in 1 .. MaxSize}

TyTrees == UNION {TyTreesOfSize(n) : n \in 1 .. MaxSize}

DigitChar(d) == <<"0", "1", "2", "3", "4", "5", "6", "7", "8", "9">>[d + 1]

\* The decimal digits `{}` writes for a usize.
RECURSIVE Digits(_)
Digits(i) ==
    IF i < 10 THEN <<DigitChar(i)>> ELSE Digits(i \div 10) \o <<DigitChar(i % 10)>>

\* parenthesize_if: the inner text, in parentheses when cond holds.
ParenthesizeIf(cond, s) == IF cond THEN <<"(">> \o s \o <<")">> ELSE s

RefText(m) == IF m = "Not" THEN <<"&">> ELSE <<"&mut ">>

\* Mutant: Ref is parenthesized only in contexts above Index's precedence.
RefArmLoose(m, prec, inner) == ParenthesizeIf(prec > 3, RefText(m) \o inner)

\* The Ref arm around its operand printed at precedence 2.
RefArm(m, prec, inner) == ParenthesizeIf(prec > 2, RefText(m) \o inner)

\* Mutant: the arguments of a TyCtor joined with ", " as documented.
TyCtorArgsSeparated(outs) ==
    LET RECURSIVE J(_)
        J(i) == IF i = 0 THEN << >>
                ELSE J(i - 1) \o (IF i > 1 THEN <<",", " ">> ELSE << >>) \o outs[i]
    IN  J(Len(outs))

\* The loop over a TyCtor's arguments: each printed, nothing in between.
TyCtorArgs(outs) ==
    LET RECURSIVE J(_)
        J(i) == IF i = 0 THEN << >> ELSE J(i - 1) \o outs[i]
    IN  J(Len(outs))

\* Rewrite::pretty(self, f, prec).
RECURSIVE Pretty(_, _)
Pretty(t, prec) ==
    CASE t.k = "Identity"  -> <<"$e">>
      [] t.k = "Sub"       -> <<"$">> \o Digits(t.i)
      [] t.k = "Ref"       -> RefArm(t.m, prec, Pretty(t.a, 2))
      [] t.k = "AddrOf"    -> <<IF t.m = "Not" THEN "core::ptr::addr_of!"
                                ELSE "core::ptr::addr_of_mut!", "(">>
                              \o Pretty(t.a, 0) \o <<")">>
      [] t.k = "Deref"     -> ParenthesizeIf(prec > 2, <<"*">> \o Pretty(t.a, 2))
      [] t.k = "Index"     -> ParenthesizeIf(prec > 3,
                                 Pretty(t.a, 3) \o <<"[">> \o Pretty(t.b, 0) \o <<"]">>)
      [] t.k = "SliceTail" -> ParenthesizeIf(prec > 3,
                                 Pretty(t.a, 3) \o <<"[">> \o Pretty(t.b, 999) \o <<" ..]">>)
      [] t.k = "CastUsize" -> ParenthesizeIf(prec > 1, Pretty(t.a, 1) \o <<" as usize">>)
      [] t.k = "LitZero"   -> <<"0">>
      [] t.k = "PrintTy"   -> t.s
      [] t.k = "TyPtr"     -> <<IF t.m = "Not" THEN "*const " ELSE "*mut ">> \o Pretty(t.a, 0)
      [] t.k = "TyRef"     -> RefText(t.m) \o Pretty(t.a, 0)
      [] t.k = "TySlice"   -> <<"[">> \o Pretty(t.a, 0) \o <<"]">>
      [] t.k = "TyCtor"    -> t.s \o <<"<">>
                              \o TyCtorArgs([i \in 1 .. Len(t.args) |-> Pretty(t.args[i], 0)])
                              \o <<">">>

VARIABLES
    rw,     \* the rewrite being displayed
    out     \* the text written to the formatter, << >> before

vars == <<rw, out>>

Init == rw \in ExprTrees \cup TyTrees /\ out = << >>

\* impl Display for Rewrite: pretty at precedence 0.
Display == out = << >> /\ out' = Pretty(rw, 0) /\ UNCHANGED rw

Next == Display

Spec == Init /\ [][Next]_vars

-----------------------------------------------------------------------------
(* Properties.                                                             *)

PrintedExpr == [t \in ExprTrees |-> Pretty(t, 0)]

PrintedTy == [t \in TyTrees |-> Pretty(t, 0)]

\* The text `pretty` prints for an expression rewrite determines the
\* rewrite: wherever the precedence of the context requires it, Ref,
\* Deref, Index, SliceTail and CastUsize are parenthesized, so no two
\* different expression rewrites splice the same text into the source.
ExprUnambiguous ==
    (out # << >> /\ rw \in ExprTrees) =>
        \A t \in ExprTrees : PrintedExpr[t] = out => t = rw

\* The same for type rewrites: `Foo<T1, T2>` (the TyCtor doc comment)
\* names its arguments apart, so no two type rewrites print the same text.
TyUnambiguous ==
    (out # << >> /\ rw \in TyTrees) =>
        \A t \in TyTrees : PrintedTy[t] = out => t = rw

=============================================================================

------------------------------ MODULE Unlower -------------------------------
(***************************************************************************)
(* The unlowering map of unlower.rs.  UnlowerVisitor walks the HIR body in *)
(* pre-order (visit_expr, then walk_expr) and, for each expression, looks  *)
(* up the MIR locations carrying exactly the expression's span, drops the  *)
(* bookkeeping statements, and classifies what is left by the expression's *)
(* kind.  Matching expressions record origins in mir_map, keyed by         *)
(* (Location, SubLoc path); the first origin recorded for a key is kept    *)
(* and a different later one is logged as a conflict.                      *)
(*                                                                         *)
(* The HIR is a fixed tree of expressions 1 .. N numbered in visiting      *)
(* order; each has a kind, a span and (Assign, Call, MethodCall) its       *)
(* operand expressions.  A MIR instruction is reduced to its kind, its     *)
(* span, whether its destination place has no projection, and for a call  *)
(* the number of its arguments.                                            *)
(***************************************************************************)
EXTENDS Naturals, Sequences, FiniteSets

CONSTANTS
    N,          \* number of HIR expressions, in pre-order
    Spans,      \* source spans
    HirShapes,  \* the HIR bodies considered
    MirShapes,  \* the MIR bodies considered (functions from Locs)
    Locs        \* the MIR locations, [block, statement_index] records

ASSUME UnlowerAssumptions ==
    /\ N \in Nat
    /\ Locs \subseteq [block : Nat, statement_index : Nat]

Exprs == 1 .. N

HirKinds == {"Assign", "Call", "Other"}

\* A HIR body: per expression its kind, span and operands.  For Assign the
\* operands are <<place, rvalue>>; for Call and MethodCall they are the
\* arguments (the receiver included, the callee excluded).
Hir == [kind : [Exprs -> HirKinds], span : [Exprs -> Spans],
        args : [Exprs -> Seq(Exprs)]]

\* MIR statement kinds; terminator kinds: a call and any other ("Goto").
StmtKinds == {"Assign", "FakeRead", "SetDiscriminant", "Deinit",
              "StorageLive", "StorageDead", "Retag", "AscribeUserType",
              "Coverage", "CopyNonOverlapping", "Nop"}

TermKinds == {"Call", "Goto"}

Instr == [kind : StmtKinds \cup TermKinds, span : Spans,
          destIsVar : BOOLEAN, nargs : Nat]

\* The SubLoc steps unlower.rs uses; `Rvalue` is its name for the value
\* part of an assignment or call.
SubLoc == [tag : {"Dest", "Rvalue", "CallArg"}, idx : Nat]

Dest == [tag |-> "Dest", idx |-> 0]

Rvalue == [tag |-> "Rvalue", idx |-> 0]

CallArg(i) == [tag |-> "CallArg", idx |-> i]

\* MirOrigin: the HIR expression and what the MIR does with it.
Origin == [hir : Exprs, desc : {"Expr", "StoreIntoLocal"}]

Key == [loc : Locs, path : Seq(SubLoc)]

\* The bodies are well formed (an assignment, hir::ExprKind::Assign(pl, rv,
\* _), has exactly its two operands), and a body has finitely many
\* locations: block and statement indices are bounded by ones that occur.
ASSUME ShapeAssumptions ==
    /\ HirShapes \subseteq Hir
    /\ \A h \in HirShapes, e \in Exprs : h.kind[e] = "Assign" => Len(h.args[e]) = 2
    /\ \A m \in MirShapes : DOMAIN m \subseteq Locs /\ \A l \in DOMAIN m : m[l] \in Instr
    /\ \E b \in {l.block : l \in Locs}, i \in {l.statement_index : l \in Locs} :
          \A l \in Locs : l.block <= b /\ l.statement_index <= i

VARIABLES
    hir,        \* the HIR body
    mir,        \* the MIR body
    pc,         \* the next expression to visit
    mir_map,    \* (Location, SubLoc path) -> MirOrigin
    conflicts,  \* keys for which a conflicting origin was logged
    mismatched, \* expressions reported as a structural mismatch
    attempts    \* history: every record call, with the visit it came from

vars == <<hir, mir, pc, mir_map, conflicts, mismatched, attempts>>

\* Location order: by block, then by statement index.
LocLt(a, b) ==
    a.block < b.block \/ (a.block = b.block /\ a.statement_index < b.statement_index)

\* should_ignore_statement.
ShouldIgnoreStatement(l) == mir[l].kind \in {"FakeRead", "StorageLive", "StorageDead", "Nop"}

\* span_index.lookup_exact(span), with the ignored statements filtered out.
Matching(sp) == {l \in DOMAIN mir : mir[l].span = sp /\ ~ShouldIgnoreStatement(l)}

\* locs.last(): the greatest location.
LastLoc(ls) == CHOOSE l \in ls : \A m \in ls : ~LocLt(l, m)

\* get_last_assign / get_last_call: the last location, if it is an
\* assignment statement or a call terminator, respectively.
GetLastAssign(ls) == ls # {} /\ mir[LastLoc(ls)].kind = "Assign"

GetLastCall(ls) == ls # {} /\ mir[LastLoc(ls)].kind = "Call"

\* get_sole_assign: exactly one location, an assignment.
GetSoleAssign(ls) == Cardinality(ls) = 1 /\ GetLastAssign(ls)

\* is_var: the destination place has no projection.
IsVar(l) == mir[l].destIsVar

\* The key (loc, sub_loc.to_owned()) and the MirOrigin of one record_desc call.
Entry(l, path, e, desc) ==
    [key |-> [loc |-> l, path |-> path], origin |-> [hir |-> e, desc |-> desc]]

\* The origins visit_expr_inner records for expression e whose matching
\* locations are ls, and whether it reports a structural mismatch.
AssignEntries(e, l) ==
    <<Entry(l, << >>, e, "Expr"),
      Entry(l, <<Dest>>, hir.args[e][1], "Expr"),
      Entry(l, <<Rvalue>>, hir.args[e][2], "Expr")>>

\* The number of pairs args.iter().zip(mir_args) yields.
ZipLen(e, l) == IF Len(hir.args[e]) <= mir[l].nargs THEN Len(hir.args[e]) ELSE mir[l].nargs

\* Mutant: the arguments are not zipped with the MIR call's operands.
CallEntriesNoZip(e, l) ==
    <<Entry(l, << >>, e, "StoreIntoLocal"), Entry(l, <<Rvalue>>, e, "Expr")>>
    \o [i \in 1 .. Len(hir.args[e]) |->
          Entry(l, <<Rvalue, CallArg(i - 1)>>, hir.args[e][i], "Expr")]

\* Mutant: each argument is recorded under the call's own [Rvalue] key.
CallEntriesArgAtRvalue(e, l) ==
    <<Entry(l, << >>, e, "StoreIntoLocal"), Entry(l, <<Rvalue>>, e, "Expr")>>
    \o [i \in 1 .. ZipLen(e, l) |-> Entry(l, <<Rvalue>>, hir.args[e][i], "Expr")]

CallEntries(e, l) ==
    <<Entry(l, << >>, e, "StoreIntoLocal"), Entry(l, <<Rvalue>>, e, "Expr")>>
    \o [i \in 1 .. ZipLen(e, l) |->
          Entry(l, <<Rvalue, CallArg(i - 1)>>, hir.args[e][i], "Expr")]

OtherEntries(e, l) ==
    <<Entry(l, << >>, e, "StoreIntoLocal"), Entry(l, <<Rvalue>>, e, "Expr")>>

Matches(e, ls) ==
    CASE hir.kind[e] = "Assign" -> GetSoleAssign(ls)
      [] hir.kind[e] = "Call"   -> GetLastCall(ls) /\ IsVar(LastLoc(ls))
      [] OTHER                  -> GetLastAssign(ls) /\ IsVar(LastLoc(ls))

Entries(e, ls) ==
    CASE hir.kind[e] = "Assign" -> AssignEntries(e, LastLoc(ls))
      [] hir.kind[e] = "Call"   -> CallEntries(e, LastLoc(ls))
      [] OTHER                  -> OtherEntries(e, LastLoc(ls))

\* The record_desc calls of one visit, in order.  A key takes the origin
\* of its first call when it is vacant, and keeps the one it has
\* otherwise; every call whose origin differs from the kept one is logged.
KeysOf(es) == {es[i].key : i \in 1 .. Len(es)}

FirstFor(es, k) == es[CHOOSE i \in 1 .. Len(es) : es[i].key = k /\ \A j \in 1 .. i - 1 : es[j].key # k].origin

Kept(es, k) == IF k \in DOMAIN mir_map THEN mir_map[k] ELSE FirstFor(es, k)

Logged(es) == {k \in KeysOf(es) : \E i \in 1 .. Len(es) : es[i].key = k /\ es[i].origin # Kept(es, k)}

Attempted(es) == {[key |-> es[i].key, origin |-> es[i].origin, pos |-> pc] : i \in 1 .. Len(es)}

\* Mutant: a later origin overwrites the recorded one (insert, not entry).
RecordAllOverwrite(es) ==
    /\ mir_map' = [k \in DOMAIN mir_map \cup KeysOf(es) |->
                     IF k \in KeysOf(es) THEN FirstFor(es, k) ELSE mir_map[k]]
    /\ conflicts' = conflicts \cup Logged(es)
    /\ attempts' = attempts \cup Attempted(es)

\* Mutant: origins are compared by their desc only.
RecordAllSameDesc(es) ==
    /\ mir_map' = [k \in DOMAIN mir_map \cup KeysOf(es) |-> Kept(es, k)]
    /\ conflicts' = conflicts \cup
         {k \in KeysOf(es) : \E i \in 1 .. Len(es) :
              es[i].key = k /\ es[i].origin.desc # Kept(es, k).desc}
    /\ attempts' = attempts \cup Attempted(es)

RecordAll(es) ==
    /\ mir_map' = [k \in DOMAIN mir_map \cup KeysOf(es) |-> Kept(es, k)]
    /\ conflicts' = conflicts \cup Logged(es)
    /\ attempts' = attempts \cup Attempted(es)

\* unlower: a body under an automatically derived impl maps to nothing (the
\* visit is skipped); otherwise the visitor starts at the root.  Either way
\* the map starts empty.
Init ==
    /\ hir \in HirShapes
    /\ mir \in MirShapes
    /\ pc \in {1, N + 1}
    /\ mir_map = [k \in {} |-> CHOOSE o \in Origin : TRUE]
    /\ conflicts = {}
    /\ mismatched = {}
    /\ attempts = {}

\* visit_expr(ex): visit_expr_inner, then the walk goes on to the next
\* expression in pre-order.
VisitExpr ==
    /\ pc <= N
    /\ LET ls == Matching(hir.span[pc]) IN
       \/ /\ ls = {}
          /\ UNCHANGED <<mir_map, conflicts, mismatched, attempts>>
       \/ /\ ls # {} /\ ~Matches(pc, ls)
          /\ mismatched' = mismatched \cup {pc}
          /\ UNCHANGED <<mir_map, conflicts, attempts>>
       \/ /\ ls # {} /\ Matches(pc, ls)
          /\ RecordAll(Entries(pc, ls))
          /\ UNCHANGED mismatched
    /\ pc' = pc + 1
    /\ UNCHANGED <<hir, mir>>

Next == VisitExpr

Spec == Init /\ [][Next]_vars

-----------------------------------------------------------------------------
(* Properties.                                                             *)

TypeOK ==
    /\ hir \in Hir
    /\ DOMAIN mir \subseteq Locs /\ \A l \in DOMAIN mir : mir[l] \in Instr
    /\ pc \in 1 .. N + 1
    /\ DOMAIN mir_map \subseteq Key /\ \A k \in DOMAIN mir_map : mir_map[k] \in Origin
    /\ conflicts \subseteq DOMAIN mir_map
    /\ mismatched \subseteq Exprs
    /\ attempts \subseteq [key : Key, origin : Origin, pos : Exprs]

\* The conflict policy of record_desc over the whole walk: each key keeps
\* the origin recorded by the expression visited first (the outermost,
\* in pre-order) of those that recorded it.
FirstVisitedWins ==
    \A k \in DOMAIN mir_map :
        \E a \in attempts :
            /\ a.key = k /\ a.origin = mir_map[k]
            /\ \A b \in attempts : b.key = k => a.pos <= b.pos

\* No conflict is silent: a key is logged as conflicting exactly when two
\* record calls gave it different origins.
ConflictLogged ==
    \A k \in DOMAIN mir_map :
        k \in conflicts <=>
            \E a, b \in attempts : a.key = k /\ b.key = k /\ a.origin # b.origin

\* Every recorded key names a part the instruction really has: [Dest] and
\* [Rvalue] of an assignment or call, [Rvalue, CallArg(i)] of a call with
\* more than i arguments.
KeyExists(k) ==
    \/ k.path = << >>
    \/ k.path \in {<<Dest>>, <<Rvalue>>} /\ mir[k.loc].kind \in {"Assign", "Call"}
    \/ /\ mir[k.loc].kind = "Call"
       /\ k.path \in {<<Rvalue, CallArg(i)>> : i \in 0 .. mir[k.loc].nargs - 1}

KeysExist == \A k \in DOMAIN mir_map : KeyExists(k)

\* The best case of the spec (section 8): when no two expressions share a
\* span, unlowering is injective and logs no conflict.
DistinctSpans == \A e, f \in Exprs : e # f => hir.span[e] # hir.span[f]

NoConflictWhenInjective == DistinctSpans => conflicts = {}

=============================================================================

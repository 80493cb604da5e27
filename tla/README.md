# Verification of the c2rust-analyze rewrite pipeline

TLA+ models of the rewrite pipeline of `c2rust-analyze`. The models are checked with TLC on small
instances and proved with TLAPS for every value of the constants.

## The system

The source tree studied here (`src/c2rust-analyze/src/`) has four files. Together they turn the
pointer analysis's results into source rewrites.

| part | source | what it does |
|---|---|---|
| MIR rewrite generator | `rewrite/expr/mir_op.rs` | `gen_mir_rewrites` visits every statement and terminator of a MIR body in block order. It reads the permissions and flags the analysis inferred for each `PointerId` and resolves them to a `TypeDesc` (ownership and quantity). It emits `MirRewrite`s (`CellSet`, `CellNew`, `CellGet`, `RawToRef`, `MutToImm`, `OffsetSlice`, `SliceFirst`, `RemoveAsPtr`) keyed by `Location`. Each carries the `SubLoc` path that the `enter_*` calls pushed. |
| HIR/MIR correspondence | `rewrite/expr/unlower.rs` | `UnlowerVisitor` maps each `(Location, SubLoc path)` to the HIR expression it came from (`mir_map`). The first origin recorded wins. |
| Rewrite tree | `rewrite/mod.rs` | The `Rewrite` enum and its precedence-aware `pretty` printer. `apply_rewrites` prints what `rewrite::apply` (not in the tree) returns. |
| Panic capture | `panic_detail.rs` | A thread-local panic detail filled by `panic_hook` and taken by `catch_unwind`. Also the current span, saved and restored by `CurrentSpanGuard`. |

These parts interact as follows:

- `mir_op` consumes the analysis results.
- Its output is joined with the `unlower` map on `(Location, SubLoc)`.
- The join produces `Rewrite` trees, which `rewrite::apply` (not in this tree) prints into the source.
- A panic in any of them is caught per function by `panic_detail::catch_unwind`. When that happens, the function's rewrites are lost.

Two pieces are referenced but not in the tree: `type_desc` and `rewrite::apply`/`hir_op`. They are
modelled, where needed, from `spec.md`, and are marked `spec_modelled` in `PROJECT.json`.

## Modules

- **`TypeDesc`** models `type_desc::perms_to_desc` and `local_perms_to_desc`, from spec section 4.1.
  - A `CELL` flag gives `Cell` ownership. Otherwise `WRITE`+`UNIQUE` gives `Mut`, and anything else gives `Imm`.
  - `OFFSET_SUB` gives `OffsetPtr`, `OFFSET_ADD` gives `Slice`, and anything else gives `Single`.
  - A non-pointer type gives `Raw`.
- **`MirOp`** models `gen_mir_rewrites` and `ExprRewriteVisitor`.
  - **State.** The state is:
    - the body, and the analysis results `perms`/`flags` (chosen in `Init` and then fixed);
    - the loop position `bb`/`idx`;
    - the output map `rewrites : Location -> Seq(MirRewrite)`;
    - the set `unsupported` of casts that `emit_cast_desc_desc` reported and dropped (its `eprintln!`);
    - `status`: running, done, or panicked by `todo!`/`unreachable!`.
  - **Actions.** One action is one whole `visit_statement` or `visit_terminator` call:
    - `VisitAssign`, `VisitIgnoredStatement` and `VisitTodoStatement` cover the statements;
    - `VisitPtrOffset`, `VisitSliceAsPtr`, `VisitOtherCall`, `VisitIgnoredTerminator` and `VisitInlineAsm` cover the terminators;
    - `Finish` ends the loop.
  - **Handler bodies.** These are operators that return the rewrites emitted, in order, plus the casts dropped:
    - `AssignRewrites` (the three Cell cases, then `visit_rvalue`, then `emit_cast_lty_lty`);
    - `PtrOffsetRewrites` and `SliceAsPtrRewrites`;
    - `VisitRvalue`, `VisitOperand` and `VisitOperandDesc`;
    - `EmitCastDescDesc` and `EmitCastLtyLty`.
  - **Abstraction.**
    - A type is `raw`, `ref` or `int`, with one `PointerId` label.
    - A place is a local, possibly dereferenced once.
    - The rvalues that never emit (`Repeat`, `BinaryOp`, `Aggregate`, ...) are one kind, `Other`.
    - Spans, pointee types and message text are left out.
- **`MC_MirOp`** is the instance. It has:
  - two raw pointer locals `p` and `q`, a reference `r` and an integer `x`;
  - every well-typed assignment over those places;
  - one ignored kind (`StorageLive`) and one `todo!` kind (`SetDiscriminant`);
  - the terminators `ptr.offset`, `as_ptr`, another call, `InlineAsm` and `Goto`;
  - six analysis results for each pointer used: `Imm`, `Mut`, `Mut` with `OFFSET_ADD`, `Imm` with `OFFSET_ADD`, `OFFSET_SUB`, and `Cell`.
- **`MirOp_proofs`** holds the TLAPS theorem on types.
- **`MirOpOutput_proofs`** extends it with the handler-output invariant and the theorems on what the map holds.
- **`MirPass`** is what `gen_mir_rewrites` promises, without the loop.
  - **State.** The body, `perms`, `flags`, `rewrites`, `unsupported` and `status` of `MirOp`, plus the set `filled` of instructions whose handler has run. It has no loop position.
  - **Actions.**
    - `Fill(l)` sets the list of one unfilled instruction `l` to exactly its handler's output, `Handler(l)`, and adds that handler's reports.
    - `Abort(l)` panics at an unfilled instruction whose handler is a `todo!()` (`SetDiscriminant`, `CopyNonOverlapping`, `InlineAsm`).
    - `Done` returns the map once every instruction is filled.
  - The order is free. The handler operators are read from `MirOp` through `INSTANCE MirOp WITH bb <- 0, idx <- 0`; none of them reads the position.
- **`MirOpPass`** maps `MirOp` onto `MirPass`.
  - `filled` is `Handled`: the visited Locations that name a statement or a terminator.
  - Every other variable maps to itself.
  - `Refines == Pass!Spec` is the refinement property. **`MC_MirOpPass`** checks it on the `MC_MirOp` instances.
- **`MirOpPass_proofs`** proves the safety part of that refinement.
- **`Unlower`** models `UnlowerVisitor` and `unlower`.
  - **State.** The HIR body `hir` (the expressions in pre-order, each with a kind, a span and its argument list), the lowered MIR `mir : Location -> Instr` (kind, span, whether the destination is a bare local, argument count of a call), the visit position `pc`, the output `mir_map : (Location, SubLoc path) -> MirOrigin`, and as history the keys logged by `error!` (`conflicts`), the expressions that hit a `warn` early return (`mismatched`) and every `record_desc` attempt (`attempts`).
  - **Action.** `VisitExpr` is one whole `visit_expr_inner` call: the span lookup minus `should_ignore_statement`, the empty-`locs` return, the `Assign`/`Call`/other arm with its `get_sole_assign`/`get_last_call`/`get_last_assign` and `is_var` test, and every `record`/`record_desc` of that arm in code order (`RecordAll`, first writer wins, a different later origin is logged). `walk_expr` is the pre-order `pc + 1`.
  - `Init` also covers the `#[automatically_derived]` early return (`pc = N + 1`: nothing is visited).
- **`Unlower_proofs`** holds its TLAPS theorems.
- **`MC_Unlower`**: three expressions (an `Assign`, a `Call` with one or two arguments, and others), three locations of one block with kinds `Assign`, `StorageLive`, `SetDiscriminant`, or a `Call` with one or two MIR arguments or a `Goto` terminator, and three spans. Expression 1 has span `s1`, the others any span, so spans coincide or not.
- **`UnlowerJoin`** composes `MirOp` with an instance of `Unlower` on one body: `Lower` reads every `Location` of the MIR body as `Unlower` sees it (`stmt_at` plus the span). The two passes interleave freely; they share only the body. **`MC_UnlowerJoin`** is `let y = p.offset(1);` as rustc lowers it: `StorageLive(y)`, `t = copy p`, `y = offset(move t, 1)`, with its HIR.
- **`Pretty`** models `Rewrite::pretty` and its `Display` impl.
  - A `Rewrite` is a record with its variant in `k`. `ExprTreesOfSize`/`TyTreesOfSize` enumerate the expression and the type builders by node count.
  - `Pretty(t, prec)` is the match of `pretty`, arm by arm, with `parenthesize_if` and the code's precedence numbers.
  - The output is a sequence of pieces. Each fixed text the code writes (`"&mut "`, `" as usize"`, `"core::ptr::addr_of!"`, ...) is one piece. A `PrintTy` string, a `TyCtor` name and the digits of a `Sub` index are written one character per piece, as `write!` copies them. So two outputs are equal exactly when the texts are, as far as the characters of names can make them collide.
  - The state machine is one `Display` call on one rewrite. The module is recursive and so TLC-only.
- **`MC_Pretty`**: the strings `A`, `B` and `AB`, `Sub` indices 1 and 10, and trees of up to four nodes (about 5,000 expression trees; every pairwise nesting of the unit test and a third level). Types up to three nodes suffice for the `TyCtor` run.
- **`PanicDetail`** models `panic_detail.rs` on one thread.
  - **State.** `CURRENT_PANIC_DETAIL` (`detail`), `CURRENT_SPAN` (`span`), the stack of `catch_unwind` frames and live `CurrentSpanGuard`s, the panic being unwound (payload, whether the hook ran, and as history the span at the raise), and as history what the last `catch_unwind` returned.
  - **Actions.** `EnterCatch`/`ReturnOk` (the closure starts and returns `Ok`), `SetCurrentSpan`/`DropGuard`, `PanicWithHook` (`panic_hook`: message from `panic_to_string`, current span, backtrace, `replace` of the cell), `ResumeUnwind` (a panic that skips the hook), `UnwindGuard` (a guard dropped by unwinding), `CatchPanic` (`take_current`, or `PanicDetail::new` of the payload's text).
  - Text, locations and backtraces are abstracted to the message and whether a backtrace was captured. A payload is a string or not.
- **`MC_PanicDetail`**: two spans, two string payloads and one boxed non-string payload, and a stack of at most 4 frames.
- **`PanicDetail_proofs`** holds its TLAPS theorems.

## Runs

| run | cfg | checks | shows |
|---|---|---|---|
| `mir_calls` | `MC_MirOp_call.cfg` | `TypeOK`, `OffsetCallShape` | A `ptr.offset` call gets `OffsetSlice` (plus `SliceFirst` for a single result) with the result's mutability, after its argument's casts, and its argument is cast only towards the widened descriptor. Every state is well typed, with the loop position inside the body. |
| `mir_refines_pass` | `MC_MirOpPass.cfg` | `Refines` | Every step of the block/statement loop is a `MirPass` step, fairness included. Each handler call fills one instruction not filled before with exactly its handler's output and reports, or panics in a `todo!()` handler. The map is returned only after every statement and terminator was visited, and the pass ends. |
| `mir_cell_pairs` | `MC_MirOp_cell.cfg` | `CellAccessConsistent` | Over two blocks of stores and loads through `*p`: a store is rewritten to `Cell::set` exactly when a load of the same pointer is rewritten to `Cell::get`. |
| `assign_cast_reported` | violation | `AssignCastReported` | See finding 1. |
| `subloc_exists` | violation | `SubLocExists` | See finding 2. |
| `cellnew_only_locals` | violation | `CellNewOnlyForLocals` | See finding 3. |
| `unlower_map` | `MC_Unlower.cfg` | `FirstVisitedWins`, `ConflictLogged`, `KeysExist`, `NoConflictWhenInjective` | Every key keeps the origin of the first expression (in visit order) that recorded it. A key is logged as conflicting exactly when two recorded origins for it differ. Every key names a sub-location its instruction has (the `zip` never outruns the MIR arguments). With distinct spans nothing conflicts. |
| `arg_rewrite_joins_arg` | violation | `ArgRewriteJoinsArg` | See finding 4. |
| `pretty_expr_unambiguous` | `MC_Pretty.cfg` | `ExprUnambiguous` | No two expression rewrites of up to four nodes print the same text. Every precedence guard parenthesizes where nesting would otherwise be ambiguous: for example `&$e[$e]` against `(&$e)[$e]`, or `&$e as usize` against `&($e as usize)`. |
| `pretty_tyctor_unambiguous` | violation | `TyUnambiguous` | See finding 5. |
| `panic_capture` | `MC_PanicDetail.cfg` | `CaughtDetailIsCurrent`, `SpanRestored` | `catch_unwind` returns the caught panic's own detail, with the span current at the raise, never one left by an earlier panic, also when the hook did not run. Whenever `catch_unwind` returns, `CURRENT_SPAN` is what it was at entry. |

**Bounds.**

- **One block and no statements** is enough for the call run. Each terminator's handler depends only on its own operands' descriptors, which take every combination.
- **One block of one statement** covers every assignment shape under every descriptor, for the three violation runs on assignments.
- **Two blocks of at most one statement each**, for the refinement run. The instance has:
  - one cast-carrying assignment, `StorageLive` and `SetDiscriminant` as statements;
  - `ptr.offset`, `as_ptr`, `InlineAsm` and `Goto` as terminators;
  - two analysis results (`Imm Single`; `Mut Slice`).

  So the loop crosses a block boundary, with and without statements, and reaches unsupported-cast reports, aborts by a statement and by a terminator, and normal ends. About 12 thousand states.
- **Two blocks of one statement each** put a store and a load at different Locations in different blocks. That exercises both the Cell decision across instructions and the Location keys of the loop.

- **Three expressions over three locations** give every arm of `visit_expr_inner` a match and a mismatch, a call with more HIR than MIR arguments and the reverse, and two or three expressions sharing a span (so conflicts in both orders). 855 thousand states.
- **A stack of four frames** holds two nested `catch_unwind`s with guards inside and between them, so a panic unwinds through guards into an inner catch, and a later panic reaches an outer one.

Deadlock checking is off for the passes: a terminated pass (`done` or `panicked`) is a final state.

**Fairness.** `WF_vars(Next)` is assumed for `MirOp`. The pass is one sequential loop with no waiting, so it takes its next step whenever one is enabled. `PanicDetail` assumes weak fairness only of the unwinding steps: unwinding waits on nothing, while whether the program enters, returns or panics again is its own choice. `PanicDetail` checks deadlock: with a panic in flight there is always a catch to reach.

Every property of a passing run has a mutant in `PROJECT.json`: a plausible bug in the mapped code that TLC finds. The mutants are:

- a missing index reset between blocks;
- widening that forgets `Single`;
- the `CellSet` test reading the facts of `&x` instead of `x`'s label;
- `record_desc` overwriting (`insert`) instead of keeping the first; the conflict test comparing descriptors only; arguments recorded without the `zip`; arguments recorded at `[Rvalue]`;
- the `Ref` arm parenthesizing only above precedence 3;
- `catch_unwind` reading the detail without taking it; a guard saving the new span instead of the old.

The type invariants of `PanicDetail` and `Unlower` are not run properties. No plausible bug in that code breaks them, because Rust's types already guarantee them. They stay as lemmas of the proofs.

## Findings

1. **The "neither side is raw" hack in `emit_cast_lty_lty` (mir_op.rs:498-503) drops descriptor mismatches between safe types silently.** For example, with `r = &x`, `r` resolves to `Single` while the rvalue's pointer resolves to `Slice`. The assignment gets no cast and no "unsupported cast" report. The spec (section 4.2) says such a mismatch is cast or diagnosed.
2. **`RawToRef` for `&raw place` is emitted under `RvalueOperand(0)` (mir_op.rs:314).** `Rvalue::AddressOf` has no operand. Its place is visited as `RvaluePlace(0)` (line 307), so the rewrite names a sub-location the instruction does not have.
3. **The `CellNew` case (mir_op.rs:176-187) does not check that the destination is a bare local.** So a store through a pointer gets `CellNew` on its right-hand side. TLC's trace is `*p = *p`, with the address of `p` `CELL` and `p`'s own label not `CELL`: the stored value is wrapped in `Cell::new` as if `p` were the `Cell` local. (`CellSet` is decided separately, by `p`'s own label at lines 162-168, and is not emitted in this trace.) The code's comment (line 183) and the spec restrict `CellNew` to `let x = 2` on a local.

4. **unlower and mir_op disagree on the key of a call argument (unlower.rs:250 against mir_op.rs:417).** unlower records argument `i` at `[Rvalue, CallArg(i)]`, using a `SubLoc::Rvalue` that mir_op's `SubLoc` does not have (it has `AssignRvalue`). mir_op emits the cast of `ptr.offset`'s argument at `[CallArg(0)]`. The spec (section 2) makes the `SubLoc` path the join key. So in `let y = p.offset(1)`, with `t` a mutable slice and `y` immutable, the `MutToImm` on `p` finds only the whole call's origin.

5. **`TyCtor` prints its arguments with no separator (mod.rs:183).** `TyCtor("A", [PrintTy("A"), PrintTy("B")])` and `TyCtor("A", [PrintTy("AB")])` both print `A<AB>`. With real types this is `Foo<i32u8>` for `Foo<i32, u8>`. The doc comment (line 72) says `Foo<T1, T2>`, and spec section 4.4 says the printed text re-parses to the intended type.

## Proofs

`MirOp_proofs` proves, for every value of the constants that `MirOpAssumptions` allows:

- **`TypeCorrect`: `Spec => []TypeOK`.**
  - Lemmas show that each handler operator returns a well-formed output. The chain runs from `Emit`, `Then` and `EmitCastDescDesc`, through `VisitRvalue`, up to `AssignRewrites` and `PtrOffsetRewrites`.
  - This rests on `DescType`: `perms_to_desc` is total and returns a `TypeDesc` whatever bits it reads.
  - `TypeOK` is inductive as stated, because it already includes the bound `Len(stmts) <= MaxStmts` on every block. That bound is what keeps the terminator's Location (`statement_index = Len(stmts)`) inside `Location`.
  - The step proof has one case per action.
- The lemmas `StmtLocFresh` and `TermLocFresh`: the Location a step records at is not yet visited. A statement's index is `idx`, a terminator's `Len(stmts) = idx`. The output and refinement proofs below rest on them.

`PanicDetail_proofs` proves, under `PanicDetailAssumptions`:

- **`CaughtDetailHolds`: `Spec => []CaughtDetailIsCurrent`.** The invariant alone is not inductive: a step that catches reads `detail`, which the invariant does not constrain. The strengthening `IInv` adds:
  - `SlotInv`: while a panic whose hook ran is unwinding, `detail` is exactly that panic's hook detail; otherwise `detail` is empty. So `take_current` at the catch returns the right detail, and `resume_unwind` finds nothing stale.
  - `CatchSpanInv`: every catch frame's saved span is restored by the guards above it (the span just above a frame is the saved span of the next guard, or the current span).
  - `TypeOK`.
  The step proof has one case per action, and the guard pops (`DropGuard`, `UnwindGuard`) share one lemma.
- **`SpanRestoredHolds`: `Spec => SpanRestored`.** A step that pops a catch frame is `ReturnOk` or `CatchPanic`. Under `CatchSpanInv` with the catch on top, the current span is its saved one, and neither step changes the span.

`Unlower_proofs` proves, under `UnlowerAssumptions` and `ShapeAssumptions` (the bodies are well formed and a body has finitely many locations):

- **`FirstVisitedWinsInvariant`, `ConflictLoggedInvariant` and `NoConflictWhenInjectiveInvariant`: `Spec => []P` for each.** None of the three is inductive alone. For example, `NoConflictWhenInjective` says nothing about where the keys already in `mir_map` sit, and `ConflictLogged` says nothing about when an attempt was made. The strengthening `IInv` adds:
  - `TypeI`: the types of `hir`, `mir` and `pc`, and `conflicts` within `DOMAIN mir_map`;
  - `AttemptsI`: every attempt comes from a visit already made (`pos < pc`), its key is in `mir_map`, and the key's location carries the span of the expression visited.
  The argument rests on three lemmas.
  - `LastLocIn`: `locs.last()` exists. The reversed indices of a non-empty set of locations have a least element in the well-founded lexicographic order on `Nat \X Nat`. This is where `ShapeAssumptions` bounds the indices.
  - `EntriesDistinct`: the `record_desc` calls of one visit name pairwise different keys, all at that location. With distinct keys, `FirstForDistinct` makes the kept origin of a new key the one its single call gave.
  - `RecordStep`: `RecordAll` keeps `FirstVisitedWins` and `ConflictLogged`. An old key keeps its origin, since new attempts carry `pos = pc`. A new key is never logged.
  Under `DistinctSpans`, a key from an earlier visit sits at a location whose span is that visit's expression's span. So none of the new keys is in `mir_map`, and `conflicts` stays empty.

`MirOpOutput_proofs` proves what the output map holds, under `MirOpAssumptions`.

- **`OutputIsHandlerOutput`: `Spec => [](TypeOK /\ OutputInv)`.** `OutputInv` is the inductive invariant behind the properties of the map.
  - `OutAt(l)` is the handler that `gen_mir_rewrites` runs for the instruction at `l`:
    - `AssignRewrites` for an assignment;
    - `PtrOffsetRewrites` or `SliceAsPtrRewrites` for those calls;
    - nothing for any other instruction.
  - `OutputInv` states that `rewrites[l]` is `OutAt(l).rw` at every visited location and empty at all others.
  - It also states that `unsupported` is the union of the reports of `OutAt(l).drop` over the visited locations.
  - Finally, it states that `idx` stays within the current block.
  - The step proof has one case per action:
    - a recording step visits exactly one new location, the one it records at (lemmas `StmtStepVisited`, `TermStepVisited`, `RecordKeeps`);
    - a silent step visits only locations whose handler emits nothing (`SilentKeeps`, `NoInstrNoOut`).
  - `OutAtUnchanged` shows that no step changes which handler belongs to a location, because the body and the analysis results are fixed.
  - Each property of the map below is then a property of the handler operators alone, proved with no induction.
- **`CellAccessConsistentHolds`: `Spec => []CellAccessConsistent`.**
  - `AssignCellRewrites` shows that an assignment's list has a `CellSet` at `[AssignRvalue]` exactly under the `CellSetRw` test, and a `CellGet` at `[AssignRvalue, RvalueOperand(0)]` exactly under the `CellGetRw` test.
  - The argument splits the list into its five parts with `HasInConcat`, over `ConcatProperties`.
  - The kind lemmas `CastKinds` and `VisitRvalueKinds` show that no other part emits those kinds.
  - `CellOwnIsCellFlag` closes the argument: for a pointer, the resolver's `Cell` ownership is exactly the `CELL` flag that the load test reads.
- **`OffsetCallOutputHolds`: `Spec => []OffsetCallOutput`.**
  - The list of a visited `ptr.offset` call is the argument's casts from `visit_operand_desc`, followed by `OffsetSlice` and, for a `Single` result, `SliceFirst` (`PtrOffsetOut`, with `ThenAssociative` over `ConcatAssociative`).
  - Every argument cast sits under `[CallArg(0)]`, and every reported cast there targets the slice-widened result (`OperandDescAtPath`).
- **`OffsetCallShapeHolds`: `Spec => []OffsetCallShape`.**
  - `OffsetCallShape` states the shape as a suffix, not with `SelectSeq`:
    - the last `Len(top)` entries of the list are the top-level pair;
    - every earlier entry sits at a sub-location.
    This implies the `SelectSeq` projection onto the empty path, and `SelectSeq` is opaque to tlapm.
  - `SuffixOfConcat` (`ConcatProperties`, `SubSeqProperties`, `SeqEqual`) splits `OffsetCallOutput`'s list `a \o top`.
  - `OperandDescAtPath` puts every entry of `a` at `[CallArg(0)]`.

`MirOpPass_proofs` proves that the loop implements its promise, under `MirOpAssumptions`:

- **`Implementation`: `Spec => Pass!SafeSpec`.** `SafeSpec` is `MirPass`'s `Init /\ [][Next]_avars`. The argument follows the refinement mapping step by step.
  - **Operator lemmas.** `SameDescriptors` and `SameHandlers` show that the handler operators `MirPass` reads through `INSTANCE` equal `MirOp`'s own, layer by layer from `PermsToDesc` up to `AssignRewrites`. None of them reads `bb` or `idx`. `TypeDesc`'s parameters are named like the variables `perms` and `flags`, so the resolvers are expanded separately. `HandlerIsOutAt` then identifies `Pass!Handler(l)` with `OutAt(l)`.
  - **Initial states.** `InitRefines`: nothing is visited, so `Handled = {}`.
  - **Steps.** `StepRefines` has one case per action, on the invariant `TypeOK /\ OutputInv` of `OutputIsHandlerOutput`.
    - `FillStep` turns a step that newly visits one instruction `loc` (plus Locations past a terminator that name no instruction) into `Fill(loc)`. The step must keep `OutputInv`.
    - `OutputInv` is why the invariant is needed. The concrete `Record` appends to `rewrites[loc]`, while `Fill` sets it. The two agree because `rewrites[loc]` is still empty.
    - The Locations skipped at a block's end add neither rewrites nor reports (`NoInstrNoOut`).
    - `StmtFill` and `TermFill` apply `FillStep` to the statement and terminator steps. The `ptr.offset` case uses `QtyNeverArray`: the `unreachable!()` branch is never taken, so that step is always a `Fill`.
    - `AbortStep` covers the `todo!()` steps.
    - `Finish` is `Done`, because at `bb = NumBlocks` every Location is visited.
  - The QED combines these with `OutputIsHandlerOutput` by `PTL`.

`PanicDetail_proofs` also proves the lemma **`TypeCorrect`: `Spec => []TypeOK`**, which follows at once because `TypeOK` is a conjunct of `IInv`.

`Unlower_proofs` also proves the lemma **`TypeCorrect`: `Spec => []TypeOK`** and **`KeysExistInvariant`: `Spec => []KeysExist`**. Both come from a second invariant, `MapInv`, proved with `IInv` as a hypothesis of its step.

- `MapInv` states:
  - that `hir` is one of `HirShapes`;
  - that `mir_map` maps `Key`s to `Origin`s;
  - that mismatches and attempts are well formed;
  - `KeysExist`.
- `EntriesWellFormed` shows that every `record_desc` call of a visit that passes its kind's test names an existing key:
  - `get_sole_assign` and `get_last_assign` find an assignment;
  - `get_last_call` finds a call, and the zip bounds each `CallArg(i)` by the MIR operand count.
- The same lemma shows that each call's origin names an expression. For `Assign`, this uses the conjunct of `ShapeAssumptions` stating that `hir::ExprKind::Assign(pl, rv, _)` has exactly two operands.
- `FirstForDistinct` gives each new key the origin of its single call.

These stay with TLC only:

- The fairness part of `Refines` (`WF_avars(Next)` of `MirPass`: every pass ends, done or aborted), a liveness property checked by `mir_refines_pass`. Liveness and `ENABLED` are beyond TLAPS.
- `ExprUnambiguous` of `Pretty`. `Pretty` is built from `RECURSIVE` operators, which take away tlapm's SMT backend. Its claim is also about every tree, which would need induction over data, and the installed provers cannot instantiate the library's induction theorems.

## Not modelled yet, and plan

- `build_span_index`/`lookup_exact` is not in the tree. The model takes the locations whose instruction span equals the expression's span.
- Which MIR location really produces an expression's value (unlower.rs:262) is rustc's lowering, outside this code.

- `Pretty` checks that the printed text determines the rewrite (no two trees print alike). It has no parser, so it does not check that the text re-parses to that very tree, or that the parentheses are minimal.

1. Span guards dropped out of LIFO order: no code in the tree moves a `CurrentSpanGuard`.
2. **`rewrite::apply`** from the spec.

The driver, logging and the backtrace-symbol heuristics (`guess_relevant_loc`) are pure I/O or string work and are left out.

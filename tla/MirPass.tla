------------------------------ MODULE MirPass ------------------------------
(***************************************************************************)
(* What gen_mir_rewrites (rewrite/expr/mir_op.rs) promises, without the    *)
(* loop that delivers it: the output map of one MIR body is filled one     *)
(* instruction (statement or terminator Location) at a time, each with     *)
(* exactly the rewrites its visit_statement or visit_terminator handler    *)
(* emits and each at most once, in no particular order; the casts a        *)
(* handler gives up on are reported with its Location; the pass aborts     *)
(* only at an instruction whose handler is a todo!(), and it returns the   *)
(* map once every instruction has been handled.                            *)
(*                                                                         *)
(* MirOp is the detailed loop; MirOpPass maps it onto this specification.  *)
(***************************************************************************)
EXTENDS Naturals, Sequences

CONSTANTS Locals, PtrIds, NoLabel, LocalTy, AddrOfLocal, NumBlocks, MaxStmts,
          StmtShapes, TermShapes, FactChoices

VARIABLES
    body,         \* the MIR body, as in MirOp
    perms,        \* asn.perms()
    flags,        \* asn.flags()
    rewrites,     \* the output HashMap
    unsupported,  \* casts reported as unsupported, with their Location
    status,       \* "running", "done" or "panicked"
    filled        \* the instructions whose handler has run

avars == <<body, perms, flags, rewrites, unsupported, status, filled>>

\* The handlers, the types and the Locations of MirOp, read at no position
\* of the loop (none of them depends on it).
M == INSTANCE MirOp WITH bb <- 0, idx <- 0

\* The Locations that name a statement or the terminator of a block.
Instr == {l \in M!Location : M!IsStmtLoc(l) \/ M!IsTermLoc(l)}

\* What visit_statement or visit_terminator emits at instruction l.
Handler(l) ==
    IF M!IsStmtLoc(l)
    THEN IF M!StmtAt(l).kind = "Assign" THEN M!AssignRewrites(M!StmtAt(l)) ELSE M!NoRewrite
    ELSE IF M!TermAt(l).kind = "Call" /\ M!TermAt(l).callee = "PtrOffset"
         THEN M!PtrOffsetRewrites(M!TermAt(l))
    ELSE IF M!TermAt(l).kind = "Call" /\ M!TermAt(l).callee = "SliceAsPtr"
         THEN M!SliceAsPtrRewrites(M!TermAt(l))
    ELSE M!NoRewrite

\* The "unsupported cast kind" reports of the handler at l.
HandlerReports(l) ==
    {[loc |-> l, sub_loc |-> d.sub_loc, from |-> d.from, to |-> d.to] :
        d \in Handler(l).drop}

\* The handlers that are todo!(): SetDiscriminant, CopyNonOverlapping and
\* InlineAsm.
Aborts(l) ==
    \/ M!IsStmtLoc(l) /\ M!StmtAt(l).kind \in M!TodoStmtKinds
    \/ M!IsTermLoc(l) /\ M!TermAt(l).kind = "InlineAsm"

Init == M!Init /\ filled = {}

\* The handler of an instruction not yet handled runs to its end.
Fill(l) ==
    /\ status = "running"
    /\ l \in Instr \ filled
    /\ ~Aborts(l)
    /\ rewrites' = [rewrites EXCEPT ![l] = Handler(l).rw]
    /\ unsupported' = unsupported \cup HandlerReports(l)
    /\ filled' = filled \cup {l}
    /\ UNCHANGED <<body, perms, flags, status>>

\* The handler of an instruction not yet handled panics.
Abort(l) ==
    /\ status = "running"
    /\ l \in Instr \ filled
    /\ Aborts(l)
    /\ status' = "panicked"
    /\ UNCHANGED <<body, perms, flags, rewrites, unsupported, filled>>

\* Every instruction is handled: the map is returned.
Done ==
    /\ status = "running"
    /\ filled = Instr
    /\ status' = "done"
    /\ UNCHANGED <<body, perms, flags, rewrites, unsupported, filled>>

Next == (\E l \in Instr : Fill(l) \/ Abort(l)) \/ Done

\* The safety part: what every step of the pass may do.
SafeSpec == Init /\ [][Next]_avars

\* The pass is one sequential loop and is never starved.
Spec == SafeSpec /\ WF_avars(Next)

=============================================================================

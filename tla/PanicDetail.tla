---------------------------- MODULE PanicDetail ----------------------------
(***************************************************************************)
(* The panic side channel of panic_detail.rs, on one thread.  The thread's *)
(* dynamic stack holds the frames that matter here: the closures run by    *)
(* panic_detail::catch_unwind and the live CurrentSpanGuards returned by   *)
(* set_current_span.  Two thread-local cells are shared by all of them:   *)
(* CURRENT_PANIC_DETAIL, filled by panic_hook and emptied by take_current, *)
(* and CURRENT_SPAN, replaced by set_current_span and restored by a        *)
(* guard's drop.                                                           *)
(*                                                                         *)
(* A panic either runs the installed hook (panic!, assert!, todo!, ...)   *)
(* or does not (std::panic::resume_unwind, which rustc's                  *)
(* FatalError::raise uses).  Unwinding then drops the guards above the    *)
(* innermost catch_unwind, one step each, and the catch turns the payload *)
(* into a PanicDetail.  Message text, locations and backtraces are        *)
(* abstracted to the message and whether a backtrace was captured.         *)
(***************************************************************************)
EXTENDS Naturals, Sequences

CONSTANTS
    Spans,      \* source spans the analysis may set as current
    DummySp,    \* DUMMY_SP
    Payloads,   \* panic payloads
    StrPayloads,\* the payloads that are a &str or a String
    UnknownErr, \* the text "unknown error: <type id>"
    MaxDepth    \* bound on the frames of the stack

ASSUME PanicDetailAssumptions ==
    /\ DummySp \notin Spans
    /\ StrPayloads \subseteq Payloads
    /\ UnknownErr \notin StrPayloads
    /\ MaxDepth \in Nat

\* panic_to_string: the text of a string payload, a fixed text otherwise.
PanicToString(p) == IF p \in StrPayloads THEN p ELSE UnknownErr

Msgs == StrPayloads \cup {UnknownErr}

AllSpans == Spans \cup {DummySp}

\* PanicDetail, with the backtrace reduced to its presence.
Details == [msg : Msgs, span : AllSpans, bt : BOOLEAN]

NoDetail == [none |-> TRUE]

\* A frame of the stack: a catch_unwind closure, saving nothing, or a live
\* guard holding `old`.  A catch frame also keeps, as history, the span
\* current when it was entered.
Frames == [kind : {"catch", "guard"}, saved : AllSpans]

\* A panic in flight: its payload, whether panic_hook ran for it,
\* and (history) the span that was current when it was raised.
Unwinds == [payload : Payloads, hook : BOOLEAN, span : AllSpans]

NoUnwind == [none |-> TRUE]

\* What the last catch_unwind to return gave back (history).
Results == [err : BOOLEAN, detail : Details \cup {NoDetail},
            cause : Unwinds \cup {NoUnwind}]

VARIABLES
    detail,     \* CURRENT_PANIC_DETAIL
    span,       \* CURRENT_SPAN
    stack,      \* catch_unwind frames and live guards, innermost last
    unwinding,  \* the panic being unwound, or NoUnwind
    last        \* the result of the last catch_unwind that returned

vars == <<detail, span, stack, unwinding, last>>

Top == stack[Len(stack)]

Pop == [i \in 1 .. Len(stack) - 1 |-> stack[i]]

HasCatch == \E i \in 1 .. Len(stack) : stack[i].kind = "catch"

Running == unwinding = NoUnwind

Init ==
    /\ detail = NoDetail
    /\ span = DummySp
    /\ stack = << >>
    /\ unwinding = NoUnwind
    /\ last = [err |-> FALSE, detail |-> NoDetail, cause |-> NoUnwind]

\* catch_unwind(f) starts running f.
EnterCatch ==
    /\ Running
    /\ Len(stack) < MaxDepth
    /\ stack' = Append(stack, [kind |-> "catch", saved |-> span])
    /\ UNCHANGED <<detail, span, unwinding, last>>

\* f returns normally: catch_unwind returns Ok.
ReturnOk ==
    /\ Running
    /\ stack # << >> /\ Top.kind = "catch"
    /\ stack' = Pop
    /\ last' = [err |-> FALSE, detail |-> NoDetail, cause |-> NoUnwind]
    /\ UNCHANGED <<detail, span, unwinding>>

\* Mutant: the guard keeps the new span (cell.set(span); old = cell.get()).
SetCurrentSpanSaveNew(s) ==
    /\ Running
    /\ Len(stack) < MaxDepth
    /\ stack' = Append(stack, [kind |-> "guard", saved |-> s])
    /\ span' = s
    /\ UNCHANGED <<detail, unwinding, last>>

\* set_current_span(s): CURRENT_SPAN.replace(s) into a new guard.
SetCurrentSpan(s) ==
    /\ Running
    /\ Len(stack) < MaxDepth
    /\ stack' = Append(stack, [kind |-> "guard", saved |-> span])
    /\ span' = s
    /\ UNCHANGED <<detail, unwinding, last>>

\* The guard goes out of scope: Drop for CurrentSpanGuard sets the old span.
DropGuard ==
    /\ Running
    /\ stack # << >> /\ Top.kind = "guard"
    /\ span' = Top.saved
    /\ stack' = Pop
    /\ UNCHANGED <<detail, unwinding, last>>

\* A panic with the hook installed: panic_hook builds the detail from the
\* payload, a fresh backtrace and CURRENT_SPAN, and replaces the cell's
\* content (an old detail is only logged as discarded).
PanicWithHook(m) ==
    /\ Running
    /\ HasCatch
    /\ detail' = [msg |-> PanicToString(m), span |-> span, bt |-> TRUE]
    /\ unwinding' = [payload |-> m, hook |-> TRUE, span |-> span]
    /\ UNCHANGED <<span, stack, last>>

\* std::panic::resume_unwind: unwinding starts without running the hook.
ResumeUnwind(m) ==
    /\ Running
    /\ HasCatch
    /\ unwinding' = [payload |-> m, hook |-> FALSE, span |-> span]
    /\ UNCHANGED <<detail, span, stack, last>>

\* Unwinding drops a guard of an unwound frame.
UnwindGuard ==
    /\ ~Running
    /\ Top.kind = "guard"
    /\ span' = Top.saved
    /\ stack' = Pop
    /\ UNCHANGED <<detail, unwinding, last>>

\* take_current: Cell::take, leaving None behind.
TakeCurrent == detail

\* PanicDetail::new(msg): a message and nothing else.
NewDetail(m) == [msg |-> m, span |-> DummySp, bt |-> FALSE]

\* Mutant: the detail is read with Cell::get-and-clone, not taken.
CatchPanicNoClear ==
    /\ ~Running
    /\ Top.kind = "catch"
    /\ LET got == IF TakeCurrent # NoDetail THEN TakeCurrent
                  ELSE NewDetail(PanicToString(unwinding.payload))
       IN  last' = [err |-> TRUE, detail |-> got, cause |-> unwinding]
    /\ stack' = Pop
    /\ unwinding' = NoUnwind
    /\ UNCHANGED <<span, detail>>

\* The unwinding reaches catch_unwind: the detail left by the hook, or a
\* bare one built from the payload when there is none.
CatchPanic ==
    /\ ~Running
    /\ Top.kind = "catch"
    /\ LET got == IF TakeCurrent # NoDetail THEN TakeCurrent
                  ELSE NewDetail(PanicToString(unwinding.payload))
       IN  last' = [err |-> TRUE, detail |-> got, cause |-> unwinding]
    /\ detail' = NoDetail
    /\ stack' = Pop
    /\ unwinding' = NoUnwind
    /\ UNCHANGED span

Next ==
    \/ EnterCatch
    \/ ReturnOk
    \/ \E s \in Spans : SetCurrentSpan(s)
    \/ DropGuard
    \/ \E m \in Payloads : PanicWithHook(m)
    \/ \E m \in Payloads : ResumeUnwind(m)
    \/ UnwindGuard
    \/ CatchPanic

\* Unwinding runs to the catch without waiting on anything.
Spec == Init /\ [][Next]_vars /\ WF_vars(UnwindGuard \/ CatchPanic)

-----------------------------------------------------------------------------
(* Properties.                                                             *)

TypeOK ==
    /\ detail \in Details \cup {NoDetail}
    /\ span \in AllSpans
    /\ stack \in Seq(Frames) /\ Len(stack) <= MaxDepth
    /\ unwinding \in Unwinds \cup {NoUnwind}
    /\ last \in Results

\* What catch_unwind returns for a panic is that panic's own detail: with
\* the hook, its message, a backtrace and the span that was current when
\* it was raised (not the one the unwinding guards restored); without,
\* its payload message alone.  A detail left over from an earlier panic
\* is never returned for a later one.
CaughtDetailIsCurrent ==
    last.err =>
        last.detail = IF last.cause.hook
                      THEN [msg |-> PanicToString(last.cause.payload),
                            span |-> last.cause.span, bt |-> TRUE]
                      ELSE NewDetail(PanicToString(last.cause.payload))

\* Whenever catch_unwind returns, Ok or Err, CURRENT_SPAN is again what it
\* was when the closure started: every guard set inside it has been
\* dropped, on the normal path or by unwinding.
SpanRestored ==
    [][Len(stack') < Len(stack) /\ Top.kind = "catch" => span' = Top.saved]_vars

=============================================================================

------------------------ MODULE PanicDetail_proofs -------------------------
(***************************************************************************)
(* Proofs about the panic side channel of panic_detail.rs.                 *)
(***************************************************************************)
EXTENDS PanicDetail, SequenceTheorems, TLAPS

USE PanicDetailAssumptions

\* What the hook stored for the panic in flight.
HookDetail(u) == [msg |-> PanicToString(u.payload), span |-> u.span, bt |-> TRUE]

\* The span that is current just above frame i: the next frame's saved
\* span, or CURRENT_SPAN for the innermost frame.
SpanAbove(i) == IF i < Len(stack) THEN stack[i + 1].saved ELSE span

\* CURRENT_PANIC_DETAIL is empty while no panic is in flight; while one is,
\* it holds exactly what the hook stored for it (nothing when the hook did
\* not run), and a catch_unwind frame waits for it.
SlotInv ==
    /\ Running => detail = NoDetail
    /\ ~Running =>
         /\ HasCatch
         /\ detail = IF unwinding.hook THEN HookDetail(unwinding) ELSE NoDetail

\* Every catch_unwind frame sees, just above it, the span it was entered
\* with: guards pushed above it have either all been dropped or the first
\* of them saved that span.
CatchSpanInv ==
    \A i \in 1 .. Len(stack) : stack[i].kind = "catch" => SpanAbove(i) = stack[i].saved

IInv == TypeOK /\ SlotInv /\ CatchSpanInv /\ CaughtDetailIsCurrent

-----------------------------------------------------------------------------

LEMMA PanicToStringType == \A p \in Payloads : PanicToString(p) \in Msgs
BY DEF PanicToString, Msgs

LEMMA InitIInv == Init => IInv
BY DEF Init, IInv, TypeOK, SlotInv, CatchSpanInv, CaughtDetailIsCurrent,
       Results, Running, AllSpans

\* Removing the innermost frame keeps the type and the frames below it.
LEMMA PopFacts ==
    ASSUME TypeOK, stack # << >>
    PROVE  /\ Pop \in Seq(Frames)
           /\ Len(Pop) = Len(stack) - 1
           /\ \A i \in 1 .. Len(stack) - 1 : Pop[i] = stack[i]
<1>1. Len(stack) \in Nat /\ Len(stack) >= 1
  BY DEF TypeOK
<1>2. \A i \in 1 .. Len(stack) - 1 : stack[i] \in Frames
  BY DEF TypeOK
<1>. QED
  BY <1>1, <1>2 DEF Pop

\* Pushing a frame keeps the type and the frames below it.
LEMMA PushFacts ==
    ASSUME TypeOK, NEW f \in Frames
    PROVE  /\ Append(stack, f) \in Seq(Frames)
           /\ Len(Append(stack, f)) = Len(stack) + 1
           /\ \A i \in 1 .. Len(stack) : Append(stack, f)[i] = stack[i]
           /\ Append(stack, f)[Len(stack) + 1] = f
BY AppendProperties DEF TypeOK

\* Popping a frame while CURRENT_SPAN becomes the span the popped frame
\* saved keeps every remaining catch frame's span.
LEMMA PopSpanInv ==
    ASSUME TypeOK, CatchSpanInv, stack # << >>, stack' = Pop, span' = Top.saved
    PROVE  CatchSpanInv'
<1> SUFFICES ASSUME NEW i \in 1 .. Len(stack'), stack'[i].kind = "catch"
             PROVE  SpanAbove(i)' = stack'[i].saved
  BY DEF CatchSpanInv
<1>1. i \in 1 .. Len(stack) - 1 /\ stack'[i] = stack[i] /\ stack[i].kind = "catch"
  BY PopFacts
<1>2. SpanAbove(i) = stack[i].saved
  BY <1>1 DEF CatchSpanInv
<1>3. CASE i < Len(stack) - 1
  BY <1>1, <1>2, <1>3, PopFacts DEF SpanAbove
<1>4. CASE i = Len(stack) - 1
  BY <1>1, <1>2, <1>4, PopFacts DEF SpanAbove, Top
<1>. QED
  BY <1>1, <1>3, <1>4

\* Pushing a frame that saves the current span keeps every catch frame's
\* span, whatever span becomes current.
LEMMA PushSpanInv ==
    ASSUME TypeOK, CatchSpanInv, NEW f \in Frames, f.saved = span,
           stack' = Append(stack, f), f.kind = "guard" \/ span' = span
    PROVE  CatchSpanInv'
<1> SUFFICES ASSUME NEW i \in 1 .. Len(stack'), stack'[i].kind = "catch"
             PROVE  SpanAbove(i)' = stack'[i].saved
  BY DEF CatchSpanInv
<1>1. CASE i \in 1 .. Len(stack)
  <2>1. stack'[i] = stack[i] /\ SpanAbove(i) = stack[i].saved
    BY <1>1, PushFacts DEF CatchSpanInv
  <2>. QED
    BY <1>1, <2>1, PushFacts DEF SpanAbove
<1>2. CASE i = Len(stack) + 1
  BY <1>2, PushFacts DEF SpanAbove
<1>. QED
  BY <1>1, <1>2, PushFacts DEF TypeOK

\* Dropping a guard keeps the catch frames below it.
LEMMA PopKeepsCatch ==
    ASSUME TypeOK, stack # << >>, Top.kind = "guard", HasCatch, stack' = Pop
    PROVE  HasCatch'
<1>1. PICK i \in 1 .. Len(stack) : stack[i].kind = "catch"
  BY DEF HasCatch
<1>2. i \in 1 .. Len(stack) - 1
  BY <1>1 DEF Top, TypeOK
<1>3. Len(Pop) = Len(stack) - 1 /\ Pop[i] = stack[i]
  BY <1>2, PopFacts
<1>. QED
  BY <1>1, <1>2, <1>3 DEF HasCatch

LEMMA NextIInv == IInv /\ [Next]_vars => IInv'
<1> SUFFICES ASSUME IInv, [Next]_vars PROVE IInv'
  OBVIOUS
<1>. USE DEF IInv
<1>1. CASE EnterCatch
  <2>1. [kind |-> "catch", saved |-> span] \in Frames
    BY DEF TypeOK, Frames
  <2>2. TypeOK'
    BY <1>1, <2>1, PushFacts DEF EnterCatch, TypeOK
  <2>3. CatchSpanInv'
    BY <1>1, <2>1, PushSpanInv DEF EnterCatch
  <2>. QED
    BY <1>1, <2>2, <2>3 DEF EnterCatch, SlotInv, CaughtDetailIsCurrent, Running
<1>2. ASSUME NEW s \in Spans, SetCurrentSpan(s) PROVE IInv'
  <2>1. [kind |-> "guard", saved |-> span] \in Frames
    BY DEF TypeOK, Frames
  <2>2. TypeOK'
    BY <1>2, <2>1, PushFacts DEF SetCurrentSpan, TypeOK, AllSpans
  <2>3. CatchSpanInv'
    BY <1>2, <2>1, PushSpanInv DEF SetCurrentSpan
  <2>. QED
    BY <1>2, <2>2, <2>3 DEF SetCurrentSpan, SlotInv, CaughtDetailIsCurrent, Running
<1>3. ASSUME stack # << >>, Top.kind = "guard", stack' = Pop, span' = Top.saved,
             UNCHANGED <<detail, unwinding, last>>
      PROVE  IInv'
  <2>1. TypeOK'
    <3>1. Top \in Frames
      BY <1>3 DEF TypeOK, Top
    <3>2. Pop \in Seq(Frames) /\ Len(Pop) <= MaxDepth
      BY <1>3, PopFacts DEF TypeOK
    <3>. QED
      BY <1>3, <3>1, <3>2 DEF TypeOK, Frames
  <2>2. CatchSpanInv'
    BY <1>3, PopSpanInv
  <2>3. HasCatch => HasCatch'
    BY <1>3, PopKeepsCatch
  <2>. QED
    BY <1>3, <2>1, <2>2, <2>3 DEF SlotInv, CaughtDetailIsCurrent, Running
<1>4. CASE DropGuard
  BY <1>4, <1>3 DEF DropGuard
<1>5. CASE UnwindGuard
  <2>1. stack # << >>
    BY <1>5 DEF UnwindGuard, SlotInv, HasCatch
  <2>2. SlotInv'
    <3>1. HasCatch'
      <4>1. HasCatch /\ Top.kind = "guard" /\ stack' = Pop
        BY <1>5 DEF UnwindGuard, SlotInv
      <4>. QED
        BY <2>1, <4>1, PopKeepsCatch
    <3>. QED
      BY <1>5, <3>1 DEF UnwindGuard, SlotInv, Running
  <2>. QED
    BY <1>5, <2>1, <2>2, <1>3 DEF UnwindGuard
<1>6. ASSUME NEW m \in Payloads, PanicWithHook(m) PROVE IInv'
  <2>1. PanicToString(m) \in Msgs
    BY PanicToStringType
  <2>. QED
    BY <1>6, <2>1 DEF PanicWithHook, TypeOK, SlotInv, CatchSpanInv, SpanAbove,
       HookDetail, CaughtDetailIsCurrent, Details, Unwinds, NoUnwind, Running,
       HasCatch
<1>7. ASSUME NEW m \in Payloads, ResumeUnwind(m) PROVE IInv'
  BY <1>7 DEF ResumeUnwind, TypeOK, SlotInv, CatchSpanInv, SpanAbove,
     CaughtDetailIsCurrent, Unwinds, NoUnwind, Running, HasCatch
<1>8. CASE ReturnOk
  <2>1. stack # << >> /\ Top.kind = "catch"
    BY <1>8 DEF ReturnOk
  <2>2. span = Top.saved
    BY <2>1 DEF CatchSpanInv, SpanAbove, Top, TypeOK
  <2>3. TypeOK' /\ CatchSpanInv'
    BY <1>8, <2>1, <2>2, PopFacts, PopSpanInv DEF ReturnOk, TypeOK, Top, Results
  <2>. QED
    BY <1>8, <2>3 DEF ReturnOk, SlotInv, CaughtDetailIsCurrent, Running
<1>9. CASE CatchPanic
  <2>1. ~Running /\ HasCatch /\ unwinding \in Unwinds
    BY <1>9 DEF CatchPanic, SlotInv, TypeOK, NoUnwind, Unwinds, Running
  <2>2. stack # << >> /\ Top.kind = "catch"
    BY <1>9, <2>1 DEF CatchPanic, HasCatch
  <2>3. span = Top.saved
    BY <2>2 DEF CatchSpanInv, SpanAbove, Top, TypeOK
  <2>4. CatchSpanInv'
    BY <1>9, <2>2, <2>3, PopSpanInv DEF CatchPanic
  <2>5. PanicToString(unwinding.payload) \in Msgs
    BY <2>1, PanicToStringType DEF Unwinds
  <2>6. CaughtDetailIsCurrent' /\ last' \in Results
    <3>1. CASE unwinding.hook
      <4>1. detail = HookDetail(unwinding) /\ HookDetail(unwinding) # NoDetail
        BY <2>1, <3>1 DEF SlotInv, HookDetail, NoDetail
      <4>2. HookDetail(unwinding) \in Details
        BY <2>1, <2>5 DEF HookDetail, Details, Unwinds
      <4>. QED
        BY <1>9, <2>1, <3>1, <4>1, <4>2 DEF CatchPanic, TakeCurrent,
           CaughtDetailIsCurrent, Results, HookDetail
    <3>2. CASE ~unwinding.hook
      <4>1. detail = NoDetail
        BY <2>1, <3>2 DEF SlotInv
      <4>2. NewDetail(PanicToString(unwinding.payload)) \in Details
        BY <2>5 DEF NewDetail, Details, AllSpans
      <4>. QED
        BY <1>9, <2>1, <3>2, <4>1, <4>2 DEF CatchPanic, TakeCurrent,
           CaughtDetailIsCurrent, Results
    <3>. QED
      BY <3>1, <3>2
  <2>7. TypeOK'
    BY <1>9, <2>2, <2>6, PopFacts DEF CatchPanic, TypeOK, NoDetail, NoUnwind
  <2>. QED
    BY <1>9, <2>4, <2>6, <2>7 DEF CatchPanic, SlotInv, Running
<1>10. CASE UNCHANGED vars
  BY <1>10 DEF vars, TypeOK, SlotInv, CatchSpanInv, SpanAbove, HasCatch,
               CaughtDetailIsCurrent, Running
<1>11. QED
  BY <1>1, <1>2, <1>4, <1>5, <1>6, <1>7, <1>8, <1>9, <1>10 DEF Next

\* catch_unwind never returns a detail other than the one its own panic
\* produced: not one left from an earlier panic, and with the span that
\* was current when the panic was raised.
THEOREM CaughtDetailHolds == Spec => []CaughtDetailIsCurrent
<1>1. IInv => CaughtDetailIsCurrent
  BY DEF IInv
<1>. QED
  BY InitIInv, NextIInv, <1>1, PTL DEF Spec

\* Each step that leaves a catch_unwind frame, by returning Ok or by
\* catching a panic, leaves CURRENT_SPAN as it was when the frame was
\* entered.
THEOREM SpanRestoredHolds == Spec => SpanRestored
<1>1. IInv /\ [Next]_vars =>
        [Len(stack') < Len(stack) /\ Top.kind = "catch" => span' = Top.saved]_vars
  <2> SUFFICES ASSUME IInv, [Next]_vars,
                      Len(stack') < Len(stack), Top.kind = "catch"
               PROVE  span' = Top.saved
    OBVIOUS
  <2>. USE DEF IInv
  <2>1. stack # << >>
    BY DEF TypeOK
  <2>2. span = Top.saved
    BY <2>1 DEF CatchSpanInv, SpanAbove, Top, TypeOK
  <2>3. ReturnOk \/ CatchPanic
    BY DEF Next, vars, EnterCatch, SetCurrentSpan, PanicWithHook, ResumeUnwind,
           DropGuard, UnwindGuard, Top
  <2>. QED
    BY <2>2, <2>3 DEF ReturnOk, CatchPanic
<1>. QED
  BY InitIInv, NextIInv, <1>1, PTL DEF Spec, SpanRestored

\* Every state of the catch_unwind/hook protocol is well formed: the stack
\* of frames never exceeds its bound and the detail slot, the span and the
\* last result hold values of their kinds.
THEOREM TypeCorrect == Spec => []TypeOK
<1>1. IInv => TypeOK
  BY DEF IInv
<1>. QED
  BY InitIInv, NextIInv, <1>1, PTL DEF Spec

=============================================================================

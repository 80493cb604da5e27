CONSTANTS
    s1 = s1  s2 = s2  dummy = dummy  m1 = m1  m2 = m2  boxed = boxed  unknown = unknown
    Spans <- MCSpans
    DummySp <- dummy
    Payloads <- MCPayloads
    StrPayloads <- MCStrPayloads
    UnknownErr <- unknown
    MaxDepth = 4
SPECIFICATION Spec
INVARIANTS CaughtDetailIsCurrent
PROPERTIES SpanRestored

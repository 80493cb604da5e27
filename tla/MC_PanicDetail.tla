--------------------------- MODULE MC_PanicDetail ---------------------------
(* Two spans, two string payloads and one payload of another type, and   *)
(* up to four frames: a catch nested in a catch with a guard in each, or  *)
(* guards stacked three deep in one catch.                                 *)
EXTENDS PanicDetail

CONSTANTS s1, s2, dummy, m1, m2, boxed, unknown

MCSpans == {s1, s2}

MCPayloads == {m1, m2, boxed}

MCStrPayloads == {m1, m2}

=============================================================================

------------------------------ MODULE MC_Pretty ------------------------------
EXTENDS Pretty

\* Two one-letter strings and their concatenation.
MCStrs == {<<"A">>, <<"B">>, <<"A", "B">>}

=============================================================================

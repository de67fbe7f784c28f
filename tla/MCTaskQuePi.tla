------------------------------ MODULE MCTaskQuePi ------------------------------
\* Model-checking instances of TaskQuePi.
EXTENDS TaskQuePi, TLC

CONSTANTS a, b, c, d

One   == {a}
Two   == {a, b}
Three == {b, c, d}
Sole  == {c}
None  == {}

=================================================================================

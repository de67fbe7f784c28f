----------------------------- MODULE MCTaskEventVarPi -----------------------------
\* Model-checking instances of TaskEventVarPi.
EXTENDS TaskEventVarPi

CONSTANTS a, c

OneSetter == {a}
OneWaiter == {c}
TwoBits   == {{0}, {1}, {0, 1}}
===================================================================================

---------------------------------- MODULE MCIsc ----------------------------------
\* Model-checking instance of the I2C masters: the build has one of the targets.
EXTENDS IscPi

CONSTANTS HEAP

ASSUME HeapAssumption == HEAP \in Nat

VARIABLES BUILD_TARGET, installed, espCall, lost, unanswered

Esp == INSTANCE IscEsp WITH call <- espCall

espVars == <<installed, espCall, lost, unanswered>>

MCInit == /\ BUILD_TARGET \in {"TARGET_ESP32", "TARGET_PI3"}
          /\ Init /\ Esp!Init
MCNext == \/ BUILD_TARGET = "TARGET_ESP32" /\ Esp!Next /\ UNCHANGED <<BUILD_TARGET, vars>>
          \/ BUILD_TARGET = "TARGET_PI3" /\ Next /\ UNCHANGED <<BUILD_TARGET, espVars>>

\* The fairness of IscPi; its actions are never enabled in the other build.
MCSpec == /\ MCInit /\ [][MCNext]_<<BUILD_TARGET, vars, espVars>>
          /\ Fairness

\* No command link is lost while reads are answered (see IscEsp).
NothingLostWhileAnswered == Esp!NothingLostWhileAnswered
=================================================================================

\* One thread that sets and one that waits; no wake-up is spurious.
SPECIFICATION Spec
CONSTANTS
  a = a
  c = c
  Setters <- OneSetter
  Waiters <- OneWaiter
  Masks <- TwoBits
  Spurious = FALSE
  MaxCalls = 3
INVARIANT
  WaitSeesBit
CHECK_DEADLOCK FALSE

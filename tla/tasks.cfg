\* Event bits: two threads that set and clear beside two that wait.  Queue: two
\* that push, one of which also pops, beside two that pop, all but one with a
\* timeout only.  Period: on and over the wrap of the counter, with late calls.
SPECIFICATION MCSpec
CONSTANTS
  a = a
  b = b
  c = c
  d = d
  Producers <- Two
  Poppers <- Sole
  TimedPoppers <- Three
  Spurious = TRUE
  WRAP = 8
  TICK_MS = 2
  Waits = {4, 7, 10}
  MaxTime = 22
  MaxPush = 4
INVARIANTS
  TypeOK
  NeverOversleeps
PROPERTIES
  IsFifo
  SetReleasesWaiters
  Steady
CHECK_DEADLOCK FALSE

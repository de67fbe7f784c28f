\* One producer and one consumer that uses both forms of pop; no wake-up of
\* cond_ is spurious and nobody else consumes.
SPECIFICATION Spec
CONSTANTS
  a = a
  b = b
  c = c
  d = d
  Producers <- One
  Poppers <- Sole
  TimedPoppers <- Sole
  Spurious = FALSE
  MaxPush = 4
INVARIANT
  PopsReturnElements
CHECK_DEADLOCK FALSE

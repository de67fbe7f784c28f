\* Three consumers that all use pop(item); cond_ may wake them spuriously.
SPECIFICATION FairSpec
CONSTANTS
  a = a
  b = b
  c = c
  d = d
  Producers <- Two
  Poppers <- Three
  TimedPoppers <- None
  Spurious = TRUE
  MaxPush = 4
INVARIANTS
  NoStrandedItem
  PopsReturnElements
PROPERTIES
  IsFifo
  WaitersServed
CHECK_DEADLOCK FALSE

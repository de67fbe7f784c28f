\* I2C with two tasks: a heap of one unit more than their links need on the ESP32, a
\* device that both use and another client of the daemon on the
\* Raspberry Pi.  SPI with two tasks.  UART with one, and a clock that wraps
\* after twelve milliseconds, from 0 or shortly before that; the length 3 is one
\* too many for the counter of the ESP32.
SPECIFICATION BusSpec
CONSTANTS
  Tasks = {t1, t2}
  HEAP = 19
  Addresses = {a}
  Foreign = Foreign
  None = None
  HANDLES = 6
  FIRST_FILE = 3
  MAX_INITS = 2
  MAX_SCANS = 1
  MAX_LEN = 2
  MaxSends = 3
  WRAP = 12
  POLL = 2
  LEN_VALUES = 3
  Lengths = {0, 2, 3}
  Timeouts = {0, 4}
  Skews = {0, 9}
  Settings <- SomeSettings
  MaxTime = 7
  MaxBytes = 3
INVARIANTS
  TypeOK
  NothingLostWhileAnswered
  OwnHandles
  HandlesBounded
  OwnAnswer
  ReadInTime
PROPERTIES
  TakeReturns
  ReadsTheLine
  DevicesReached
CHECK_DEADLOCK FALSE

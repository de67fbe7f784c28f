\* A write that returns ERROR_OK and does not reach the slave.
SPECIFICATION MCSpec
CONSTANTS
  Tasks = {t1, t2}
  HEAP = 19
  Addresses = {a}
  Foreign = Foreign
  None = None
  HANDLES = 6
  FIRST_FILE = 3
  MAX_INITS = 2
  MAX_SCANS = 1
  MAX_LEN = 2
INVARIANTS
  OkMeansReached

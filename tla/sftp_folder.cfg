\* A folder of two files that is uploaded and deleted.
SPECIFICATION MCSpec
CONSTANTS
  SEND_FAIL_MAX_FOR_DISCONNECT = 2
  MAX_FD = 3
  Texts <- SomeTexts
  OurNetwork = "ours"
  OurPassword = "pw"
  WpaFiles <- SomeFiles
  PowerFailures = 1
  LocalPaths = {f1, f2}
  RemotePaths = {r1, r2}
  Missing = Missing
  Part = Part
INVARIANTS
  DeletedAreKept
CHECK_DEADLOCK FALSE

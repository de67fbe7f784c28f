\* The connection with three descriptors that is given up after two failed sends;
\* the start with files of up to two networks and one power failure; a folder of
\* two files.
SPECIFICATION MCSpec
CONSTANTS
  SEND_FAIL_MAX_FOR_DISCONNECT = 2
  MAX_FD = 3
  Texts <- SomeTexts
  OurNetwork = "ours"
  OurPassword = "pw"
  WpaFiles <- SomeFiles
  PowerFailures = 1
  LocalPaths = {f1, f2}
  RemotePaths = {r1, r2}
  Missing = Missing
  Part = Part
INVARIANTS
  NotHasty
  OpenIsConnected
  TypeOK
  OthersKeepPsk
  TrueMeansUploaded
PROPERTIES
  DeadPeerNoticed
  DeletesUploaded
  Converges
CHECK_DEADLOCK FALSE

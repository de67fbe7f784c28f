\* A task that connects and disconnects at any time beside a task that sends, or one
\* task that does everything and looks at is_connected() first.
SPECIFICATION MCSpec
CONSTANTS
  c = c
  s = s
  Tasks <- BothTasks
  Bits <- AllBits
  Connectors <- ConnectTask
  Senders <- SendTask
  Guarded = FALSE
  Modes <- BothModes
  MaxFds = 2
  MaxEvents = 4
  AddrLens <- OneLen
  SEND_FAIL_MAX_FOR_DISCONNECT = 2
INVARIANTS
  TypeOK
  BitsNotLost
  GivesUpInTime
  SingleHasOneSocket
PROPERTIES
  CallsReturn
CHECK_DEADLOCK FALSE

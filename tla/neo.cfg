\* ESP32: strips of one to eight LEDs; a half holds four bytes as in the code.
\* Raspberry Pi: strips of one and of four LEDs and nine words, two calls; four LEDs
\* fill the nine words exactly, so that the length is cut off.
SPECIFICATION MCSpec
CONSTANTS
  Counts <- OneToEight
  SLOTS = 4
  Targets = {"esp32", "pi"}
  NUM_DATA_WORDS = 9
  PiCounts = {1, 4}
  Garbage = {0, 1, 4, 5}
  Channel = {0, 165}
  Brightness = {50, 100}
  MaxCalls = 2
INVARIANTS
  TypeOK
  NextByteReady
  HandlerInsideCall
  StripShowsBuffer
PROPERTIES
  SetColorReturns
CHECK_DEADLOCK FALSE

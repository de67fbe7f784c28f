\* A key of each type and texts of up to two characters on the ESP32, a number,
\* a float and a string on the Raspberry Pi.
SPECIFICATION MCSpec
CONSTANTS
  number = number
  real = real
  array = array
  text = text
  Keys <- FourKeys
  Type <- TypeOf
  Chars <- OneChar
  MAX_LEN = 2
  None = None
  PiKeys <- ThreeKeys
  PiType <- PiTypeOf
  PiBuffers <- OneBuffer
  PiTexts <- TwoTexts
  KeepsBuffers = TRUE
  Broken = Broken
INVARIANTS
  TypeOK
  PiTypeOK
PROPERTIES
  IsPrefs
  PiIsPrefs

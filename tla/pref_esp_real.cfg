\* A double that is stored and not found.
SPECIFICATION MCSpec
CONSTANTS
  number = number
  real = real
  array = array
  text = text
  Keys <- FourKeys
  Type <- TypeOf
  Chars <- OneChar
  MAX_LEN = 2
  None = None
  PiKeys <- ThreeKeys
  PiType <- PiTypeOf
  PiBuffers <- OneBuffer
  PiTexts <- TwoTexts
  KeepsBuffers = TRUE
  Broken = Broken
PROPERTIES
  RealsAreRead

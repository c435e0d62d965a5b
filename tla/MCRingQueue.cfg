SPECIFICATION RingSpec
CONSTANTS
  Elems = {a, b}
  Cap = 4
  Word = 16
PROPERTY
  RingIsFifo

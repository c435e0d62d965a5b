CONSTANTS
  IntMax = 3
  InTypes <- NoInputs
  SubLo = 0
  SubHi = 1
  Consts = {1}
  Names = {"add"}
  Control = {"while"}
  MaxTokens = 6
  MaxControl = 1
  MaxSlots = 64
SPECIFICATION Spec
CHECK_DEADLOCK FALSE
INVARIANT NoFalseDischarge

CONSTANTS
  IntMax = 2
  InTypes <- OneInput
  SubLo = 0
  SubHi = 1
  Consts = {1}
  Names = {"swap", "add", "lt", "havoc"}
  Control = {"if", "needs", "while", "loop", "as?"}
  MaxTokens = 6
  MaxControl = 1
  MaxSlots = 64
SPECIFICATION Spec
CHECK_DEADLOCK FALSE
INVARIANTS ElisionSound FailingSound AbstractCovers 

\* Three packs, at most one child killed.
CONSTANTS
  Platforms <- Packs
  Expects = 2
  High = 1
  MaxKills = 1
  None = None
SPECIFICATION Spec
INVARIANTS  RegistersMatch NoOrphan 
PROPERTY RunEnds

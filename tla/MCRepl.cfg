CONSTANTS
  Slots = 2
  HeapCap = 3
  WordCap = 1
  SourceCap = 1
  FuelBudget = 2
  StepBudgets = {1}
  Ops = {"literal", "emit", "create", "alloc", "reset", "destroy", "store", "scoped_enter", "place"}
  MaxDefs = 1
  MaxCommits = 2
  MaxJournal = 2
  MaxDepth = 2
  MaxOut = 1
SPECIFICATION Spec
INVARIANTS HeapSound SuspensionMatchesSurface OutputOnce
PROPERTY RollbackExact

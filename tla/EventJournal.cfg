SPECIFICATION Spec
CONSTANTS
  e1 = e1
  e2 = e2
  e3 = e3
  Events = {e1, e2, e3}
  Broken = Broken
  MaxRecords = 2
  AtomicReplace = FALSE
  TornAnywhere = FALSE
  MaxCuts = 3
  MaxErrors = 2
INVARIANTS AlwaysBoots MemoryIsTheLog
PROPERTY AckedSurvives
SYMMETRY Symmetry

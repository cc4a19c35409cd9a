SPECIFICATION Spec
CONSTANTS
  e1 = e1
  e2 = e2
  e3 = e3
  Events = {e1, e2, e3}
  Broken = Broken
  MaxRecords = 2
  AtomicReplace = FALSE
  TornAnywhere = TRUE
  MaxCuts = 3
  MaxErrors = 0
INVARIANT AlwaysBoots
SYMMETRY Symmetry

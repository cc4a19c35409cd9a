SPECIFICATION Spec
CONSTANTS
  Ieees = {d1, d2}
  Names = {a, b}
  Zmanim = {shkia}
  Typed <- MCTyped
  Days = {6}
  MaxOffset = 20
  None = None
  MaxTaps = 3
  MaxJoins = 1
SYMMETRY MCSymmetry
INVARIANTS StoreIsCurrent WizardSavesValid PairedOnce PageHasItsRecord
PROPERTIES OneThingPerEdit

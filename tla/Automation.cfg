SPECIFICATION FairSpec
CONSTANTS
  e1 = e1
  e2 = e2
  t1 = t1
  t2 = t2
  Events = {e1, e2}
  Taps = {t1}
  Due <- MCDue
  MinValid = 1
  CatchUp = 2
  MaxRecords = 2
  MaxAttempts = 2
  DeliveryAck = TRUE
  Horizon = 4
  MaxFaults = 2
INVARIANTS NothingSkipped JournaledMeansActed
PROPERTIES ResendNeedsEviction KeepsPromise TickEnds EventHandled
CHECK_DEADLOCK FALSE

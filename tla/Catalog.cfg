SPECIFICATION Spec
CONSTANTS
  Types <- MCTypes
  Ids <- MCIds
  TypeOf <- MCTypeOf
  Bodies <- MCBodies
  Requests <- MCRequests
  Shipped <- MCShipped
  Devices = {"d1"}
  None = "none"
  Cities = {"jlm", "tlv"}
  DefaultCity = "jlm"
  Own = "own"
  AtomicReplace = FALSE
  MaxCalls = 3
  MaxCuts = 1
  MaxErrors = 1
  MaxMisreads = 1
INVARIANT SoundOnceUp
PROPERTIES Durable StartsAgain ReleasedOnlyUnused
CHECK_DEADLOCK FALSE

SPECIFICATION FairSpec
CONSTANTS
  d1 = d1
  d2 = d2
  s1 = s1
  s2 = s2
  Off = Off
  Devices <- MCDevices
  Shorts <- MCShorts
  Window = 1
  CreditTime = 3
  RetryBase = 5
  MaxShift = 1
  Delay <- MCDelay
  StepTime = 2
  MaxNews = 2
  MaxLost = 1
INVARIANTS NeverGivesUp TrueFlag
PROPERTIES NoStorm Converges
CHECK_DEADLOCK FALSE

SPECIFICATION BreakerFairSpec
CONSTANTS
  watchdog = watchdog
  probe = probe
  c1 = c1
  c2 = c2
  Watchdog = watchdog
  Probe = probe
  Commands = {c1, c2}
  Threshold = 2
  MaxFaults = 4
INVARIANTS FailsFastBetweenProbes OpenForCause
PROPERTY FollowsLink

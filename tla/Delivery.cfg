SPECIFICATION Spec
CONSTANTS
  switch = switch
  relay = relay
  gang1 = gang1
  gang2 = gang2
  lamp = lamp
  group = group
  tap = tap
  Devices = {switch, relay}
  Relays = {gang1, gang2, lamp}
  DeviceOf <- MCDeviceOf
  Calls = {group, tap}
  Targets <- MCTargets
  Actions <- MCActions
  Confirming = {tap}
  Window = 1
  MaxAttempts = 2
  OldCalls = {tap}
  MaxFaults = 1
  MaxPresses = 1
INVARIANTS GroupProven ConfirmedIsTrue ShownIsReal
CHECK_DEADLOCK FALSE

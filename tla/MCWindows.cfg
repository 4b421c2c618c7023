SPECIFICATION WinSpec
CONSTANTS
  Splits <- MCSplits
  V6Splits <- MCV6Splits
  Tuns = {tun}
  Servers = {srv}
  Loopbacks = {}
  Uplinks = {wifi, wire}
  Scoped = TRUE
  TunIpv6 <- MCBoth
  SpawnMayRun = FALSE
  Leftovers = {}
  MaxCrashes = 1
  MaxFaults = 1
  MaxOldRuns = 2
  MaxControls = 2
  Instances = {1, 2, 3}
  Pids = {1, 2}
  MaxStarts = 1
CHECK_DEADLOCK FALSE
INVARIANTS RecordCoversTable ResolverKept
PROPERTIES StopReported StopWaitTrue SteeringWithdrawn StopEnds StopWaitEnds

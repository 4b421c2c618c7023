SPECIFICATION MCSpec
CONSTANTS
  Splits <- MCSplits
  V6Splits <- MCV6Splits
  Tuns = {utun4, utun5}
  Servers = {srv, lo}
  Loopbacks = {lo}
  Uplinks = {wifi}
  Scoped = FALSE
  TunIpv6 <- MCTrue
  SpawnMayRun = TRUE
  Leftovers <- MCLeftovers
  MaxCrashes = 1
  MaxFaults = 1
INVARIANTS
  RouteInv
  AllOrNothing
PROPERTIES
  
  PassesEnd

SPECIFICATION Spec
CONSTANTS
  Parts = {"chain", "start"}
  N = 2
  Tapped = {1}
  Mode <- MCMode
  MaxTries = 2
  MayRefuse = {1}
  MaxAttempts = 2
  MaxCrashes = 2
CHECK_DEADLOCK FALSE
INVARIANTS ChainTrue PluginsAccounted
PROPERTIES KeepsPromise TakenDown

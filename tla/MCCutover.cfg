CONSTANTS
  Changers = {1, 2}
  Requests = {1, 2, 3}
  Environments <- MCEnvironments
SPECIFICATION Spec
CHECK_DEADLOCK FALSE
INVARIANTS
  StartTypeAttributed
  MarkerAttended
  NoMixedStart

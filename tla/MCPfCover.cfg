\* Crashes, reboots, damaged records, failing calls and an unblock.
CONSTANTS
  h1 = h1
  h2 = h2
  h3 = h3
  Configs = {c1}
  None = None
  Hosts = {h1, h2, h3}
  Tokens = {1, 2, 3, 4, 5}
  NoToken = 0
  Environments <- Covers
SPECIFICATION Spec
SYMMETRY Symmetry
INVARIANTS
  RecordUndoes
  CoverTrue

\* An unblock beside an install loses the record of the rules it leaves.
CONSTANTS
  h1 = h1
  h2 = h2
  h3 = h3
  Configs = {c1}
  None = None
  Hosts = {h1, h2, h3}
  Tokens = {1, 2, 3}
  NoToken = 0
  Environments <- Raced
SPECIFICATION Spec
SYMMETRY Symmetry
INVARIANT Recoverable

\* Handlers racing for the lock, attempts and cancels, restarts and damaged records.
SPECIFICATION Spec
CONSTANTS
  home = home
  home2 = home2
  wifi = wifi
  work = work
  socks = socks
  a = a
  b = b
  Configs = {home, home2, wifi, work, socks}
  None = None
  SocksOnly = {socks}
  Shape <- MCShape
  Ids = {a, b}
  NoId = NoId
  Pf = TRUE
  Environments <- Safety
INVARIANTS
  RecordsFollow
  AttemptsScoped
PROPERTIES
  CoverFollows
SYMMETRY MCSymmetry

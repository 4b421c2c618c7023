\* A start whose client hangs up keeps the slot.
SPECIFICATION Spec
CONSTANTS
  home = home
  home2 = home2
  wifi = wifi
  work = work
  socks = socks
  a = a
  b = b
  Configs = {home, home2, wifi, work, socks}
  None = None
  SocksOnly = {socks}
  Shape <- MCShape
  Ids = {a, b}
  NoId = NoId
  Pf = TRUE
  Environments <- HangUp
INVARIANT SlotNamesAStart

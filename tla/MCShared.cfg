CONSTANTS
  Environments <- MCEnvironments
  Threads = {t1, t2}
  Values = {a}
  MaxBackups = 3
  LockProcs = {1, 2, 3}
  LockFiles = {f1, f2, f3, f4}
  Euid <- MCEuid
  LockOwner <- MCLockOwner
  NoOne = NoOne
  TombPids = {1, 2}
  MaxProcs = 2
  GuiTasks = {1, 2}
  Launches = {1, 2}
  Entries = {"e1", "e2"}
  Contents = {"a", "b"}
  MaxLines = 2
  ChannelCap = 1
  MaxOpts = 2
SPECIFICATION SharedSpec
CHECK_DEADLOCK FALSE
INVARIANTS
  FileAsSeen
  LockExcludes
  CrashHasItsOwnFiles
  TrayUpToDate
  HandedOver
  MembershipOwned
  ConsoleFaithful
  
PROPERTIES
  NeverDestroyedUnread

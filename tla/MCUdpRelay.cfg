SPECIFICATION PlaneSpec
CONSTANTS
  Parts = {"relay"}
  Tuples = {"t1", "t2"}
  Isns = {"i1", "i2"}
  FlowKeys = {"k1"}
  MaxConnections = 1
  MaxRules = 2
  MaxServers = 2
  Interval = 3
  Timeout = 2
  MaxGen = 2
  QueueCap = 1
  MaxSessions = 2
  Conns = {1, 2, 3}
  WfpConfigs = {1, 2}
  Luids = {1, 2}
  MaxWfpFaults = 2
CHECK_DEADLOCK FALSE
PROPERTY RelayReleased

SPECIFICATION MCSpec
CONSTANTS
  A = A
  B = B
  a1 = a1
  a2 = a2
  b1 = b1
  Nobody = Nobody
  Outsider = Outsider
  Servers <- MCServers
  Sessions <- MCSessions
  Home <- MCHome
  Values = {v0, v1}
  Default = v0
  ForeignShapes = {"readable", "ahead"}
  RetryAttempts = 2
  LockTtl = 3
  Heartbeat = 1
  MaxQueue = 1
  MaxEvents = 2
INVARIANTS
  LockInv
  AckedIsStored
  HeartbeatSuffices
PROPERTIES
  SingleWriter
  AheadIsKept

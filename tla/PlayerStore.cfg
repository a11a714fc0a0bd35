SPECIFICATION MCFairSpec
CONSTANTS
  A = A
  p1 = p1
  p2 = p2
  Nobody = Nobody
  Outsider = Outsider
  NoOne = NoOne
  Servers <- OneServer
  Players <- Rejoiners
  ServerOf <- RejoinOnA
  Values = {v0, v1}
  Default = v0
  ForeignShapes = {"readable"}
  RetryAttempts = 1
  LockTtl = 2
  Heartbeat = 1
  MaxQueue = 1
  AcquireAttempts = 2
  MaxLoads = 1
  MaxEvents = 1
INVARIANTS
  NoOrphan
PROPERTIES
  DocumentSpec
  NobodyWaitsForever

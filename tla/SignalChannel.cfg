SPECIFICATION ChannelSpec
CONSTANTS
  p1 = p1
  p2 = p2
  b1 = b1
  s1 = s1
  Players = {p1, p2}
  Everyone = Everyone
  MaxFrameItems = 2
  MaxKeys = 1
  Other = Other
  Signals = {s1, u1}
  Loose = {u1}
  Groups <- MCGroups
  Batches = {b1}
  BatchOf <- MCBatchOf
  ChunkSize = 2
  MaxMade = 3
INVARIANTS
  ReadInOrder
  CountsMatch
CHECK_DEADLOCK FALSE

CONSTANTS
  lin = lin
  mac = mac
  ci = ci
  dev = dev
  Targets <- TwoTargets
  Os <- TargetOs
  Checkouts = {ci, dev}
  Host <- Machines
  MaxVersion = 2
  Environments <- SomeEnvironments
  None = None
  MaxCommands = 3
SPECIFICATION MCSpec
INVARIANTS
  ServedIsSound
  SuccessMeansShipped
CHECK_DEADLOCK FALSE

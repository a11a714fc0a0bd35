SPECIFICATION FairSpec
CONSTANTS
  Players = {p, q}
  Stores = {s, t}
CHECK_DEADLOCK FALSE
INVARIANTS
  NothingLeftBehind
  NobodyMissed
  FlushedAtClose
PROPERTIES
  PlayersAreSeenThrough

SPECIFICATION FairSpec
CONSTANTS
  first = first
  second = second
  early = early
  later = later
  kept = kept
  brief = brief
  NoValue = NoValue
  NoCall = NoCall
  None = None
  Players = {first, second}
  First = first
  Calls = {early}
  Started = {early, later}
  Caller <- MCCaller
  Pushes = {}
  Readers = {kept, brief}
  Rendering = {kept}
  KeepAlive <- MCKeepAlive
  Exclusive = FALSE
  MaxGeneration = 4
  MaxRevision = 2
  MaxEvents = 4
INVARIANTS
  ViewsAreCurrent
  LatestWins
PROPERTIES
  HeldAsAsked
CHECK_DEADLOCK FALSE

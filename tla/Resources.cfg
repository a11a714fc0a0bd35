SPECIFICATION MCFairSpec
CONSTANTS
  p1 = p1
  p2 = p2
  c1 = c1
  c2 = c2
  NoValue = NoValue
  Everyone = Everyone
  Players <- MCPlayers
  Calls <- MCCalls
  Caller <- MCCaller
  Pushes = {w}
  MaxTags = 1
  MaxEvents = 4
  MaxLateEvents = 4
INVARIANTS
  AnswersAreCurrent
  CurrentWhenQuiet
  NoDoubleApplication
PROPERTIES
  NoFlashBack
  UpdatesLeave
CHECK_DEADLOCK FALSE

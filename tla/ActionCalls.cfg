SPECIFICATION MCFairSpec
CONSTANTS
  player = player
  safe = safe
  buy = buy
  again = again
  fire = fire
  ka = ka
  kb = kb
  NoKey = NoKey
  Players <- OnePlayer
  Calls <- MCCalls
  CallerOf <- MCCaller
  Keys <- MCKeys
  KeyFor <- MCKeyFor
  MaxRetries <- MCRetries
  Idempotent = {safe, again}
  OneWayCalls = {fire}
  PricedCalls = {buy, fire}
  Burst = 1
  MaxInFlight = 2
  MaxEntries = 1
  MaxEvents = 2
CHECK_DEADLOCK FALSE
INVARIANTS
  RunsOnce
  InFlightExact
PROPERTIES
  AdmittedIsSettled

SPECIFICATION MCSpec
CONSTANTS
  app = app
  thing = thing
  other = other
  back = back
  folder = folder
  Nothing = Nothing
  Unreadable = Unreadable
  Files <- MCFiles
  Directories <- MCDirectories
  Under <- MCUnder
  Rank <- MCRank
  KindOf <- MCKindOf
  Specifiers = {"lib", "srv"}
  Candidates <- MCCandidates
  Contents <- MCContents
  StrictImports = TRUE
  SharedSafety = TRUE
  Tsconfigs = {"bare", "kept", "own"}
  Kept <- MCKept
  Hasty = {}
  MaxEvents = 3
INVARIANTS
  OutputIsClean
  PassedIsSafe
  NoStrays
PROPERTY
  ComesToRest
CHECK_DEADLOCK FALSE

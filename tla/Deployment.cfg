\* Two containers of any image, one killed process, two requests for the rate.
SPECIFICATION FairSpec
CONSTANTS
  i1 = i1  i2 = i2
  Instances = {i1, i2}
  Host = i1
  Latest = 2
  MaxKills = 1
  NoOne = NoOne
  Asks = {r1, r2}
  Ttl = 1
  MaxTime = 2
  Fallback = Fallback
INVARIANTS StartIsCurrent ServesMigrated
PROPERTIES CacheMovesOn BootEnds
CHECK_DEADLOCK FALSE

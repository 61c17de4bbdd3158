SPECIFICATION Spec
SYMMETRY RequestSymmetry
CONSTANTS
  r1 = r1
  r2 = r2
  home = home
  artist = artist
  ada = ada
  Anonymous = Anonymous
  NoAge = NoAge
  None = None
  Requests = {r1, r2}
  Bodies = {home, artist}
  Users = {ada}
  Asks <- MCAsks
  Ages = {2}
  DefaultMaxAge = 1
  LongestAge = 2
  PutDelay = 1
  MaxTime = 3
INVARIANTS TypeOK CacheIsShareable RepliesAreOwn BypassSeesFreshData
PROPERTIES HitsAreBounded
CHECK_DEADLOCK FALSE

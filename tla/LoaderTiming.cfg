SPECIFICATION QuerySpec
CONSTANTS
  artwork = artwork
  artworkHeaders = artworkHeaders
  myArtwork = myArtwork
  updateArtwork = updateArtwork
  theArtwork = theArtwork
  artworkPath = artworkPath
  force = force
  eigen = eigen
  Public = Public
  Nothing = Nothing
  r1 = r1
  r2 = r2
  r3 = r3
  Requests = {r1, r2, r3}
  Loaders = {artwork}
  Resources = {theArtwork}
  Paths = {artworkPath}
  ResourceOf <- MCResourceOf
  PathOf <- MCPathOf
  Headers = {}
  Mutating = {}
  Authenticated = {}
  HonoursMutation = {artwork}
  AppTokens = {force, eigen}
  AppToken <- MCAppToken
  SendsAppToken = {artwork}
  Throttle <- MCThrottle
  Lifetime <- MCLifetime
  CACHE_DISABLED = FALSE
  CACHE_LIFETIME = 1
  CACHE_RETRIEVAL_TIMEOUT = 1
  REQUEST_TIMEOUT = 1
  MaxCalls = 2
  CallBudget = 3
  MaxSigns <- NoSigns
  MaxChanges = 0
  Horizon = 2
INVARIANTS RepeatableReads
PROPERTIES EntriesExpire EveryLoadSettles
CHECK_DEADLOCK FALSE

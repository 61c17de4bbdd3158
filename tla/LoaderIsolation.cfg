SPECIFICATION Spec
CONSTANTS
  artwork = artwork
  artworkHeaders = artworkHeaders
  myArtwork = myArtwork
  updateArtwork = updateArtwork
  theArtwork = theArtwork
  artworkPath = artworkPath
  force = force
  eigen = eigen
  Public = Public
  Nothing = Nothing
  r1 = r1
  r2 = r2
  r3 = r3
  Requests = {r1, r2}
  Loaders = {artwork, artworkHeaders, myArtwork, updateArtwork}
  Resources = {theArtwork}
  Paths = {artworkPath}
  ResourceOf <- MCResourceOf
  PathOf <- MCPathOf
  Headers = {artworkHeaders}
  Mutating = {updateArtwork}
  Authenticated = {myArtwork, updateArtwork}
  HonoursMutation = {artwork, artworkHeaders}
  AppTokens = {force, eigen}
  AppToken <- MCAppToken
  SendsAppToken = {artwork, artworkHeaders}
  Throttle <- MCThrottle
  Lifetime <- MCLifetime
  CACHE_DISABLED = FALSE
  CACHE_LIFETIME = 1
  CACHE_RETRIEVAL_TIMEOUT = 1
  REQUEST_TIMEOUT = 1
  MaxCalls = 1
  CallBudget = 2
  MaxSigns <- SignsWithToken
  MaxChanges = 1
  Horizon = 1
SYMMETRY RequestSymmetry
INVARIANTS TypeOK ServesOwnData StoreMatchesKey SilenceIsBounded MutationLoadsAreFresh
PROPERTIES ImplementsContract
CHECK_DEADLOCK FALSE

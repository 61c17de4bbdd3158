SPECIFICATION FairSpec
CONSTANTS
  a = a
  b = b
  aSlug = aSlug
  s = s
  t = t
  Undefined = Undefined
  Artworks = {a, b}
  Slugs = {aSlug}
  SlugOf <- MCSlugOf
  Sales = {s, t}
  Lots <- MCLots
  MaxBatchSize = 2
  MaxKeys = 4
  MaxFailures = 1
INVARIANTS TypeOK KeysFindTheirLots AsksOnce
PROPERTIES EveryLotResolves
CHECK_DEADLOCK FALSE

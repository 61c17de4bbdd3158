SPECIFICATION Spec
CONSTANTS
  a = a
  b = b
  live = live
  NoParams = NoParams
  Null = Null
  Undefined = Undefined
  Ids = {a, b}
  Params = {NoParams, live}
  Missing = {b}
  MaxBatchSize = 2
  MaxKeys = 4
  MaxFailures = 1
INVARIANTS ParityWithGravityLoader
CHECK_DEADLOCK FALSE

SPECIFICATION Spec
CONSTANTS
  r1 = r1
  r2 = r2
  thing = thing
  ada = ada
  ben = ben
  cy = cy
  Requests = {r1, r2}
  Things = {thing}
  Documents <- ShowDocuments
  Artists = {ada, ben, cy}
  InitialArtists = {ada}
  Editioned = {}
  MaxFailures = 0
INVARIANT IncrementalUpdates
CHECK_DEADLOCK FALSE

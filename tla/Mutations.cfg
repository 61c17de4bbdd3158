SPECIFICATION FairSpec
CONSTANTS
  r1 = r1
  r2 = r2
  thing = thing
  ada = ada
  ben = ben
  cy = cy
  Requests = {r1, r2}
  Things = {thing}
  Documents <- MCDocuments
  Artists = {ada, ben, cy}
  InitialArtists = {ada}
  Editioned = {}
  MaxFailures = 2
INVARIANTS TypeOK  RereadShowsOwnWrites ImagesInOrder EditionSetIsSingle
PROPERTIES NoLateWrites EveryFieldAnswered
CHECK_DEADLOCK FALSE

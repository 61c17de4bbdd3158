SPECIFICATION FairSpec
CONSTANTS
  r1 = r1
  r2 = r2
  i1 = i1
  i2 = i2
  Unset = Unset
  Absent = Absent
  Requests = {r1, r2}
  Ids = {i1, i2}
  Settings = {Unset, 1}
  TimeoutSettings = {0, 1}
  Traffic <- MCTraffic
INVARIANTS TypeOK AnswersAreFinal RequestLog NothingCutOff
PROPERTIES NobodyWaitsForever
CHECK_DEADLOCK FALSE

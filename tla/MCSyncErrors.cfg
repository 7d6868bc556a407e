SPECIFICATION FairSpec
CONSTANTS
  m1 = m1
  m2 = m2
  r1 = r1
  r2 = r2
  Cookie = {m1, m2, m3}
  Row = {r1}
  Watched <- watchAll
  Elem = {}
  NoRow = NoRow
  Endpoint = {s1}
  None = None
  Servers <- condServer
  Timeouts = TRUE
  MaxCancel = 1
  MaxTxn = 2
  MaxLoss = 2
CHECK_DEADLOCK FALSE
PROPERTIES
  ErrorsRebuild

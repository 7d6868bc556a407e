SPECIFICATION FairSpec
CONSTANTS
  m1 = m1
  m2 = m2
  r1 = r1
  r2 = r2
  Cookie = {m1, m2}
  Row = {r1, r2}
  Watched <- watchOne
  Elem = {e}
  NoRow = NoRow
  Endpoint = {s1}
  None = None
  Servers <- modernServer
  Timeouts = FALSE
  MaxCancel = 0
  MaxTxn = 2
  MaxLoss = 0
CHECK_DEADLOCK FALSE
PROPERTIES
  MonitorEnds

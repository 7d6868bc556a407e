SPECIFICATION Spec
CONSTANTS
  m1 = m1
  m2 = m2
  r1 = r1
  r2 = r2
  Cookie = {m1}
  Row = {r1}
  Watched <- watchAll
  Elem = {e}
  NoRow = NoRow
  Endpoint = {s1, s2}
  None = None
  Servers <- modernServer
  Timeouts = FALSE
  MaxCancel = 0
  MaxTxn = 3
  MaxLoss = 2
CHECK_DEADLOCK FALSE
INVARIANTS
  LastTransactionIDValid

SPECIFICATION TCFairSpec
CONSTANTS
  UUID = {u1, u2}
  Value = {a, b}
  Model <- MCModel
  byName = byName
  Index = {byName}
  SchemaIndex = {byName}
  IndexColumns <- MCIndexColumns
  Zero = Zero
  Nil = Nil
  NoKey = NoKey
  NoRow = NoRow
  bufferSize = 2
  Handovers = FALSE
INVARIANTS
  TCTypeOK
  AppliedRowsIndexed
  SettledIndexExact
  HandlersFollowCache
PROPERTIES
  NotificationsApplied

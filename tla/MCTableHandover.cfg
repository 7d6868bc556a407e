SPECIFICATION TCSpec
CONSTANTS
  UUID = {u1, u2, u3}
  Value = {a, b, c}
  Model <- MCModel
  byName = byName
  Index = {byName}
  SchemaIndex = {byName}
  IndexColumns <- MCIndexColumns
  Zero = Zero
  Nil = Nil
  NoKey = NoKey
  NoRow = NoRow
  bufferSize = 1
  Handovers = TRUE
SYMMETRY Symmetry
INVARIANTS
  AppliedRowsIndexed

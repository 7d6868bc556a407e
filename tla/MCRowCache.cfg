SPECIFICATION Spec
CONSTANTS
  UUID = {u1, u2, u3}
  Model <- MCModel
  Index <- MCIndex
  SchemaIndex <- MCSchemaIndex
  IndexColumns <- MCIndexColumns
  IndexOrder <- MCIndexOrder
  NewModel <- MCNewModel
  OptionalColumn = {"port"}
  MapColumn = {"ids"}
  ModelLists <- MCModelLists
  ConditionLists <- MCConditionLists
  Predicates <- MCPredicates
  Zero = Zero
  Nil = Nil
  NoKey = NoKey
  NoRow = NoRow
  a = a
  b = b
  byName = byName
  byNamePort = byNamePort
  byKey = byKey
  byKeys = byKeys
SYMMETRY Symmetry
INVARIANTS
  TypeOK
  SchemaIndexSound
  ClientIndexExact
  CheckedIndexExact
  ConditionsExact
  ModelsExact
  OperationsMatch

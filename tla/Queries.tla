------------------------------ MODULE Queries -------------------------------
(***************************************************************************)
(* The lookups of a table of the cache (cache/cache.go: RowsByModels,      *)
(* RowsByCondition) and what the client API makes of them                  *)
(* (client/condition.go, client/api.go): Where, WhereAny, WhereAll and     *)
(* WhereCache find rows of the cache, List returns them, and Update,       *)
(* Mutate, Delete, Wait and Select send operations whose conditions are    *)
(* generated from them.                                                    *)
(*                                                                         *)
(* A lookup holds the read lock of the RowCache, so it reads one state of  *)
(* RowCache and changes nothing: it is an operator on the state.  A model  *)
(* that is looked up has a UUID, Zero when its _uuid field is empty, and   *)
(* contents.  A condition has a column, a function and a native value.     *)
(* The columns are atoms, optionals (pointers) and maps.                   *)
(***************************************************************************)
EXTENDS RowCache, SequencesExt

CONSTANTS
  IndexOrder,       \* RowCache.indexSpecs: schema indexes, then client indexes
  NewModel,         \* the contents of a model with no field set
  OptionalColumn,   \* the columns that are optionals
  MapColumn,        \* the columns that are maps
  ModelLists,       \* arguments of Where
  ConditionLists,   \* arguments of WhereAny and WhereAll
  Predicates        \* arguments of WhereCache, as the sets of contents they accept

ASSUME IndexOrderAssumption ==
  /\ ToSet(IndexOrder) = Index
  /\ \A j, k \in DOMAIN IndexOrder :
       IndexOrder[j] \in Index \ SchemaIndex /\ IndexOrder[k] \in SchemaIndex => k < j

Rows == {u \in UUID : Exists(u)}

\* A missing entry of an index.
entry(i, v) == IF v \in IndexValue THEN indexes[i][v] ELSE {}

-----------------------------------------------------------------------------
(* Lookup by model.                                                        *)

\* The indexes that have an entry for the model, in their order.
hits(m, useClientIndexes) ==
  SelectSeq(IndexOrder,
            LAMBDA i : /\ useClientIndexes \/ i \in SchemaIndex
                       /\ entry(i, valueFromIndex(m.row, i)) # {})

\* Variant: no break after the first index that has an entry.
rowsByModelAllIndexes(results, m, useClientIndexes) ==
  IF m.uuid \in Rows \ results
    THEN results \cup {m.uuid}
    ELSE results \cup UNION {entry(i, valueFromIndex(m.row, i)) :
                               i \in ToSet(hits(m, useClientIndexes))}

\* One turn of the loop.  A model whose UUID is found already goes on to the
\* indexes, as one whose UUID is not in the cache.
rowsByModel(results, m, useClientIndexes) ==
  IF m.uuid \in Rows \ results
    THEN results \cup {m.uuid}
    ELSE LET found == hits(m, useClientIndexes)
         IN  IF found = <<>>
               THEN results
               ELSE results \cup entry(found[1], valueFromIndex(m.row, found[1]))

rowsByModels(models, useClientIndexes) ==
  FoldLeft(LAMBDA results, m : rowsByModel(results, m, useClientIndexes), {}, models)

-----------------------------------------------------------------------------
(* Lookup by condition.                                                    *)

\* mapContains: every key of y has the same value in x.
mapContains(x, y) == \A k \in DOMAIN y : k \in DOMAIN x /\ x[k] = y[k]

\* The comparisons that Evaluate refuses.
unsupported(c) ==
  c.column \in OptionalColumn /\ c.function \in {"includes", "excludes"}

Evaluate(c, value) ==
  LET included == IF c.column \in MapColumn
                    THEN mapContains(value, c.value)
                    ELSE value = c.value
  IN  CASE c.function = "==" -> value = c.value
        [] c.function = "!=" -> value # c.value
        [] c.function = "includes" -> included
        [] c.function = "excludes" -> ~included

\* nil when one of the sets is empty.
intersectUUIDSets(s, t) == IF s = {} \/ t = {} THEN Nil ELSE s \cap t

toIndexableCondition(c) ==
  c.column # "_uuid" /\ c.function \in {"==", "includes"}

columnKeys(c) ==
  IF c.function = "includes" /\ c.column \in MapColumn /\ DOMAIN c.value # {}
    THEN {[column |-> c.column, key |-> k] : k \in DOMAIN c.value}
    ELSE {[column |-> c.column, key |-> NoKey]}

indexMatchesConditions(i, conditions) ==
  ToSet(IndexColumns[i]) = UNION {columnKeys(c) : c \in ToSet(conditions)}

\* The UUIDs of the index that has the columns of the conditions, nil if there
\* is none.  A second condition on a column overwrites the first.
evaluateConditionSetAsIndex(conditions) ==
  LET m == FoldLeft(LAMBDA row, c : [row EXCEPT ![c.column] = c.value],
                    NewModel, conditions)
      specs == SelectSeq(IndexOrder, LAMBDA i : indexMatchesConditions(i, conditions))
  IN  IF specs = <<>> THEN Nil ELSE entry(specs[1], valueFromIndex(m, specs[1]))

\* One turn of the loop over the power set, which stops at a set with at most
\* one UUID.
intersectUUIDsFromConditionSet(matching, conditions) ==
  IF matching # Nil /\ Cardinality(matching) <= 1
    THEN matching
    ELSE LET uuids == evaluateConditionSetAsIndex(conditions)
         IN  IF matching = Nil THEN uuids
             ELSE IF uuids = Nil THEN matching
             ELSE intersectUUIDSets(matching, uuids)

\* The subsets of the conditions in the order they are built, the empty one first.
powerSet(conditions) ==
  FoldLeft(LAMBDA ps, c : ps \o [j \in DOMAIN ps |-> Append(ps[j], c)],
           << <<>> >>, conditions)

uuidsByConditionsAsIndexes(conditions) ==
  FoldLeft(intersectUUIDsFromConditionSet, Nil,
           Tail(powerSet(SelectSeq(conditions, toIndexableCondition))))

\* Variant: the loop goes on when no row is left.
exhaustedNever(matching) == FALSE

\* matching.empty() ends the loop; nil and the empty set are the same here.
exhausted(matching) == matching \in {Nil, {}}

\* One turn of the loop over the conditions: first is TRUE as long as nothing
\* has narrowed the rows down.
trim(state, c) ==
  LET first == state.matching = Nil
      candidates == IF first THEN Rows ELSE state.matching
      byUUID == c.column = "_uuid"
      matched == IF byUUID THEN {c.value} \cap Rows
                 ELSE {u \in candidates : Evaluate(c, cache[u][c.column])}
      next == IF first THEN matched ELSE intersectUUIDSets(state.matching, matched)
  IN  IF state.failed \/ state.done
        THEN state
        ELSE IF ~byUUID /\ unsupported(c) /\ candidates # {}
          THEN [state EXCEPT !.failed = TRUE]
          ELSE [matching |-> next, failed |-> FALSE,
                done |-> exhausted(next)]

\* The rows, and whether the lookup failed.
RowsByCondition(conditions) ==
  IF conditions = <<>>
    THEN [rows |-> Rows, failed |-> FALSE]
    ELSE LET start == [matching |-> uuidsByConditionsAsIndexes(conditions),
                       failed |-> FALSE, done |-> FALSE]
             end == FoldLeft(trim, start, conditions)
         IN  [rows |-> IF end.matching = Nil \/ end.failed THEN {} ELSE end.matching,
              failed |-> end.failed]

-----------------------------------------------------------------------------
(* The conditionals of the client API.  Each has the rows it matches in    *)
(* the cache and the list of conditions it generates for the operations.   *)

valid(m, i) ==
  \A columnKey \in ToSet(IndexColumns[i]) : m.row[columnKey.column] # NewModel[columnKey.column]

uuidIs(u) == << [column |-> "_uuid", function |-> "==", value |-> u] >>

\* The equality conditions of the first index, _uuid before the others, for
\* which the model has no default value; none if there is no such index.
NewEqualityCondition(m) ==
  LET indexed == SelectSeq(IndexOrder, LAMBDA i : i \in SchemaIndex /\ valid(m, i))
      columns == IndexColumns[indexed[1]]
  IN  IF m.uuid # Zero THEN uuidIs(m.uuid)
      ELSE IF indexed = <<>> THEN <<>>
      ELSE [k \in DOMAIN columns |->
              [column |-> columns[k].column, function |-> "==",
               value |-> m.row[columns[k].column]]]

\* Variant: the conditions of the models are those of one operation.
generateConditionsFromModelsTogether(models) ==
  [conditions |-> {FoldLeft(LAMBDA s, m : s \o NewEqualityCondition(m), <<>>,
                            SetToSeq(models))},
   failed |-> FALSE]

\* One operation for each model; it fails if a model has no valid index.
generateConditionsFromModels(models) ==
  LET conditions == {NewEqualityCondition(m) : m \in models}
  IN  [conditions |-> conditions, failed |-> <<>> \in conditions]

cached(uuids) == {[uuid |-> u, row |-> cache[u]] : u \in uuids}

\* equalityConditional (Where)
equalityConditional(models) ==
  LET found == rowsByModels(models, TRUE)
  IN  [matches |-> found, failed |-> FALSE,
       generated |-> generateConditionsFromModels(
                       IF found = {} THEN ToSet(models) ELSE cached(found))]

generateOvsdbConditionsFromModelConditions(conditions, singleOp) ==
  IF singleOp THEN {conditions} ELSE {<<c>> : c \in ToSet(conditions)}

\* explicitConditional (WhereAny, WhereAll)
explicitConditional(conditions, matchAll) ==
  LET anyConditions == generateOvsdbConditionsFromModelConditions(conditions, matchAll)
      lookups == {RowsByCondition(w) : w \in anyConditions}
      found == UNION {l.rows : l \in lookups}
      failed == \E l \in lookups : l.failed
  IN  [matches |-> found, failed |-> failed,
       generated |-> IF failed THEN [conditions |-> {}, failed |-> TRUE]
                     ELSE IF found = {} THEN [conditions |-> anyConditions, failed |-> FALSE]
                     ELSE generateConditionsFromModels(cached(found))]

RowsByUUIDsShallow(uuids) == uuids \cap Rows

\* predicateConditional (WhereCache, WhereCacheByUUIDs)
predicateConditional(predicate, uuids) ==
  LET found == {u \in RowsByUUIDsShallow(uuids) : cache[u] \in predicate}
  IN  [matches |-> found, failed |-> FALSE,
       generated |-> generateConditionsFromModels(cached(found))]

\* Update, Mutate, Delete, Wait and Select send one operation for each list of
\* conditions.
operations(cond) ==
  IF cond.generated.failed THEN {} ELSE {[where |-> c] : c \in cond.generated.conditions}

\* List appends the matching rows up to the capacity of the result, any of
\* them when it is too small.
List(cond, capacity) ==
  IF cond.failed THEN {}
  ELSE LET full == Cardinality(cond.matches) >= capacity
       IN  {s \in SUBSET cond.matches :
              IF full THEN Cardinality(s) = capacity ELSE s = cond.matches}

-----------------------------------------------------------------------------
(* What the lookups are to compute, by the rows alone.                     *)

holds(c, u) ==
  IF c.column = "_uuid" THEN c.value = u ELSE Evaluate(c, cache[u][c.column])

Selected(conditions) ==
  {u \in Rows : \A k \in DOMAIN conditions : holds(conditions[k], u)}

\* No two conditions of the list are on the same map column.
distinctMaps(conditions) ==
  \A j, k \in DOMAIN conditions :
    j # k /\ conditions[j].column \in MapColumn => conditions[j].column # conditions[k].column

Conditionals ==
  {equalityConditional(models) : models \in ModelLists}
    \cup {explicitConditional(l, all) : l \in {l \in ConditionLists : distinctMaps(l)},
                                       all \in BOOLEAN}
    \cup {predicateConditional(p, uuids) : p \in Predicates, uuids \in SUBSET UUID}

\* The rows of the first index by which a row agrees with the model.
FirstMatch(m, useClientIndexes) ==
  LET agree == SelectSeq(IndexOrder,
                 LAMBDA i : /\ useClientIndexes \/ i \in SchemaIndex
                            /\ RowsWith(cache, i, valueFromIndex(m.row, i)) # {})
  IN  IF m.uuid \in Rows THEN {m.uuid}
      ELSE IF agree = <<>> THEN {}
      ELSE RowsWith(cache, agree[1], valueFromIndex(m.row, agree[1]))

\* No model of the list has the UUID of a row found for an earlier one.
freshUUIDs(models, useClientIndexes) ==
  \A k \in DOMAIN models :
    models[k].uuid \notin rowsByModels(SubSeq(models, 1, k - 1), useClientIndexes)

-----------------------------------------------------------------------------
(* Properties.                                                             *)

\* RowsByCondition narrows the rows down by the indexes it can make of the
\* conditions, intersects them, stops early and takes nil for "not narrowed
\* yet".  Whatever was written, it returns no row that fails a condition, and
\* when the writes were checked it returns all that satisfy them, unless two
\* conditions are on one map column (the model the index value is taken from
\* then has the second one only).
ConditionsExact ==
  \A l \in ConditionLists :
    LET result == RowsByCondition(l)
    IN  ~result.failed =>
          /\ result.rows \subseteq Selected(l)
          /\ ~unchecked /\ distinctMaps(l) => result.rows = Selected(l)

\* Where and Get find for each model the row with its UUID, or else all rows
\* that agree with it by the first index that has any, and nothing by a later
\* index; one model does not change what another finds, unless it has the UUID
\* of a row found already.
ModelsExact ==
  ~unchecked =>
    \A models \in ModelLists, useClientIndexes \in BOOLEAN :
      freshUUIDs(models, useClientIndexes) =>
        rowsByModels(models, useClientIndexes) =
          UNION {FirstMatch(m, useClientIndexes) : m \in ToSet(models)}

\* The operations of a conditional, evaluated where the rows are those of the
\* cache, select the rows that List returns for it: Update, Mutate and Delete
\* touch neither more rows nor fewer than the user sees, whether the conditions
\* are generated from the rows or, when none match, from the arguments.
OperationsMatch ==
  ~unchecked =>
    \A cond \in Conditionals :
      operations(cond) # {} =>
        \A shown \in List(cond, Cardinality(UUID)) :
          UNION {Selected(op.where) : op \in operations(cond)} = shown

=============================================================================

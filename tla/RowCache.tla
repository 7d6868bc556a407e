------------------------------ MODULE RowCache ------------------------------
(***************************************************************************)
(* One table of the cache (cache/cache.go, type RowCache): the rows hashed *)
(* by UUID and, for every index, the map from an index value to the set of *)
(* UUIDs that have it.  The indexes are redundant state that Create,       *)
(* Update and Delete maintain by hand; every lookup by model or by         *)
(* condition trusts them.                                                  *)
(*                                                                         *)
(* Each operation runs under the write lock of the RowCache, so it is one  *)
(* step.  An operation that returns an error writes nothing, so it is a    *)
(* step that changes nothing and the guards below say when it succeeds.    *)
(***************************************************************************)
EXTENDS Naturals, Sequences, FiniteSets

CONSTANTS
  UUID,           \* the identifiers a row may have
  Model,          \* the contents a row may have: functions from column names
  Index,          \* the names of the table's indexes
  SchemaIndex,    \* those declared by the schema; the others are client indexes
  IndexColumns,   \* IndexColumns[i]: the sequence of column keys of index i
  Zero,           \* the zero value of a map's value type
  Nil,            \* the empty value of an optional column
  NoKey,          \* the key of a column key that names a whole column
  NoRow           \* the "contents" of a UUID that is not in the cache

ASSUME SchemaIndexAssumption == SchemaIndex \subseteq Index

ASSUME NoRowAssumption == NoRow \notin Model

VARIABLES
  cache,          \* RowCache.cache: the row of each UUID, or NoRow
  indexes,        \* RowCache.indexes: index -> value -> set of UUIDs
  unchecked       \* history: a row was written with checkIndexes = false

vars == <<cache, indexes, unchecked>>

-----------------------------------------------------------------------------
(* The value of an index in a row.  A key that is missing from a map reads *)
(* as the zero value, and an index of several columns leaves the empty     *)
(* optionals out of what it encodes.                                       *)

valueFromColumnKey(m, columnKey) ==
  IF columnKey.key = NoKey
    THEN m[columnKey.column]
    ELSE IF columnKey.key \in DOMAIN m[columnKey.column]
           THEN m[columnKey.column][columnKey.key]
           ELSE Zero

NotNil(v) == v # Nil

valueFromIndex(m, i) ==
  LET columns == IndexColumns[i]
  IN  IF Len(columns) > 1
        THEN SelectSeq([k \in DOMAIN columns |-> valueFromColumnKey(m, columns[k])],
                       NotNil)
        ELSE valueFromColumnKey(m, columns[1])

IndexValue == {valueFromIndex(m, i) : m \in Model, i \in Index}

\* A value that is not a key of an index maps to no UUID: entries that become
\* empty are deleted, so an absent entry and an empty one are the same.
newIndexes == [i \in Index |-> [v \in IndexValue |-> {}]]

Exists(u) == cache[u] # NoRow

-----------------------------------------------------------------------------
(* What the three write operations do to the indexes.                      *)

\* Variant: a client index keeps the last writer only.
addedLastOnly(idx, i, v, u) == {u}

\* The entry of value v in index i once row u has been added to it: a schema
\* index keeps the last writer only, a client index collects all of them.
added(idx, i, v, u) ==
  IF i \in SchemaIndex THEN {u} ELSE idx[i][v] \cup {u}

createdIndexes(idx, u, m) ==
  [i \in Index |->
     [idx[i] EXCEPT ![valueFromIndex(m, i)] = added(idx, i, valueFromIndex(m, i), u)]]

\* Variant: Update adds the new entry and leaves the old one behind.
updatedIndexesKeepingOld(idx, u, old, m) == createdIndexes(idx, u, m)

\* Update removes the old entry of a schema index whoever it points at.
updatedIndexes(idx, u, old, m) ==
  [i \in Index |->
     LET oldVal == valueFromIndex(old, i)
         newVal == valueFromIndex(m, i)
     IN  IF oldVal = newVal
           THEN idx[i]
           ELSE [idx[i] EXCEPT
                   ![newVal] = added(idx, i, newVal, u),
                   ![oldVal] = IF i \in SchemaIndex THEN {} ELSE idx[i][oldVal] \ {u}]]

\* Variant: Delete removes the whole entry, whoever it points at.
deletedIndexesOfAnyRow(idx, u, old) ==
  [i \in Index |-> [idx[i] EXCEPT ![valueFromIndex(old, i)] = {}]]

\* Variant: Delete forgets the indexes.
deletedIndexesNone(idx, u, old) == idx

\* Delete removes only this row from the old entry.
deletedIndexes(idx, u, old) ==
  [i \in Index |->
     [idx[i] EXCEPT ![valueFromIndex(old, i)] = idx[i][valueFromIndex(old, i)] \ {u}]]

\* IndexExists, and the check of Create: some schema index of the contents m
\* already has an entry, and the entry is not this row.
IndexExists(idx, u, m) ==
  \E i \in SchemaIndex : idx[i][valueFromIndex(m, i)] \notin {{}, {u}}

\* Variant: Update checks the entry of the value it gives up.
updateConflictOld(idx, u, old, m) ==
  \E i \in SchemaIndex :
    /\ valueFromIndex(old, i) # valueFromIndex(m, i)
    /\ idx[i][valueFromIndex(old, i)] \notin {{}, {u}}

\* The check of Update looks only at the indexes whose value changes.
updateConflict(idx, u, old, m) ==
  \E i \in SchemaIndex :
    /\ valueFromIndex(old, i) # valueFromIndex(m, i)
    /\ idx[i][valueFromIndex(m, i)] \notin {{}, {u}}

-----------------------------------------------------------------------------
(* The operations.                                                         *)

\* Variant: the new row cache gets no index maps.
newRowCacheWithoutIndexes ==
  /\ cache' = [u \in UUID |-> NoRow]
  /\ indexes' = [i \in {} |-> {}]
  /\ unchecked' = FALSE

newRowCache ==
  /\ cache' = [u \in UUID |-> NoRow]
  /\ indexes' = newIndexes
  /\ unchecked' = FALSE

Create(u, m, checkIndexes) ==
  /\ ~Exists(u)
  /\ checkIndexes => ~IndexExists(indexes, u, m)
  /\ indexes' = createdIndexes(indexes, u, m)
  /\ cache' = [cache EXCEPT ![u] = m]
  /\ unchecked' = (unchecked \/ ~checkIndexes)

Update(u, m, checkIndexes) ==
  /\ Exists(u)
  /\ checkIndexes => ~updateConflict(indexes, u, cache[u], m)
  /\ indexes' = updatedIndexes(indexes, u, cache[u], m)
  /\ cache' = [cache EXCEPT ![u] = m]
  /\ unchecked' = (unchecked \/ ~checkIndexes)

Delete(u) ==
  /\ Exists(u)
  /\ indexes' = deletedIndexes(indexes, u, cache[u])
  /\ cache' = [cache EXCEPT ![u] = NoRow]
  /\ UNCHANGED unchecked

Init ==
  /\ cache = [u \in UUID |-> NoRow]
  /\ indexes = newIndexes
  /\ unchecked = FALSE

Next ==
  \/ \E u \in UUID, m \in Model, checkIndexes \in BOOLEAN :
       \/ Create(u, m, checkIndexes)
       \/ Update(u, m, checkIndexes)
  \/ \E u \in UUID : Delete(u)
  \/ newRowCache

Spec == Init /\ [][Next]_vars

-----------------------------------------------------------------------------
(* Properties.                                                             *)

\* The rows and the indexes have their types.
TypeOK ==
  /\ cache \in [UUID -> Model \cup {NoRow}]
  /\ indexes \in [Index -> [IndexValue -> SUBSET UUID]]
  /\ unchecked \in BOOLEAN

\* The rows of a cache that really have value v of index i.
RowsWith(rows, i, v) == {u \in UUID : rows[u] # NoRow /\ valueFromIndex(rows[u], i) = v}

\* Whatever order rows are created, updated and deleted in, and whether or not
\* the writes check for duplicates, an entry of a schema index never leads a
\* lookup astray: it names at most one row, the row is in the cache and it has
\* the value it was looked up by (rowsByModels returns rows found this way
\* without looking at their contents, and would return nil for a missing one).
SchemaIndexSound ==
  \A i \in SchemaIndex, v \in IndexValue :
    /\ indexes[i][v] \subseteq RowsWith(cache, i, v)
    /\ \A u, w \in indexes[i][v] : u = w

\* A client index, which does not have to be unique, is at all times exactly
\* the inverse of the rows: Create, Update and Delete neither lose a row that
\* shares its value with others nor leave one behind.
ClientIndexExact ==
  \A i \in Index \ SchemaIndex, v \in IndexValue :
    indexes[i][v] = RowsWith(cache, i, v)

\* As long as every write asked for the index check, the schema indexes too
\* are exactly the inverse of the rows, and so no two rows share a value.
CheckedIndexExact ==
  ~unchecked =>
    \A i \in SchemaIndex, v \in IndexValue : indexes[i][v] = RowsWith(cache, i, v)

=============================================================================

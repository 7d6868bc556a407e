---------------------------- MODULE Transaction -----------------------------
(***************************************************************************)
(* The execution of a transaction (database/transaction/transaction.go) on *)
(* the in-memory database (database/inmemory/inmemory.go), up to the       *)
(* update it hands to the server.  The server runs one transaction at a    *)
(* time, and nothing is written to the database before the commit.         *)
(*                                                                         *)
(* A transaction works on a cache of its own, which is filled with the     *)
(* rows of the database as the operations ask for them.  An operation sees *)
(* the rows of both.  When the operations are done, the references are     *)
(* processed and the index constraints are checked.                        *)
(*                                                                         *)
(* The database and the cache of the transaction are tables of rows with   *)
(* one schema index, those of module RowCache.                             *)
(***************************************************************************)
EXTENDS References

CONSTANTS
  Name,           \* the named UUIDs that operations use
  NoName,         \* an insert operation without a named UUID
  IndexedTable,   \* the table that has a schema index
  IndexedColumn,  \* the column of the index
  Transactions    \* the transactions of the clients: sequences of operations

ASSUME IndexAssumption ==
  /\ IndexedColumn \in Column
  /\ \A u \in UUID : TableOf[u] = IndexedTable => IndexedColumn \in ColumnsOf[TableOf[u]]

\* The contents of operations are of the types of the columns.
IsOperation(op) ==
  /\ op.op = "insert" => op.uuid \in UUID
  /\ op.op \in {"insert", "update"} => IsRow(op.row)
  /\ op.op = "mutate" => IsMutationListOn(Column, op.mutations)

ASSUME OperationsAssumption ==
  \A ops \in Transactions :
    /\ ops \in Seq(Range(ops))
    /\ \A i \in DOMAIN ops : IsOperation(ops[i])

VARIABLES
  db,             \* inMemoryDatabase.databases: the rows and their index
  dbReferences,   \* inMemoryDatabase.references
  pc,             \* what the transaction is doing
  operations,     \* the operations it has left
  cache,          \* Transaction.Cache
  DeletedRows,    \* Transaction.DeletedRows
  update,         \* the updates of the operations so far, merged
  tracker,        \* the reference tracker
  pending,        \* the updates of the last turn of processReferencesLoop
  refUpdates,     \* the updates of all its turns
  overwritten,    \* history: it changed lists of the database in place
  stale,          \* history: it made an update from another model of the row
                  \* than the current one
  failed          \* a result of the transaction is an error

txnVars ==
  <<pc, operations, cache, DeletedRows, update, tracker, pending, refUpdates, overwritten, stale,
    failed>>
dbVars == <<db, dbReferences>>

-----------------------------------------------------------------------------
(* Tables of rows; err is set when an operation on the table returns an    *)
(* error.                                                                  *)

ColumnKeyOfIndex == [column |-> IndexedColumn, key |-> NoName]

RC == INSTANCE RowCache WITH
        UUID <- {u \in UUID : TableOf[u] = IndexedTable},
        Model <- {[c \in {IndexedColumn} |-> v] : v \in Native(IndexedColumn)},
        Index <- {IndexedColumn}, SchemaIndex <- {IndexedColumn},
        IndexColumns <- [i \in {IndexedColumn} |-> <<ColumnKeyOfIndex>>],
        Zero <- Nil, NoKey <- NoName, NoRow <- NoModel,
        cache <- cache.rows, indexes <- cache.index, unchecked <- TRUE

newCache == [rows |-> [u \in UUID |-> NoModel], index |-> RC!newIndexes, err |-> FALSE]

isIndexed(u) == TableOf[u] = IndexedTable

createRow(c, u, m) ==
  IF c.rows[u] # NoModel
    THEN [c EXCEPT !.err = TRUE]
    ELSE [c EXCEPT !.rows[u] = m,
                   !.index = IF isIndexed(u) THEN RC!createdIndexes(@, u, m) ELSE @]

changeRow(c, u, m) ==
  IF c.rows[u] = NoModel
    THEN [c EXCEPT !.err = TRUE]
    ELSE [c EXCEPT !.rows[u] = m,
                   !.index = IF isIndexed(u) THEN RC!updatedIndexes(@, u, c.rows[u], m) ELSE @]

removeRow(c, u) ==
  IF c.rows[u] = NoModel
    THEN [c EXCEPT !.err = TRUE]
    ELSE [c EXCEPT !.rows[u] = NoModel,
                   !.index = IF isIndexed(u) THEN RC!deletedIndexes(@, u, c.rows[u]) ELSE @]

\* ApplyCacheUpdate on one row.
applyRow(c, u, up) ==
  CASE up.old = NoModel /\ up.new # NoModel -> createRow(c, u, up.new)
    [] up.old # NoModel /\ up.new # NoModel -> changeRow(c, u, up.new)
    [] OTHER -> removeRow(c, u)

\* The rows one after the other, until one fails.
ApplyCacheUpdate(c, updates, order) ==
  LET upTo[n \in 0..Len(order)] ==
        IF n = 0 THEN c
        ELSE IF upTo[n - 1].err THEN upTo[n - 1]
        ELSE applyRow(upTo[n - 1], order[n], updates[order[n]])
  IN  upTo[Len(order)]

\* Rows of the database are created in the transaction's cache.
warm(c, order) ==
  ApplyCacheUpdate(c, [u \in UUID |-> [old |-> NoModel, new |-> db.rows[u]]], order)

Rows(c, t) == {u \in UUID : TableOf[u] = t /\ c.rows[u] # NoModel}

-----------------------------------------------------------------------------
(* Named UUIDs (ovsdb/named_uuid.go).                                      *)

\* The UUID that each name stands for: the one of the first insert with it.
uuidMap(ops) ==
  LET named(n) == {i \in DOMAIN ops : ops[i].op = "insert" /\ ops[i].name = n}
      first(n) == CHOOSE i \in named(n) : \A j \in named(n) : i <= j
  IN  [n \in {n \in Name : named(n) # {}} |-> ops[first(n)].uuid]

\* Two inserts with one name have different UUIDs.
nameConflict(ops) ==
  \E i \in DOMAIN ops :
    /\ ops[i].op = "insert" /\ ops[i].name # NoName
    /\ uuidMap(ops)[ops[i].name] # ops[i].uuid

expandNamedUUIDAtomic(x, names) == IF x \in DOMAIN names THEN names[x] ELSE x

\* A map is expanded only when its values are UUIDs.
expandNamedUUID(c, v, names) ==
  LET new(x) == expandNamedUUIDAtomic(x, names)
  IN  CASE IsMap(Kind[c]) /\ RefValue[c] # "none" ->
             [k \in {IF RefKey[c] = "none" THEN k ELSE new(k) : k \in DOMAIN v} |->
                new(v[CHOOSE o \in DOMAIN v : o = k \/ new(o) = k])]
        [] Kind[c] \in {"set", "optional"} /\ RefKey[c] # "none" -> {new(x) : x \in v}
        [] Kind[c] = "atom" /\ RefKey[c] # "none" -> new(v)
        [] OTHER -> v

expandRow(row, names) == [c \in DOMAIN row |-> expandNamedUUID(c, row[c], names)]

expandWhere(where, names) ==
  {[cond EXCEPT !.value = IF cond.column = "_uuid" THEN expandNamedUUIDAtomic(@, names)
                          ELSE expandNamedUUID(cond.column, @, names)] : cond \in where}

\* The keys that a mutation deletes from a map are expanded like a set, but only
\* when the values of the map are no UUIDs.
expandKeys(c, keys, names) ==
  IF RefKey[c] # "none" /\ RefValue[c] = "none"
    THEN {expandNamedUUIDAtomic(x, names) : x \in keys}
    ELSE keys

expandMutations(mutations, names) ==
  [i \in DOMAIN mutations |->
     [mutations[i] EXCEPT !.operand =
        IF mutations[i].mutator = "deleteKeys"
          THEN expandKeys(mutations[i].column, @, names)
          ELSE expandNamedUUID(mutations[i].column, @, names)]]

\* Only the fields that operations of its kind have.
expandOperation(op, names) ==
  [f \in DOMAIN op |->
     CASE f = "where" -> expandWhere(op.where, names)
       [] f = "mutations" -> expandMutations(op.mutations, names)
       [] f = "rows" -> [i \in DOMAIN op.rows |-> expandRow(op.rows[i], names)]
       [] f = "row" -> expandRow(op.row, names)
       [] OTHER -> op[f]]

ExpandNamedUUIDs(ops) == [i \in DOMAIN ops |-> expandOperation(ops[i], uuidMap(ops))]

-----------------------------------------------------------------------------
(* The rows an operation works on.                                         *)

Matches(u, m, where) ==
  \A cond \in where :
    IF cond.column = "_uuid" THEN u = cond.value ELSE m[cond.column] = cond.value

\* A condition on the indexed column is looked up in the index.
indexed(c, t, u, where) ==
  t = IndexedTable =>
    \A cond \in where : cond.column = IndexedColumn => u \in c.index[IndexedColumn][cond.value]

RowsByCondition(c, t, where) ==
  {u \in Rows(c, t) : Matches(u, c.rows[u], where) /\ indexed(c, t, u, where)}

\* The rows of the database that the transaction's cache does not show are copied
\* into it, which is an error for a row that is there with other contents.
toWarm(t, where) == RowsByCondition(db, t, where) \ RowsByCondition(cache, t, where)

\* The rows of the transaction's cache before those of the database.
rowsFromTransactionCacheAndDatabase(t, where) ==
  LET txnRows == RowsByCondition(cache, t, where)
      dbRows == RowsByCondition(db, t, where)
  IN  [u \in (txnRows \cup dbRows) \ DeletedRows |->
         IF u \in txnRows THEN cache.rows[u] ELSE db.rows[u]]

-----------------------------------------------------------------------------
(* The operations.  Each step is one operation with the merge of its       *)
(* update and its application to the cache (Transact).  A failure ends the *)
(* transaction.                                                            *)

Running(op) == pc = "operations" /\ operations # <<>> /\ Head(operations).op = op

fail ==
  /\ failed' = TRUE
  /\ pc' = "done"
  /\ UNCHANGED <<operations, cache, update>>

\* The operation made updates on rows that are now in cache c.
mergeAndApply(c, updates) ==
  LET merged == Merge(update, updates)
  IN  IF c.err \/ Failed(updates) \/ Failed(merged)
        THEN fail
        ELSE \E order \in Orders(Updated(updates)) :
               LET applied == ApplyCacheUpdate(c, updates, order)
               IN  IF applied.err
                     THEN fail
                     ELSE /\ update' = merged
                          /\ cache' = applied
                          /\ operations' = Tail(operations)
                          /\ UNCHANGED <<pc, failed>>

Insert ==
  /\ Running("insert")
  /\ LET op == Head(operations)
     IN  mergeAndApply(cache, [NoUpdates EXCEPT ![op.uuid] =
                                 addInsertOperation(ColumnsOf[TableOf[op.uuid]], op.row)])
  /\ stale' = (stale \/ db.rows[Head(operations).uuid] # NoModel)
  /\ UNCHANGED <<DeletedRows, tracker, pending, refUpdates, overwritten, dbVars>>

\* A selection changes nothing but what the cache holds.
Select ==
  /\ Running("select")
  /\ \E order \in Orders(toWarm(Head(operations).table, Head(operations).where)) :
       mergeAndApply(warm(cache, order), NoUpdates)
  /\ UNCHANGED <<DeletedRows, tracker, pending, refUpdates, overwritten, stale, dbVars>>

\* What an operation on rows that exist makes of the row m.
AddOperation(m, op) ==
  CASE op.op = "update" -> addUpdateOperation(m, op.row)
    [] op.op = "mutate" -> addMutateOperation(m, op.mutations)
    [] op.op = "delete" -> addDeleteOperation(m)

\* The updates of the rows found.
updatesOf(rows, op) ==
  [u \in UUID |-> IF u \in DOMAIN rows THEN AddOperation(rows[u], op) ELSE NoUpdate]

\* An operation on the rows that it finds.
operateOn(op) ==
  \E order \in Orders(toWarm(op.table, op.where)) :
    mergeAndApply(warm(cache, order),
                  updatesOf(rowsFromTransactionCacheAndDatabase(op.table, op.where), op))

Update ==
  /\ Running("update")
  /\ operateOn(Head(operations))
  /\ UNCHANGED <<DeletedRows, tracker, pending, refUpdates, overwritten, stale, dbVars>>

Mutate ==
  /\ Running("mutate")
  /\ operateOn(Head(operations))
  /\ UNCHANGED <<DeletedRows, tracker, pending, refUpdates, overwritten, stale, dbVars>>

Delete ==
  /\ Running("delete")
  /\ operateOn(Head(operations))
  /\ LET op == Head(operations)
     IN  DeletedRows' =
           DeletedRows \cup DOMAIN rowsFromTransactionCacheAndDatabase(op.table, op.where)
  /\ UNCHANGED <<tracker, pending, refUpdates, overwritten, stale, dbVars>>

\* The rows found are as many as the rows given, counting those that have the
\* values given for the columns (a default value is not compared).
waitSatisfied(op, rows) ==
  LET given(r) == CreateModel(op.columns, r)
      filtered == {u \in DOMAIN rows :
                     \A c \in op.columns, i \in DOMAIN op.rows :
                       \/ IsDefaultValue(c, given(op.rows[i])[c])
                       \/ given(op.rows[i])[c] = rows[u][c]}
  IN  (op.until = "==") = (Cardinality(filtered) = Len(op.rows))

\* The wait polls the same rows until its timeout, as no other transaction can
\* run meanwhile; one that has no timeout and is not satisfied never ends.
Wait ==
  /\ Running("wait")
  /\ LET op == Head(operations)
         rows == rowsFromTransactionCacheAndDatabase(op.table, op.where)
     IN  \E order \in Orders(toWarm(op.table, op.where)) :
           LET warmed == warm(cache, order)
           IN  IF ~warmed.err /\ waitSatisfied(op, rows)
                 THEN mergeAndApply(warmed, NoUpdates)
                 ELSE (warmed.err \/ op.timeout) /\ fail
  /\ UNCHANGED <<DeletedRows, tracker, pending, refUpdates, overwritten, stale, dbVars>>

\* Commit, Abort, Comment, Assert and unknown operations.
NotSupported ==
  /\ Running("comment")
  /\ fail
  /\ UNCHANGED <<DeletedRows, tracker, pending, refUpdates, overwritten, stale, dbVars>>

-----------------------------------------------------------------------------
(* The end of the transaction.                                             *)

\* Nothing left to do: without updates there is no further validation.
EndOperations ==
  /\ pc = "operations" /\ operations = <<>>
  /\ pc' = IF Updated(update) = {} THEN "done" ELSE "references"
  /\ tracker' = newReferenceTracker(dbReferences)
  /\ pending' = update
  /\ refUpdates' = NoUpdates
  /\ UNCHANGED <<operations, cache, DeletedRows, update, overwritten, stale, failed, dbVars>>

\* One turn of processReferencesLoop.  The lists of the database change under
\* its hands where the tracker's lists share their arrays.  A row that an earlier
\* turn has updated is updated again from the model it had before the loop.
processReferencesLoop ==
  /\ pc = "references" /\ Updated(pending) # {}
  /\ \E turn \in {processReferencesTurn(tracker, update, db.rows, pending)} :
     \E merged \in {Merge(refUpdates, turn.updates)} :
       /\ tracker' = turn.rt
       /\ dbReferences' = turn.rt.database
       /\ overwritten' = (overwritten \/ turn.rt.database # dbReferences)
       /\ stale' = (stale \/ turn.twice \/ Updated(turn.updates) \cap Updated(refUpdates) # {})
       /\ IF turn.err \/ Failed(merged)
            THEN fail /\ UNCHANGED <<pending, refUpdates>>
            ELSE /\ pending' = turn.updates
                 /\ refUpdates' = merged
                 /\ UNCHANGED <<pc, operations, cache, update, failed>>
  /\ UNCHANGED <<DeletedRows, db>>

\* The rows that the cache lacks when the updates of the references are applied
\* to it, for the check of the indexes.
toWarmForReferences == {u \in UUID : refUpdates[u].old # NoModel /\ cache.rows[u] = NoModel}

\* Variant: only the cache of the transaction is checked.
checkIndexesOfCache(c, deleted) ==
  \E u \in Rows(c, IndexedTable) : RC!IndexExists(c.index, u, c.rows[u])

\* A row of the cache shares its index value with another row of the cache, or
\* with a row of the database that the transaction did not touch.
checkIndexes(c, deleted) ==
  \E u \in Rows(c, IndexedTable) :
    \/ RC!IndexExists(c.index, u, c.rows[u])
    \/ /\ RC!IndexExists(db.index, u, c.rows[u])
       /\ \E existing \in db.index[IndexedColumn][c.rows[u][IndexedColumn]] :
            existing \notin deleted /\ c.rows[existing] = NoModel

\* The references are processed: their updates are merged and the indexes are
\* checked.
checkConstraints ==
  /\ pc = "references" /\ Updated(pending) = {}
  /\ \E order \in Orders(toWarmForReferences) : \E applied \in Orders(Updated(refUpdates)) :
       LET merged == Merge(update, refUpdates)
           warmed == warm(cache, order)
           c == IF warmed.err THEN warmed ELSE ApplyCacheUpdate(warmed, refUpdates, applied)
           deleted == DeletedRows \cup
                        {u \in UUID : refUpdates[u].old # NoModel /\ refUpdates[u].new = NoModel}
       IN  /\ DeletedRows' = deleted
           /\ update' = merged
           /\ cache' = c
           /\ failed' = (Failed(merged) \/ c.err \/ checkIndexes(c, deleted))
  /\ pc' = "done"
  /\ UNCHANGED <<operations, tracker, pending, refUpdates, overwritten, stale, dbVars>>

TransactionStep ==
  \/ Insert \/ Select \/ Update \/ Mutate \/ Delete \/ Wait \/ NotSupported
  \/ EndOperations \/ processReferencesLoop \/ checkConstraints

\* uuid.NewString gives inserts without a UUID one that no row has.
newUUIDs(ops) ==
  \A i \in DOMAIN ops :
    ops[i].op = "insert" /\ ~ops[i].explicit => db.rows[ops[i].uuid] = NoModel

\* A new transaction: the names are expanded before the first operation.
Begin(ops) ==
  /\ pc = "idle"
  /\ newUUIDs(ops)
  /\ failed' = nameConflict(ops)
  /\ pc' = IF nameConflict(ops) THEN "done" ELSE "operations"
  /\ operations' = ExpandNamedUUIDs(ops)
  /\ cache' = newCache
  /\ DeletedRows' = {}
  /\ update' = NoUpdates
  /\ tracker' = newReferenceTracker(dbReferences)
  /\ pending' = NoUpdates
  /\ refUpdates' = NoUpdates
  /\ overwritten' = FALSE
  /\ stale' = FALSE
  /\ UNCHANGED dbVars

\* The transaction is over and its state is gone.
End ==
  /\ pc' = "idle"
  /\ operations' = <<>>
  /\ cache' = newCache
  /\ DeletedRows' = {}
  /\ update' = NoUpdates
  /\ tracker' = newReferenceTracker([k \in RefKeys |-> NoRefs])
  /\ pending' = NoUpdates
  /\ refUpdates' = NoUpdates
  /\ overwritten' = FALSE
  /\ stale' = FALSE
  /\ failed' = FALSE

InitTransaction ==
  /\ db = newCache
  /\ dbReferences = [k \in RefKeys |-> NoRefs]
  /\ pc = "idle"
  /\ operations = <<>>
  /\ cache = newCache
  /\ DeletedRows = {}
  /\ update = NoUpdates
  /\ tracker = newReferenceTracker([k \in RefKeys |-> NoRefs])
  /\ pending = NoUpdates
  /\ refUpdates = NoUpdates
  /\ overwritten = FALSE
  /\ stale = FALSE
  /\ failed = FALSE

=============================================================================

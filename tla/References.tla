----------------------------- MODULE References -----------------------------
(***************************************************************************)
(* Referential integrity (updates/references.go, database/references.go).  *)
(*                                                                         *)
(* The database keeps, for every place in the schema that refers to rows   *)
(* (a ReferenceSpec) and every row referred to, the list of the rows that  *)
(* refer to it from there.  At the end of a transaction a tracker brings   *)
(* these lists up to date from the updates of the transaction, one         *)
(* difference at a time, and deletes the rows that are no longer strongly  *)
(* referenced and the weak references to rows that no longer exist.        *)
(*                                                                         *)
(* The tracker is a record.  Its lists of references start as the very Go  *)
(* slices of the database, and differences are applied to slices in place, *)
(* so the record also has the lists of the database and the set of lists   *)
(* whose array it still shares with the database.                          *)
(***************************************************************************)
EXTENDS SchemaTypes, FiniteSets, Functions

CONSTANTS
  UUID,           \* the rows
  TableOf,        \* TableOf[u]: the table of row u
  ColumnsOf,      \* ColumnsOf[t]: the columns of table t
  Root,           \* the tables that are part of the root set
  RefKey,         \* RefKey[c]: none, strong or weak, for an element or map key
  RefValue,       \* RefValue[c]: the same for the values of a map column
  MinLen,         \* MinLen[c]: the minimum number of elements of a column
  NoUUID,         \* the empty UUID
  Stray,          \* what a reference can hold that is no row: NoUUID, names
  NoRefs          \* a location and row that a map of references does not have

\* There are finitely many rows and columns, rows refer to others by atoms, and
\* only a column that holds no single value may be empty.
ASSUME SchemaAssumption ==
  /\ IsFiniteSet(UUID) /\ IsFiniteSet(Column)
  /\ UUID \cup Stray \subseteq Atom
  /\ \A u \in UUID : ColumnsOf[TableOf[u]] \subseteq Column
  /\ \A c \in Column : MinLen[c] \in Nat /\ (Kind[c] \in {"atom", "integer"} => MinLen[c] > 0)

RefSpec == {<<c, fromValue>> \in Column \X BOOLEAN :
              (IF fromValue THEN RefValue[c] ELSE RefKey[c]) # "none"}

refType(spec) == IF spec[2] THEN RefValue[spec[1]] ELSE RefKey[spec[1]]

\* The keys of database.References: a place in the schema and the row it
\* refers to.
RefKeys == RefSpec \X (UUID \cup Stray)

isStrong(k) == refType(k[1]) = "strong"
isRoot(u) == TableOf[u] \in Root

\* refInfo treats an optional as an atomic UUID.
isAtomic(c) == Kind[c] \in {"atom", "optional"}

-----------------------------------------------------------------------------
(* Sets of updates: a modelUpdate for every row.                           *)

\* The orders in which a Go map can yield the elements of S.
Orders(S) == Bijection(1..Cardinality(S), S)

NoUpdates == [u \in UUID |-> NoUpdate]

Updated(updates) == {u \in UUID : updates[u] # NoUpdate}

\* ModelUpdates.Merge; Failed when the updates of some row do not merge.
Merge(a, b) ==
  [u \in UUID |-> IF a[u] = Error \/ b[u] = NoUpdate THEN a[u]
                  ELSE IF b[u] = Error THEN Error
                  ELSE addUpdate(a[u], b[u])]

Failed(updates) == \E u \in UUID : updates[u] = Error

-----------------------------------------------------------------------------
(* The references that a row update adds or removes, as keys.  The row of  *)
(* the update is what they are from.                                       *)

\* An empty modification clears an optional, so the old value is removed.
getReferenceModificationsFromSet(c, modify, old) ==
  LET value == IF modify # {} \/ old = Absent THEN modify ELSE old
  IN  IF RefKey[c] = "none" THEN {} ELSE {<<<<c, FALSE>>, to>> : to \in value}

getReferenceModificationsFromMap(c, value) ==
  (IF RefKey[c] = "none" THEN {} ELSE {<<<<c, FALSE>>, k>> : k \in DOMAIN value})
    \cup
  (IF RefValue[c] = "none" THEN {} ELSE {<<<<c, TRUE>>, value[k]>> : k \in DOMAIN value})

getReferenceModificationsFromAtom(c, modify, old) ==
  IF RefKey[c] = "none" THEN {}
  ELSE {<<<<c, FALSE>>, to>> : to \in {modify} \cup ({old} \ {Absent, NoUUID})}

getReferenceModificationsFromColumn(c, modify, old) ==
  CASE Kind[c] \in {"set", "optional"} -> getReferenceModificationsFromSet(c, modify, old)
    [] IsMap(Kind[c]) -> getReferenceModificationsFromMap(c, modify)
    [] OTHER -> getReferenceModificationsFromAtom(c, modify, old)

getReferenceModificationsFromRow(modify, old) ==
  UNION {getReferenceModificationsFromColumn(c, modify[c],
           IF old # Absent /\ c \in DOMAIN old THEN old[c] ELSE Absent) : c \in DOMAIN modify}

-----------------------------------------------------------------------------
(* Lists of references: Go slices, a sequence with the capacity of its     *)
(* array.                                                                  *)

Slice(l, cap) == [l |-> l, cap |-> cap]

Position(l, x) == CHOOSE i \in DOMAIN l : l[i] = x

\* setDifference of a slice and the slice of the one element x: x is removed by
\* overwriting it with the last element, or appended.  An append beyond the
\* capacity moves to an array of twice the size.
sliceDifference(s, x) ==
  LET n == Len(s.l)
  IN  IF \E i \in DOMAIN s.l : s.l[i] = x
        THEN IF n = 1
               THEN Slice(<<>>, 0)
               ELSE Slice(SubSeq([s.l EXCEPT ![Position(s.l, x)] = s.l[n]], 1, n - 1), s.cap)
        ELSE Slice(Append(s.l, x), IF n < s.cap THEN s.cap ELSE 2 * n)

\* The result is in the array of s: it was neither emptied nor moved.
inPlace(s, x) ==
  /\ s.l # <<>>
  /\ IF \E i \in DOMAIN s.l : s.l[i] = x THEN Len(s.l) > 1 ELSE Len(s.l) < s.cap

\* What the database reads through its own slice old of an array that now
\* starts with new.
seenThrough(old, new) ==
  Slice([i \in DOMAIN old.l |-> IF i <= Len(new.l) THEN new.l[i] ELSE old.l[i]], old.cap)

\* Variant: a row that is on the list already is added once more.
applyReferenceModificationAdding(e, from) ==
  [e EXCEPT !.list = IF @ = NoRefs THEN Slice(<<from>>, 1)
                     ELSE Slice(Append(@.l, from), @.cap + 1)]

\* applyReferenceModifications of row from on one list: the list of the
\* tracker, whether it shares its array with the database, and the list of the
\* database.
applyReferenceModification(e, from) ==
  LET s == e.list
      shared == e.shared /\ inPlace(s, from)
  IN  IF s = NoRefs \/ s.l = <<>>
        THEN [e EXCEPT !.list = Slice(<<from>>, 1), !.shared = FALSE]
        ELSE LET new == sliceDifference(s, from)
             IN  [list |-> new, shared |-> shared,
                  database |-> IF shared THEN seenThrough(e.database, new) ELSE e.database]

\* One list and the rows that modify it.  Their order only orders the list.
applyReferenceModificationsOf(e, from) ==
  LET order == CHOOSE o \in Orders(from) : TRUE
      upTo[n \in 0..Cardinality(from)] ==
        IF n = 0 THEN e ELSE applyReferenceModification(upTo[n - 1], order[n])
  IN  upTo[Cardinality(from)]

\* The rows of mods modify the lists mods[u].
applyReferenceModifications(rt, mods) ==
  LET from(k) == {u \in DOMAIN mods : k \in mods[u]}
      touched == {k \in RefKeys : from(k) # {}}
      new == [k \in touched |->
                applyReferenceModificationsOf(
                  [list |-> rt.references[k], shared |-> k \in rt.shared,
                   database |-> rt.database[k]], from(k))]
  IN  [rt EXCEPT !.references = [k \in RefKeys |-> IF k \in touched THEN new[k].list ELSE @[k]],
                 !.database = [k \in RefKeys |-> IF k \in touched THEN new[k].database ELSE @[k]],
                 !.shared = {k \in @ : k \in touched => new[k].shared}]

\* UpdateReferences of the database with the references of a tracker: a list
\* without elements is removed, the others replace the ones of the database.
UpdateReferences(database, references) ==
  [k \in RefKeys |-> CASE references[k] = NoRefs -> database[k]
                       [] references[k] # NoRefs /\ references[k].l = <<>> -> NoRefs
                       [] OTHER -> references[k]]

-----------------------------------------------------------------------------
(* The tracker.                                                            *)

newReferenceTracker(database) ==
  [references |-> [k \in RefKeys |-> NoRefs], tracked |-> {}, added |-> {}, deleted |-> {},
   database |-> database, shared |-> {}]

\* The references to the rows us, once, from the database: GetReferences hands
\* out its slices.
initReferences(rt, us) ==
  LET known == {k \in RefKeys : k[2] \in us \ rt.tracked /\ rt.database[k] # NoRefs}
  IN  [rt EXCEPT !.references = [k \in RefKeys |-> IF k \in known THEN rt.database[k] ELSE @[k]],
                 !.shared = @ \cup known,
                 !.tracked = @ \cup us]

\* The lists that a row update modifies.
processRowUpdate(ru2) ==
  getReferenceModificationsFromRow(IF ru2.op = "delete" THEN ru2.Old ELSE ru2.row, ru2.Old)

processModelUpdates(rt, updates) ==
  LET op(u) == updates[u].rowUpdate2.op
      inserted == {u \in Updated(updates) : op(u) = "insert" /\ ~isRoot(u)}
      noted == [rt EXCEPT !.deleted = @ \cup {u \in Updated(updates) : op(u) = "delete"},
                          !.added = @ \cup inserted,
                          !.tracked = @ \cup inserted]
      mods == [u \in Updated(updates) |-> processRowUpdate(updates[u].rowUpdate2)]
  IN  applyReferenceModifications(initReferences(noted, {k[2] : k \in UNION Range(mods)}), mods)

\* The model of a row that was not deleted: from the updates the tracker was
\* started with, else from the rows of the database.
getModel(rt, updates, rows, u) ==
  IF u \in rt.deleted THEN NoModel
  ELSE IF u \in UUID /\ updates[u].new # NoModel THEN updates[u].new
  ELSE IF u \in UUID THEN rows[u]
  ELSE NoModel

rowExists(rt, updates, rows, u) == getModel(rt, updates, rows, u) # NoModel

Referrers(rt, k) == IF rt.references[k] = NoRefs THEN {} ELSE Range(rt.references[k].l)

\* Variant: rows that the transaction deletes count as rows.
integrityViolationInDatabase(rt, updates, rows) ==
  \E k \in RefKeys :
    /\ isStrong(k) /\ Referrers(rt, k) # {}
    /\ ~rowExists([rt EXCEPT !.deleted = {}], updates, rows, k[2])

\* A strong reference to a row that does not exist.
integrityViolation(rt, updates, rows) ==
  \E k \in RefKeys :
    isStrong(k) /\ Referrers(rt, k) # {} /\ ~rowExists(rt, updates, rows, k[2])

\* Variant: rows that were inserted and never referenced are kept.
unreferencedTracked(rt, updates, rows) ==
  {u \in UUID \ rt.deleted :
     /\ ~isRoot(u)
     /\ rowExists(rt, updates, rows, u)
     /\ \E k \in RefKeys : k[2] = u /\ isStrong(k) /\ rt.references[k] # NoRefs
     /\ \A k \in RefKeys : k[2] = u /\ isStrong(k) => Referrers(rt, k) = {}}

\* The rows outside the root set that lost their last strong reference, or were
\* inserted and never got one.
unreferenced(rt, updates, rows) ==
  {u \in UUID \ rt.deleted :
     /\ ~isRoot(u)
     /\ \/ u \in rt.added
        \/ /\ rowExists(rt, updates, rows, u)
           /\ \E k \in RefKeys : k[2] = u /\ isStrong(k) /\ rt.references[k] # NoRefs
     /\ \A k \in RefKeys : k[2] = u /\ isStrong(k) => Referrers(rt, k) = {}}

\* processStrongReferences: the tracker and the updates, or Error.
processStrongReferences(rt0, updates, rows) ==
  LET rt == initReferences(rt0, rt0.deleted)
      garbage == unreferenced(rt, updates, rows)
      deleteRow(u) == addDeleteOperation(getModel(rt, updates, rows, u))
  IN  [rt |-> [rt EXCEPT !.deleted = @ \cup garbage],
       err |-> integrityViolation(rt, updates, rows),
       updates |-> [u \in UUID |-> IF u \in garbage THEN deleteRow(u) ELSE NoUpdate]]

\* The entries of the map m that refer to row to, in its keys or its values.
copyMapKeyValues(m, fromValue, to) ==
  [k \in {k \in DOMAIN m : IF fromValue THEN m[k] = to ELSE k = to} |-> m[k]]

\* What is deleted from the column c of model m because of the weak references
\* gone: elements of a set or entries of a map.
weakRemoval(m, c, gone) ==
  IF IsMap(Kind[c])
    THEN [k \in UNION {DOMAIN copyMapKeyValues(m[c], g[1][2], g[2]) : g \in gone} |-> m[c][k]]
    ELSE {g[2] : g \in gone}

removalSize(m, c, gone) ==
  Cardinality(IF IsMap(Kind[c]) THEN DOMAIN weakRemoval(m, c, gone) ELSE weakRemoval(m, c, gone))

columnSize(m, c) == Cardinality(IF IsMap(Kind[c]) THEN DOMAIN m[c] ELSE m[c])

\* updateRow: the deletions from sets and maps are the mutations of one
\* operation, the optionals are cleared by another.
mutationsOf(m, gone) ==
  LET columns == {c \in {g[1][1] : g \in gone} : ~isAtomic(c)}
      order == CHOOSE o \in Orders(columns) : TRUE
  IN  [i \in 1..Cardinality(columns) |->
         [column |-> order[i], mutator |-> "delete",
          operand |-> weakRemoval(m, order[i], {g \in gone : g[1][1] = order[i]})]]

cleared(gone) == [c \in {c \in {g[1][1] : g \in gone} : isAtomic(c)} |-> {}]

\* Both operations start from m.
updateRow(m, gone) ==
  LET mutation(l) == IF l = <<>> THEN NoUpdate ELSE addMutateOperation(m, l)
      clearing(row) == IF DOMAIN row = {} THEN NoUpdate ELSE addUpdateOperation(m, row)
      both(a, b) == IF a = Error \/ b = Error THEN Error ELSE addUpdate(a, b)
  IN  both(mutation(mutationsOf(m, gone)), clearing(cleared(gone)))

\* Deleting the weak references leaves a column with too few elements.
tooShort(m, gone) ==
  \E c \in {g[1][1] : g \in gone} :
    /\ MinLen[c] > 0
    /\ \/ isAtomic(c)
       \/ columnSize(m, c) - removalSize(m, c, {g \in gone : g[1][1] = c}) < MinLen[c]

processWeakReferences(rt0, updates, rows) ==
  LET rt == initReferences(rt0, rt0.deleted)
      dangling == {k \in RefKeys : ~isStrong(k) /\ ~rowExists(rt, updates, rows, k[2])}
      gone(u) == {k \in dangling : u \in Referrers(rt, k)}
      affected == {u \in UUID \ rt.deleted : gone(u) # {}}
      model(u) == getModel(rt, updates, rows, u)
  IN  [rt |-> rt,
       err |-> \E u \in affected : model(u) = NoModel \/ tooShort(model(u), gone(u)),
       twice |-> \E u \in affected :
                   DOMAIN cleared(gone(u)) # {} /\ mutationsOf(model(u), gone(u)) # <<>>,
       updates |-> [u \in UUID |-> IF u \in affected /\ model(u) # NoModel
                                     THEN updateRow(model(u), gone(u))
                                     ELSE NoUpdate]]

\* One turn of processReferencesLoop: the tracker, the updates that the turn
\* adds, whether it found a violation and whether it made two updates of one row
\* from the same model.
processReferencesTurn(rt, updates, rows, pending) ==
  LET turn(strong, weak, new) ==
        [rt |-> weak.rt, updates |-> new, err |-> strong.err \/ weak.err \/ Failed(new),
         twice |-> weak.twice]
      merged(strong, weak) == turn(strong, weak, Merge(strong.updates, weak.updates))
      afterStrong(strong) == merged(strong, processWeakReferences(strong.rt, updates, rows))
  IN  afterStrong(processStrongReferences(processModelUpdates(rt, pending), updates, rows))

=============================================================================

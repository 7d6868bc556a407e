---------------------------- MODULE ModelUpdates ----------------------------
(***************************************************************************)
(* Updates of rows (updates/updates.go, updates/merge.go): what an insert, *)
(* update, mutate or delete operation of a transaction does to one row,    *)
(* how the updates of several operations are merged into one, and what a   *)
(* client makes of the update2 notification built from it.                 *)
(*                                                                         *)
(* A model is a function from the columns of its table to native values.   *)
(* A row is the OVSDB notation of a model: a function from some of the     *)
(* columns, in which an optional is a set of at most one element.  A row   *)
(* made from a model leaves out the columns that have their default value. *)
(*                                                                         *)
(* A rowUpdate2 is a record with the operation it reports (op), the row it *)
(* carries (row: the inserted row, or the modifications) and the old and   *)
(* the new row, which the server keeps beside it.  A modelUpdate has the   *)
(* old and the new model and the rowUpdate2.                               *)
(***************************************************************************)
EXTENDS Difference, Sequences

CONSTANTS
  Column,         \* the columns of the tables
  Kind,           \* Kind[c]: atom, integer, optional, set or map
  Immutable,      \* the columns the schema declares not mutable
  ZeroAtom,       \* ZeroAtom[c]: the zero value of the atom column c
  Nil,            \* the native empty value of an optional column
  NoModel,        \* a nil model
  Error           \* an operation on updates returned an error

ASSUME KindAssumption == Kind \in [Column -> Kinds]

\* A nil row, a nil rowUpdate2 and the empty modelUpdate.
NoRowUpdate == [op |-> "none", row |-> Absent, Old |-> Absent, New |-> Absent]
NoUpdate == [old |-> NoModel, new |-> NoModel, rowUpdate2 |-> NoRowUpdate]

EmptyRow == EmptyMap

-----------------------------------------------------------------------------
(* Between models and rows (mapper.go, bindings.go).                       *)

Default(c) ==
  CASE IsSet(Kind[c]) -> {}
    [] IsMap(Kind[c]) -> EmptyMap
    [] Kind[c] = "optional" -> Nil
    [] OTHER -> ZeroAtom[c]

IsDefaultValue(c, v) == v = Default(c)

NativeToOvs(c, v) ==
  IF Kind[c] = "optional" THEN (IF v = Nil THEN {} ELSE {v}) ELSE v

OvsToNative(c, v) ==
  IF Kind[c] = "optional"
    THEN IF v = {} THEN Nil ELSE CHOOSE x \in v : TRUE
    ELSE v

\* Mapper.NewRow without a list of fields.
NewRow(m) ==
  [c \in {c \in DOMAIN m : ~IsDefaultValue(c, m[c])} |-> NativeToOvs(c, m[c])]

\* dbModel.NewModel, and GetRowData on the new model; model.CreateModel.
CreateModel(columns, row) ==
  [c \in columns |-> IF c \in DOMAIN row THEN OvsToNative(c, row[c]) ELSE Default(c)]

-----------------------------------------------------------------------------
(* updateOrModifyModel, once for each of its two uses.  An unknown column  *)
(* is ignored, and a change of an immutable column is an error.            *)

updateModel(m, row) ==
  LET known == DOMAIN row \cap DOMAIN m
      diff(c) == difference(Kind[c], m[c], OvsToNative(c, row[c]))
      changed == {c \in known : diff(c).changed}
  IN  [err |-> changed \cap Immutable # {},
       changed |-> changed # {},
       new |-> [c \in DOMAIN m |-> IF c \in known THEN OvsToNative(c, row[c]) ELSE m[c]],
       modify |-> [c \in changed |-> NativeToOvs(c, diff(c).value)]]

modifyModel(m, row) ==
  LET known == DOMAIN row \cap DOMAIN m
      applied(c) == applyDifference(Kind[c], m[c], OvsToNative(c, row[c]))
      changed == {c \in known : applied(c).changed}
  IN  [err |-> changed \cap Immutable # {},
       changed |-> changed # {},
       new |-> [c \in DOMAIN m |-> IF c \in known THEN applied(c).value ELSE m[c]]]

-----------------------------------------------------------------------------
(* Merging the updates of one row (merge.go).                              *)

\* A column that both modifications have.  An optional is merged as an atom,
\* and a column that the original row leaves out had its default value.
mergedColumn(o, a, b, c) ==
  LET original == IF c \in DOMAIN o THEN o[c] ELSE NativeToOvs(c, Default(c))
  IN  mergeDifference(Kind[c], original, a[c], b[c])

\* Variant: a column that is back at its original value stays in the result.
mergeModifyRowKeeping(o, a, b) ==
  [c \in DOMAIN a \cup DOMAIN b |->
     IF c \notin DOMAIN b THEN a[c]
     ELSE IF c \notin DOMAIN a THEN b[c]
     ELSE mergedColumn(o, a, b, c).value]

mergeModifyRow(o, a, b) ==
  LET restoredColumns ==
        {c \in DOMAIN a \cap DOMAIN b : ~mergedColumn(o, a, b, c).changed}
  IN  [c \in (DOMAIN a \cup DOMAIN b) \ restoredColumns |->
         IF c \notin DOMAIN b THEN a[c]
         ELSE IF c \notin DOMAIN a THEN b[c]
         ELSE mergedColumn(o, a, b, c).value]

\* Variant: a second modification leaves the new row of the first one.
mergeRowUpdateStaleNew(a, b) ==
  CASE b.op = "none" -> a
    [] a.op = "none" -> b
    [] a.op = "insert" /\ b.op = "modify" -> [a EXCEPT !.New = b.New, !.row = b.New]
    [] a.op = "modify" /\ b.op = "modify" ->
         LET modify == mergeModifyRow(a.Old, a.row, b.row)
         IN  IF DOMAIN modify = {} THEN NoRowUpdate ELSE [a EXCEPT !.row = modify]
    [] a.op = "insert" /\ b.op = "delete" -> NoRowUpdate
    [] OTHER -> [b EXCEPT !.Old = a.Old]

mergeRowUpdate(a, b) ==
  CASE b.op = "none" -> a
    [] a.op = "none" /\ b.op # "none" -> b
    [] a.op = "insert" /\ b.op = "modify" -> [a EXCEPT !.New = b.New, !.row = b.New]
    [] a.op = "modify" /\ b.op = "modify" ->
         LET modify == mergeModifyRow(a.Old, a.row, b.row)
         IN  IF DOMAIN modify = {}
               THEN NoRowUpdate
               ELSE [a EXCEPT !.New = b.New, !.row = modify]
    [] a.op = "insert" /\ b.op = "delete" -> NoRowUpdate
    [] a.op \in {"modify", "delete"} /\ b.op = "delete" ->
         [op |-> "delete", row |-> b.row, Old |-> a.Old, New |-> Absent]
    [] OTHER -> Error

\* Variant: an insertion cannot be followed by an update.
mergeModelsNoInsert(a, b) ==
  CASE b.old = NoModel /\ b.new = NoModel -> [old |-> a.old, new |-> a.new]
    [] a.old = NoModel /\ a.new = NoModel -> [old |-> b.old, new |-> b.new]
    [] a.old # NoModel /\ b.old # NoModel -> [old |-> a.old, new |-> b.new]
    [] OTHER -> Error

\* The model half of merge: the sequences of updates it supports.
mergeModels(a, b) ==
  LET empty(u) == u.old = NoModel /\ u.new = NoModel
  IN  CASE empty(b) -> [old |-> a.old, new |-> a.new]
        [] empty(a) /\ ~empty(b) -> [old |-> b.old, new |-> b.new]
        [] a.new # NoModel /\ b.old # NoModel /\ b.new # NoModel -> [old |-> a.old, new |-> b.new]
        [] ~empty(a) /\ b.old # NoModel /\ b.new = NoModel -> [old |-> a.old, new |-> NoModel]
        [] OTHER -> Error

merge(a, b) ==
  LET merged(models, ru2) ==
        IF models = Error \/ ru2 = Error THEN Error
        ELSE IF ru2 = NoRowUpdate THEN NoUpdate
        ELSE [old |-> models.old, new |-> models.new, rowUpdate2 |-> ru2]
  IN  merged(mergeModels(a, b), mergeRowUpdate(a.rowUpdate2, b.rowUpdate2))

\* addUpdate on the update a that a set of updates has for the row.  An update
\* that amounts to nothing is removed from the set: it is NoUpdate.
addUpdate(a, b) == merge(a, b)

-----------------------------------------------------------------------------
(* The update of one row by one operation (AddOperation).  current is the  *)
(* model of the row before the operation.                                  *)

addInsertOperation(columns, row) ==
  LET m == CreateModel(columns, row)
  IN  [old |-> NoModel, new |-> m,
       rowUpdate2 |-> [op |-> "insert", row |-> NewRow(m), Old |-> Absent, New |-> NewRow(m)]]

modifyUpdate(old, new, delta) ==
  [old |-> old, new |-> new,
   rowUpdate2 |-> [op |-> "modify", row |-> delta, Old |-> NewRow(old), New |-> NewRow(new)]]

addUpdateOperation(old, row) ==
  LET made(u) == IF u.err THEN Error
                 ELSE IF u.changed THEN modifyUpdate(old, u.new, u.modify)
                 ELSE NoUpdate
  IN  made(updateModel(old, row))

\* ValidateMutation: which mutators a column takes.  An optional takes none, as
\* its native type is a pointer; sets and maps take no arithmetic, and no atom
\* but an integer (or a real) takes anything.
ValidateMutation(c, mutator) ==
  /\ c \notin Immutable
  /\ CASE IsSet(Kind[c]) -> mutator \in {"insert", "delete"}
       [] IsMap(Kind[c]) -> mutator \in {"insert", "delete", "deleteKeys"}
       [] Kind[c] = "integer" -> mutator \in {"+=", "-=", "*=", "/=", "%="}
       [] OTHER -> FALSE

\* One mutation, on the model and the differences that the mutations before it
\* have left: st is a record with both.
mutated(old, st, mutation) ==
  LET c == mutation.column
      r == mutate(Kind[c], st.new[c], mutation.mutator, mutation.operand)
      d == mergeDifference(Kind[c], old[c],
                           IF c \in DOMAIN st.differences THEN st.differences[c] ELSE Absent,
                           r.diff)
  IN  [new |-> [st.new EXCEPT ![c] = r.value],
       differences |->
         IF d.changed
           THEN [x \in DOMAIN st.differences \cup {c} |->
                   IF x = c THEN d.value ELSE st.differences[x]]
           ELSE [x \in DOMAIN st.differences \ {c} |-> st.differences[x]]]

\* The mutations of an operation, applied one after the other.
mutatedBy(old, mutations) ==
  LET upTo[n \in 0..Len(mutations)] ==
        IF n = 0 THEN [new |-> old, differences |-> EmptyMap]
        ELSE IF mutations[n].column \in DOMAIN old THEN mutated(old, upTo[n - 1], mutations[n])
        ELSE upTo[n - 1]
  IN  upTo[Len(mutations)]

addMutateOperation(old, mutations) ==
  LET made(r) == IF DOMAIN r.differences = {} THEN NoUpdate
                 ELSE modifyUpdate(old, r.new,
                        [c \in DOMAIN r.differences |-> NativeToOvs(c, r.differences[c])])
  IN  IF \E n \in DOMAIN mutations :
           /\ mutations[n].column \in DOMAIN old
           /\ ~ValidateMutation(mutations[n].column, mutations[n].mutator)
        THEN Error
        ELSE made(mutatedBy(old, mutations))

addDeleteOperation(old) ==
  [old |-> old, new |-> NoModel,
   rowUpdate2 |-> [op |-> "delete", row |-> EmptyRow, Old |-> NewRow(old), New |-> Absent]]

-----------------------------------------------------------------------------
(* The update a notification makes on the receiving side.                  *)

\* The update ru of a row that becomes what updateOrModifyModel returned in u.
changeOf(current, u, ru) ==
  IF u.err THEN Error
  ELSE IF u.changed THEN [old |-> current, new |-> u.new, rowUpdate2 |-> ru]
  ELSE NoUpdate

\* AddRowUpdate2.  A row that is not there when a modification arrives is the
\* caller's error, so current is a model then.  Whatever is neither an insertion
\* nor a modification deletes the row.
AddRowUpdate2(columns, current, ru2) ==
  CASE ru2.op = "insert" ->
         [old |-> NoModel, new |-> CreateModel(columns, ru2.row), rowUpdate2 |-> ru2]
    [] ru2.op = "modify" -> changeOf(current, modifyModel(current, ru2.row), ru2)
    [] OTHER -> [old |-> current, new |-> NoModel, rowUpdate2 |-> ru2]

\* FromRowUpdate2: a plain update has the old and the new row only.
FromRowUpdate2(ru2) == [op |-> "plain", row |-> Absent, Old |-> ru2.Old, New |-> ru2.New]

\* AddRowUpdate, on the old and the new row of a plain update notification.
AddRowUpdate(columns, current, ru) ==
  CASE ru.Old = Absent /\ ru.New # Absent ->
         [old |-> NoModel, new |-> CreateModel(columns, ru.New), rowUpdate2 |-> ru]
    [] ru.Old # Absent /\ ru.New # Absent ->
         changeOf(current, updateModel(current, ru.New), ru)
    [] OTHER -> [old |-> current, new |-> NoModel, rowUpdate2 |-> ru]

=============================================================================

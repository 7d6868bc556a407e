-------------------------- MODULE RowUpdatesProofs --------------------------
(***************************************************************************)
(* The update that a transaction accumulates for a row is the one update   *)
(* from the row as it was to the row as it is, for any schema, any rows    *)
(* and mutations and any number of operations.                             *)
(***************************************************************************)
EXTENDS RowUpdates, ModelUpdatesProofs

USE KindAssumption DEF Kinds

-----------------------------------------------------------------------------
(* The inductive invariant: at every moment the merged update is the       *)
(* update from the committed model to the current one.                     *)

RowInv ==
  /\ before \in Models(Column) /\ now \in Models(Column)
  /\ update = UpdateBetween(before, now)
  /\ Allowed(before, now)
  /\ failed = "merge" => before # NoModel /\ now = NoModel

\* The update of an operation is merged.
LEMMA OperationStep ==
  ASSUME RowInv, NEW u, IsUpdateOf(Column, now, u), operation(u)
  PROVE  RowInv'
<1> USE DEF RowInv
<1>1. CASE u = Error
  <2>1. failed' = "operation" /\ UNCHANGED <<before, now, update>>
    BY <1>1, Zenon DEF operation
  <2> QED
    BY <2>1, Zenon
<1>2. CASE u # Error
  <2>1. PICK n \in Models(Column) : u = UpdateBetween(now, n) /\ Allowed(now, n)
    BY <1>2, Zenon DEF IsUpdateOf
  <2>2. addUpdate(update, u) = IF before # NoModel /\ now = NoModel /\ n # NoModel THEN Error
                               ELSE UpdateBetween(before, n)
    <3>1. Column \in SUBSET Column
      BY Zenon
    <3> QED
      BY <2>1, <3>1, MergeLaw
  <2>3. (IF u = NoUpdate THEN now ELSE u.new) = n
    BY <2>1, RowUpdateKinds, UpdateModels
  <2>4. CASE before # NoModel /\ now = NoModel /\ n # NoModel
    <3>1. addUpdate(update, u) = Error
      BY <2>2, <2>4, Zenon
    <3>2. failed' = "merge" /\ UNCHANGED <<before, now, update>>
      BY <1>2, <3>1, Zenon DEF operation
    <3> QED
      BY <2>4, <3>2, Zenon
  <2>5. CASE ~(before # NoModel /\ now = NoModel /\ n # NoModel)
    <3>1. addUpdate(update, u) = UpdateBetween(before, n) /\ addUpdate(update, u) # Error
      BY <2>2, <2>5, NoError, Zenon
    <3>2. update' = UpdateBetween(before, n) /\ now' = n /\ UNCHANGED <<before, failed>> /\ failed = "no"
      BY <1>2, <2>3, <3>1, Zenon DEF operation
    <3>3. Allowed(before, n)
      BY <2>1, <2>5, AllowedTogether, Zenon
    <3> QED
      BY <3>2, <3>3, Zenon
  <2> QED
    BY <2>4, <2>5, Zenon
<1> QED
  BY <1>1, <1>2, Zenon

\* Every step keeps the invariant.
LEMMA RowInvStep ==
  ASSUME RowInv, [Next]_vars
  PROVE  RowInv'
<1>0. Column \in SUBSET Column
  BY Zenon
<1>1. now # NoModel => now \in ModelOn(Column)
  BY Zenon DEF RowInv, Models
<1>2. ASSUME NEW row \in Rows, Insert(row) PROVE RowInv'
  <2>1. now = NoModel /\ operation(addInsertOperation(Column, row))
    BY <1>2, Zenon DEF Insert
  <2>2. IsUpdateOf(Column, NoModel, addInsertOperation(Column, row))
    BY <1>0, InsertIs, OperationsAssumption, Zenon
  <2> QED
    BY <2>1, <2>2, OperationStep, Zenon
<1>3. ASSUME NEW row \in Rows, Update(row) PROVE RowInv'
  <2>1. now # NoModel /\ operation(addUpdateOperation(now, row))
    BY <1>3, Zenon DEF Update
  <2>2. IsUpdateOf(Column, now, addUpdateOperation(now, row))
    BY <1>0, <1>1, <2>1, UpdateIs, OperationsAssumption, Zenon
  <2> QED
    BY <2>1, <2>2, OperationStep, Zenon
<1>4. ASSUME NEW mutations \in MutationLists, Mutate(mutations) PROVE RowInv'
  <2>1. now # NoModel /\ operation(addMutateOperation(now, mutations))
    BY <1>4, Zenon DEF Mutate
  <2>2. IsUpdateOf(Column, now, addMutateOperation(now, mutations))
    BY <1>0, <1>1, <2>1, MutateIs, OperationsAssumption, Zenon
  <2> QED
    BY <2>1, <2>2, OperationStep, Zenon
<1>5. CASE Delete
  BY <1>1, <1>5, DeleteIs, OperationStep, Zenon DEF Delete
<1>6. CASE Commit
  <2>1. UpdateBetween(now, now) = NoUpdate /\ Allowed(now, now)
    BY Zenon DEF UpdateBetween, Allowed, Changed
  <2> QED
    BY <1>6, <2>1, Zenon DEF Commit, RowInv
<1>7. CASE Fail
  <2>1. UpdateBetween(before, before) = NoUpdate /\ Allowed(before, before)
    BY Zenon DEF UpdateBetween, Allowed, Changed
  <2> QED
    BY <1>7, <2>1, Zenon DEF Fail, RowInv
<1>8. CASE UNCHANGED vars
  BY <1>8, Zenon DEF vars, RowInv
<1> QED
  BY <1>2, <1>3, <1>4, <1>5, <1>6, <1>7, <1>8, Zenon DEF Next

\* The invariant holds throughout.
LEMMA RowInvariant == Spec => []RowInv
<1>1. Init => RowInv
  BY Zenon DEF Init, RowInv, Models, UpdateBetween, Allowed
<1> QED
  BY <1>1, RowInvStep, PTL DEF Spec


-----------------------------------------------------------------------------
(* The properties.                                                         *)

\* At every moment of every transaction, the merged update2 applied to the row as
\* it was gives the row as it is: mergeDifference, mergeModifyRow and
\* mergeRowUpdate lose nothing of any sequence of operations.
THEOREM MergedUpdateFaithful == Spec => []UpdateFaithful
<1>1. ASSUME RowInv PROVE UpdateFaithful
  <2>1. before \in Models(Column) /\ now \in Models(Column) /\ update = UpdateBetween(before, now) /\ Allowed(before, now)
    BY <1>1, Zenon DEF RowInv
  <2>2. CASE before = now
    <3>1. update = NoUpdate /\ NoUpdate # Error
      BY <2>1, <2>2, NoError, RowUpdateKinds
    <3> QED
      BY <2>2, <3>1, Zenon DEF UpdateFaithful, received
  <2>3. CASE before # now
    <3>1. update # NoUpdate /\ update.rowUpdate2 = RowUpdateBetween(before, now)
      BY <2>1, <2>3, RowUpdateKinds, UpdateModels
    <3> DEFINE got == AddRowUpdate2(Column, before, RowUpdateBetween(before, now))
    <3>2. got # Error /\ got # NoUpdate /\ got.new = now
      BY <2>1, <2>3, UpdateReceived, Zenon
    <3> HIDE DEF got
    <3>3. received = CASE got = Error -> Error [] got = NoUpdate -> before [] OTHER -> got.new
      BY <3>1, Zenon DEF received, got
    <3> QED
      BY <3>2, <3>3, Zenon DEF UpdateFaithful
  <2> QED
    BY <2>2, <2>3, Zenon
<1> QED
  BY <1>1, RowInvariant, PTL

\* A transaction without a net effect on a row has no update of it, and one with
\* an effect has: addUpdate removes exactly the updates that amount to nothing.
THEOREM UpdateIffChanged == Spec => []NoEmptyUpdate
<1>1. RowInv => NoEmptyUpdate
  BY RowUpdateKinds DEF RowInv, NoEmptyUpdate
<1> QED
  BY <1>1, RowInvariant, PTL

\* The plain update, from the old and the new row alone, gives every column that
\* is not at its default value, and insertions and deletions completely.
THEOREM PlainUpdateFollows == Spec => []PlainUpdateFaithful
<1>1. ASSUME RowInv, update # NoUpdate
      PROVE  LET plain == AddRowUpdate(Column, before, FromRowUpdate2(update.rowUpdate2))
                 got == IF plain = NoUpdate THEN before ELSE plain.new
             IN  IF now = NoModel THEN got = NoModel
                 ELSE \A c \in Column : got[c] = now[c] \/ IsDefaultValue(c, now[c])
  <2> DEFINE r == RowUpdateBetween(before, now)
             ru == FromRowUpdate2(update.rowUpdate2)
             plain == AddRowUpdate(Column, before, ru)
             got == IF plain = NoUpdate THEN before ELSE plain.new
  <2>1. /\ before \in Models(Column) /\ now \in Models(Column) /\ before # now /\ update.rowUpdate2 = r
        /\ Allowed(before, now)
    BY <1>1, RowUpdateKinds, UpdateModels DEF RowInv
  <2>2. ru.Old = r.Old /\ ru.New = r.New
    BY <2>1, Zenon DEF FromRowUpdate2
  <2>3. CASE before = NoModel
    <3>1. now \in ModelOn(Column) /\ now # NoModel /\ r.Old = Absent /\ r.New = NewRow(now)
      BY <2>1, <2>3, Zenon DEF Models, RowUpdateBetween
    <3>2. NewRow(now) # Absent /\ CreateModel(Column, NewRow(now)) = now
      BY <3>1, RowTypes, ModelOfItsRow, Zenon
    <3> HIDE DEF r, ru
    <3>3. plain = [old |-> NoModel, new |-> now, rowUpdate2 |-> ru]
      BY <2>2, <3>1, <3>2, Zenon DEF AddRowUpdate
    <3> HIDE DEF plain
    <3>4. plain # NoUpdate /\ plain.new = now
      BY <3>1, <3>3, Zenon DEF NoUpdate
    <3> QED
      BY <3>1, <3>4, Zenon DEF plain, ru
  <2>4. CASE before # NoModel /\ now = NoModel
    <3>1. r.New = Absent
      BY <2>1, <2>4, Zenon DEF RowUpdateBetween
    <3> HIDE DEF r, ru
    <3>2. plain = [old |-> before, new |-> NoModel, rowUpdate2 |-> ru]
      BY <2>2, <3>1, Zenon DEF AddRowUpdate
    <3> HIDE DEF plain
    <3>3. plain # NoUpdate /\ plain.new = NoModel
      BY <2>4, <3>2, Zenon DEF NoUpdate
    <3> QED
      BY <2>4, <3>3, Zenon DEF plain, ru
  <2>5. CASE before # NoModel /\ now # NoModel
    <3> DEFINE u == updateModel(before, NewRow(now))
    <3>1. before \in ModelOn(Column) /\ now \in ModelOn(Column) /\ r.Old = NewRow(before) /\ r.New = NewRow(now)
      BY <2>1, <2>5, Zenon DEF Models, RowUpdateBetween
    <3>2. NewRow(before) # Absent /\ NewRow(now) # Absent
      BY <3>1, RowTypes, Zenon
    <3>3. /\ u.new \in ModelOn(Column)
          /\ \A c \in Column : u.new[c] = IF c \in DOMAIN NewRow(now)
                                            THEN OvsToNative(c, NewRow(now)[c]) ELSE before[c]
          /\ u.changed <=> before # u.new
          /\ u.err <=> Changed(before, u.new) \cap Immutable # {}
      BY <3>1, NewRowIsRow, UpdateModelIs
    <3>4. \A c \in Column : u.new[c] = IF IsDefaultValue(c, now[c]) THEN before[c] ELSE now[c]
      BY <3>1, <3>3, NewRowColumns, NotationRoundTrip, ModelType DEF IsDefaultValue
    <3> HIDE DEF r, ru, u
    <3>5. ~u.err
      <4>1. Changed(before, now) = {c \in Column : before[c] # now[c]}
        BY <3>1, ChangedColumns
      <4>2. Changed(before, u.new) = {c \in Column : before[c] # u.new[c]}
        BY <3>1, ChangedColumns
      <4>3. Changed(before, now) \cap Immutable = {}
        BY <2>1, <2>5, Zenon DEF Allowed
      <4> QED
        BY <3>3, <3>4, <4>1, <4>2, <4>3, Zenon
    <3>6. plain = changeOf(before, u, ru)
      BY <2>2, <3>1, <3>2, Zenon DEF AddRowUpdate, u
    <3>7. got = u.new
      <4>1. CASE u.changed
        <5>1. plain = [old |-> before, new |-> u.new, rowUpdate2 |-> ru]
          BY <3>5, <3>6, <4>1, Zenon DEF changeOf
        <5> HIDE DEF plain
        <5>2. plain # NoUpdate /\ plain.new = u.new
          BY <2>5, <5>1, Zenon DEF NoUpdate
        <5> QED
          BY <5>2, Zenon
      <4>2. CASE ~u.changed
        <5>1. plain = NoUpdate
          BY <3>5, <3>6, <4>2, Zenon DEF changeOf
        <5> QED
          BY <3>3, <4>2, <5>1, Zenon
      <4> QED
        BY <4>1, <4>2, Zenon
    <3> HIDE DEF got
    <3>8. \A c \in Column : got[c] = now[c] \/ IsDefaultValue(c, now[c])
      BY <3>4, <3>7, Zenon
    <3> QED
      BY <2>5, <3>8, Zenon DEF got, plain, ru
  <2> QED
    BY <2>3, <2>4, <2>5, Zenon
<1>2. RowInv => PlainUpdateFaithful
  BY <1>1, Zenon DEF PlainUpdateFaithful
<1> QED
  BY <1>2, RowInvariant, PTL

\* Whatever the sequence of operations, merge refuses none but an insertion of a
\* row that the transaction has deleted.
THEOREM MergeRefusesReinsertOnly == Spec => []OnlyReinsertRefused
<1>1. RowInv => OnlyReinsertRefused
  BY RowUpdateKinds, UpdateModels DEF RowInv, OnlyReinsertRefused
<1> QED
  BY <1>1, RowInvariant, PTL

=============================================================================

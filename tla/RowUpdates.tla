----------------------------- MODULE RowUpdates -----------------------------
(***************************************************************************)
(* The life of one row under transactions.  The operations of a            *)
(* transaction change the row one after the other, and their updates are   *)
(* merged into the one update that is committed and sent to the monitors   *)
(* (Transaction.Transact with ModelUpdates.Merge).                         *)
(*                                                                         *)
(* The hazard is the merge: the clients never see the single operations,   *)
(* only the merged difference, and apply it to the row they had before.    *)
(***************************************************************************)
EXTENDS SchemaTypes, FiniteSets

CONSTANTS
  Rows,           \* the rows that insert and update operations carry
  MutationLists,  \* the mutations that mutate operations carry
  Bounded(_)      \* bound: the models that operations may lead to

\* The contents of operations are of the types of the columns.
ASSUME OperationsAssumption ==
  /\ \A row \in Rows : IsRow(row)
  /\ \A mutations \in MutationLists : IsMutationListOn(Column, mutations)

VARIABLES
  before,         \* the committed model of the row, or NoModel
  now,            \* its model inside the transaction
  update,         \* the merged update of the row
  failed          \* why the transaction failed: no, operation or merge

vars == <<before, now, update, failed>>

Init ==
  /\ before = NoModel
  /\ now = NoModel
  /\ update = NoUpdate
  /\ failed = "no"

\* An operation made the update u of the row.  A transaction that fails is not
\* committed; the update it had is kept until the next one begins.
operation(u) ==
  /\ failed = "no"
  /\ u # Error => Bounded(u.new)
  /\ LET merged == IF u = Error THEN Error ELSE addUpdate(update, u)
     IN  IF merged = Error
           THEN /\ failed' = IF u = Error THEN "operation" ELSE "merge"
                /\ UNCHANGED <<before, now, update>>
           ELSE /\ update' = merged
                /\ now' = IF u = NoUpdate THEN now ELSE u.new
                /\ UNCHANGED <<before, failed>>

Insert(row) == now = NoModel /\ operation(addInsertOperation(Column, row))

Update(row) == now # NoModel /\ operation(addUpdateOperation(now, row))

Mutate(mutations) == now # NoModel /\ operation(addMutateOperation(now, mutations))

Delete == now # NoModel /\ operation(addDeleteOperation(now))

\* The transaction ends, with a commit or without, and the next one begins.
Commit ==
  /\ failed = "no"
  /\ before' = now
  /\ update' = NoUpdate
  /\ UNCHANGED <<now, failed>>

Fail ==
  /\ failed # "no"
  /\ now' = before
  /\ update' = NoUpdate
  /\ failed' = "no"
  /\ UNCHANGED before

Next ==
  \/ \E row \in Rows : Insert(row) \/ Update(row)
  \/ \E mutations \in MutationLists : Mutate(mutations)
  \/ Delete
  \/ Commit
  \/ Fail

Spec == Init /\ [][Next]_vars

-----------------------------------------------------------------------------
(* Properties.                                                             *)

\* The model a client holds after it applied the notification of the update to
\* the committed model.
received ==
  LET got == IF update = NoUpdate
               THEN NoUpdate
               ELSE AddRowUpdate2(Column, before, update.rowUpdate2)
  IN  CASE got = Error -> Error
        [] got = NoUpdate -> before
        [] OTHER -> got.new

\* At every moment of a transaction, whatever sequence of inserts, updates,
\* mutations and deletes has been merged, the merged update2 applied to the row
\* as it was before the transaction gives the row as it is now (mergeDifference,
\* mergeModifyRow and mergeRowUpdate against applyDifference in AddRowUpdate2).
UpdateFaithful == failed = "no" => received = now

\* Operations that cancel each other leave no update, and an update is kept only
\* when it changes the row: a transaction without a net effect notifies nobody
\* and an effective one is never dropped (addUpdate's cleanup of empty updates).
NoEmptyUpdate == failed = "no" => (update = NoUpdate <=> now = before)

\* The plain notification has the old and the new row.  Applied to the committed
\* model it gives every column of the current model that is not at its default
\* value (NewRow leaves the default values out, so a plain update cannot reset a
\* column; a deletion and an insertion are complete).
PlainUpdateFaithful ==
  failed = "no" /\ update # NoUpdate =>
    LET plain == AddRowUpdate(Column, before, FromRowUpdate2(update.rowUpdate2))
        got == IF plain = NoUpdate THEN before ELSE plain.new
    IN  IF now = NoModel THEN got = NoModel
        ELSE \A c \in Column : got[c] = now[c] \/ IsDefaultValue(c, now[c])

\* The only sequence of operations that merge refuses is an insertion of a row
\* that the same transaction deleted ("sequence of updates not supported").
OnlyReinsertRefused ==
  failed = "merge" => before # NoModel /\ now = NoModel /\ update.rowUpdate2.op = "delete"

=============================================================================

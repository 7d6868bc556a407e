--------------------------- MODULE RowCacheProofs ---------------------------
(***************************************************************************)
(* The invariants of RowCache, proved for any set of UUIDs, any contents   *)
(* and any indexes.  The definition of valueFromIndex is never expanded:   *)
(* all that matters is that an index value is a function of the row.       *)
(***************************************************************************)
EXTENDS RowCache, TLAPS

USE SchemaIndexAssumption, NoRowAssumption

\* The value of an index in a row is a possible key of the index maps.
LEMMA IndexValueType ==
  \A m \in Model, i \in Index : valueFromIndex(m, i) \in IndexValue
BY DEF IndexValue

\* Every operation of the row cache keeps its rows and index maps well typed.
THEOREM TypeCorrect == Spec => []TypeOK
<1>1. Init => TypeOK
  BY Zenon DEF Init, TypeOK, newIndexes
<1>2. TypeOK /\ [Next]_vars => TypeOK'
  <2> SUFFICES ASSUME TypeOK, [Next]_vars PROVE TypeOK'
    OBVIOUS
  <2> USE DEF TypeOK
  <2>create. ASSUME NEW u \in UUID, NEW m \in Model, NEW c \in BOOLEAN, Create(u, m, c)
             PROVE  TypeOK'
    BY <2>create, IndexValueType DEF Create, createdIndexes, added
  <2>update. ASSUME NEW u \in UUID, NEW m \in Model, NEW c \in BOOLEAN, Update(u, m, c)
             PROVE  TypeOK'
    <3>1. cache[u] \in Model
      BY <2>update DEF Update, Exists
    <3>2. indexes' \in [Index -> [IndexValue -> SUBSET UUID]]
      BY <2>update, <3>1, IndexValueType DEF Update, updatedIndexes, added
    <3>3. QED
      BY <2>update, <3>2 DEF Update
  <2>delete. ASSUME NEW u \in UUID, Delete(u)
             PROVE  TypeOK'
    <3>1. cache[u] \in Model
      BY <2>delete DEF Delete, Exists
    <3>2. QED
      BY <2>delete, <3>1, IndexValueType DEF Delete, deletedIndexes
  <2>fresh. CASE newRowCache
    BY <2>fresh, Zenon DEF newRowCache, newIndexes
  <2>stutter. CASE UNCHANGED vars
    BY <2>stutter DEF vars
  <2>all. QED
    BY <2>create, <2>update, <2>delete, <2>fresh, <2>stutter DEF Next
<1>3. QED
  BY <1>1, <1>2, PTL DEF Spec

-----------------------------------------------------------------------------
(* What an operation does to one index and to the rows, in the form the    *)
(* proofs below use.                                                       *)

\* Row u is added to the entry of its value.
Created(u, m, i) ==
  /\ valueFromIndex(m, i) \in IndexValue
  /\ indexes[i] \in [IndexValue -> SUBSET UUID]
  /\ cache \in [UUID -> Model \cup {NoRow}]
  /\ cache[u] = NoRow /\ m # NoRow
  /\ cache' = [cache EXCEPT ![u] = m]
  /\ i \in SchemaIndex =>
       indexes'[i] = [indexes[i] EXCEPT ![valueFromIndex(m, i)] = {u}]
  /\ i \notin SchemaIndex =>
       indexes'[i] = [indexes[i] EXCEPT ![valueFromIndex(m, i)] = @ \cup {u}]

\* An index is left alone if its value does not change; otherwise row u moves
\* from the entry of the old value to that of the new one.
Updated(u, m, i) ==
  LET oldVal == valueFromIndex(cache[u], i)
      newVal == valueFromIndex(m, i)
  IN  /\ oldVal \in IndexValue /\ newVal \in IndexValue
      /\ indexes[i] \in [IndexValue -> SUBSET UUID]
      /\ cache \in [UUID -> Model \cup {NoRow}]
      /\ cache[u] # NoRow /\ m # NoRow
      /\ cache' = [cache EXCEPT ![u] = m]
      /\ oldVal = newVal => indexes'[i] = indexes[i]
      /\ oldVal # newVal /\ i \in SchemaIndex =>
           indexes'[i] = [indexes[i] EXCEPT ![newVal] = {u}, ![oldVal] = {}]
      /\ oldVal # newVal /\ i \notin SchemaIndex =>
           indexes'[i] = [indexes[i] EXCEPT ![newVal] = @ \cup {u}, ![oldVal] = @ \ {u}]

\* Row u is taken out of the entry of its value.
Deleted(u, i) ==
  /\ valueFromIndex(cache[u], i) \in IndexValue
  /\ indexes[i] \in [IndexValue -> SUBSET UUID]
  /\ cache \in [UUID -> Model \cup {NoRow}]
  /\ cache[u] # NoRow
  /\ cache' = [cache EXCEPT ![u] = NoRow]
  /\ indexes'[i] = [indexes[i] EXCEPT ![valueFromIndex(cache[u], i)] = @ \ {u}]

\* Create has the effect Created on every index.
LEMMA CreateEffect ==
  ASSUME TypeOK, NEW u \in UUID, NEW m \in Model, NEW c \in BOOLEAN,
         Create(u, m, c), NEW i \in Index
  PROVE  Created(u, m, i)
<1>1. valueFromIndex(m, i) \in IndexValue
  BY IndexValueType
<1>2. QED
  BY <1>1, Zenon DEF Created, TypeOK, Create, Exists, createdIndexes, added

\* Update has the effect Updated on every index.
LEMMA UpdateEffect ==
  ASSUME TypeOK, NEW u \in UUID, NEW m \in Model, NEW c \in BOOLEAN,
         Update(u, m, c), NEW i \in Index
  PROVE  Updated(u, m, i)
<1>1. cache[u] \in Model
  BY DEF TypeOK, Update, Exists
<1>2. valueFromIndex(cache[u], i) \in IndexValue /\ valueFromIndex(m, i) \in IndexValue
  BY <1>1, IndexValueType
<1>3. QED
  BY <1>1, <1>2, Zenon DEF Updated, TypeOK, Update, Exists, updatedIndexes, added

\* Delete has the effect Deleted on every index.
LEMMA DeleteEffect ==
  ASSUME TypeOK, NEW u \in UUID, Delete(u), NEW i \in Index
  PROVE  Deleted(u, i)
<1>1. cache[u] \in Model
  BY DEF TypeOK, Delete, Exists
<1>2. valueFromIndex(cache[u], i) \in IndexValue
  BY <1>1, IndexValueType
<1>3. QED
  BY <1>1, <1>2 DEF Deleted, TypeOK, Delete, Exists, deletedIndexes

\* A fresh cache has no rows and no entries.
LEMMA FreshEffect ==
  ASSUME NEW i \in Index, NEW v \in IndexValue
  PROVE  /\ Init => indexes[i][v] = {} /\ RowsWith(cache, i, v) = {}
         /\ newRowCache => indexes'[i][v] = {} /\ RowsWith(cache', i, v) = {}
BY DEF Init, newRowCache, newIndexes, RowsWith

-----------------------------------------------------------------------------

\* In every reachable state a schema index entry is at most one row, which
\* exists and has the value: unchecked duplicates and handed-over values may
\* make entries disappear but never make one wrong.
THEOREM SchemaIndexSoundness == Spec => []SchemaIndexSound
<1>1. Init => SchemaIndexSound
  BY FreshEffect DEF SchemaIndexSound
<1>2. TypeOK /\ SchemaIndexSound /\ [Next]_vars => SchemaIndexSound'
  <2> SUFFICES ASSUME TypeOK, SchemaIndexSound, [Next]_vars,
                      NEW i \in SchemaIndex, NEW v \in IndexValue
               PROVE  /\ indexes'[i][v] \subseteq RowsWith(cache', i, v)
                      /\ \A x, w \in indexes'[i][v] : x = w
    BY DEF SchemaIndexSound
  <2>before. /\ indexes[i][v] \subseteq RowsWith(cache, i, v)
             /\ \A x, w \in indexes[i][v] : x = w
             /\ i \in Index
    BY DEF SchemaIndexSound
  <2> DEFINE Goal == /\ indexes'[i][v] \subseteq RowsWith(cache', i, v)
                     /\ \A x, w \in indexes'[i][v] : x = w
  <2>create. ASSUME NEW u \in UUID, NEW m \in Model, NEW c \in BOOLEAN, Create(u, m, c)
             PROVE  Goal
    <3>1. Created(u, m, i)
      BY <2>before, <2>create, CreateEffect
    <3>2. QED
      BY <2>before, <3>1 DEF Created, RowsWith
  <2>update. ASSUME NEW u \in UUID, NEW m \in Model, NEW c \in BOOLEAN, Update(u, m, c)
             PROVE  Goal
    <3>1. Updated(u, m, i)
      BY <2>before, <2>update, UpdateEffect
    <3>2. QED
      BY <2>before, <3>1 DEF Updated, RowsWith
  <2>delete. ASSUME NEW u \in UUID, Delete(u)
             PROVE  Goal
    <3>1. Deleted(u, i)
      BY <2>before, <2>delete, DeleteEffect
    <3>2. QED
      BY <2>before, <3>1 DEF Deleted, RowsWith
  <2>fresh. CASE newRowCache
    BY <2>before, <2>fresh, FreshEffect
  <2>stutter. CASE UNCHANGED vars
    BY <2>before, <2>stutter DEF vars
  <2>all. QED
    BY <2>create, <2>update, <2>delete, <2>fresh, <2>stutter DEF Next
<1>3. QED
  BY <1>1, <1>2, TypeCorrect, PTL DEF Spec

\* In every reachable state a client index is exactly the inverse of the rows.
THEOREM ClientIndexExactness == Spec => []ClientIndexExact
<1>1. Init => ClientIndexExact
  BY FreshEffect DEF ClientIndexExact
<1>2. TypeOK /\ ClientIndexExact /\ [Next]_vars => ClientIndexExact'
  <2> SUFFICES ASSUME TypeOK, ClientIndexExact, [Next]_vars,
                      NEW i \in Index \ SchemaIndex, NEW v \in IndexValue
               PROVE  indexes'[i][v] = RowsWith(cache', i, v)
    BY DEF ClientIndexExact
  <2>before. indexes[i][v] = RowsWith(cache, i, v)
    BY DEF ClientIndexExact
  <2>create. ASSUME NEW u \in UUID, NEW m \in Model, NEW c \in BOOLEAN, Create(u, m, c)
             PROVE  indexes'[i][v] = RowsWith(cache', i, v)
    <3>1. Created(u, m, i)
      BY <2>before, <2>create, CreateEffect
    <3>2. QED
      BY <2>before, <3>1 DEF Created, RowsWith
  <2>update. ASSUME NEW u \in UUID, NEW m \in Model, NEW c \in BOOLEAN, Update(u, m, c)
             PROVE  indexes'[i][v] = RowsWith(cache', i, v)
    <3>1. Updated(u, m, i)
      BY <2>before, <2>update, UpdateEffect
    <3>2. QED
      BY <2>before, <3>1 DEF Updated, RowsWith
  <2>delete. ASSUME NEW u \in UUID, Delete(u)
             PROVE  indexes'[i][v] = RowsWith(cache', i, v)
    <3>1. Deleted(u, i)
      BY <2>before, <2>delete, DeleteEffect
    <3>2. QED
      BY <2>before, <3>1 DEF Deleted, RowsWith
  <2>fresh. CASE newRowCache
    BY <2>fresh, FreshEffect, Zenon
  <2>stutter. CASE UNCHANGED vars
    BY <2>before, <2>stutter DEF vars
  <2>all. QED
    BY <2>create, <2>update, <2>delete, <2>fresh, <2>stutter DEF Next
<1>3. QED
  BY <1>1, <1>2, TypeCorrect, PTL DEF Spec

\* While every write checks, the schema indexes are exact as well.  The proof
\* needs SchemaIndexSound: Update empties the whole entry of the old value,
\* which loses nothing only because the entry names at most one row.
THEOREM CheckedIndexExactness == Spec => []CheckedIndexExact
<1>1. Init => CheckedIndexExact
  BY FreshEffect, Zenon DEF CheckedIndexExact
<1>2. TypeOK /\ SchemaIndexSound /\ CheckedIndexExact /\ [Next]_vars => CheckedIndexExact'
  <2> SUFFICES ASSUME TypeOK, SchemaIndexSound, CheckedIndexExact, [Next]_vars,
                      ~unchecked', NEW i \in SchemaIndex, NEW v \in IndexValue
               PROVE  indexes'[i][v] = RowsWith(cache', i, v)
    BY DEF CheckedIndexExact
  <2>before. ASSUME ~unchecked
             PROVE  /\ indexes[i][v] = RowsWith(cache, i, v)
                    /\ \A x, w \in indexes[i][v] : x = w
    BY <2>before DEF CheckedIndexExact, SchemaIndexSound
  <2>create. ASSUME NEW u \in UUID, NEW m \in Model, NEW c \in BOOLEAN, Create(u, m, c)
             PROVE  indexes'[i][v] = RowsWith(cache', i, v)
    <3>1. ~unchecked /\ c
      BY <2>create, Zenon DEF Create
    <3>2. indexes[i][valueFromIndex(m, i)] \in {{}, {u}}
      BY <2>create, <3>1 DEF Create, IndexExists
    <3>3. Created(u, m, i)
      BY <2>create, CreateEffect
    <3>4. QED
      BY <2>before, <3>1, <3>2, <3>3 DEF Created, RowsWith
  <2>update. ASSUME NEW u \in UUID, NEW m \in Model, NEW c \in BOOLEAN, Update(u, m, c)
             PROVE  indexes'[i][v] = RowsWith(cache', i, v)
    <3>1. ~unchecked /\ c
      BY <2>update, Zenon DEF Update
    <3>2. valueFromIndex(cache[u], i) # valueFromIndex(m, i)
             => indexes[i][valueFromIndex(m, i)] \in {{}, {u}}
      BY <2>update, <3>1 DEF Update, updateConflict
    <3>3. Updated(u, m, i)
      BY <2>update, UpdateEffect
    <3>4. QED
      BY <2>before, <3>1, <3>2, <3>3 DEF Updated, RowsWith
  <2>delete. ASSUME NEW u \in UUID, Delete(u)
             PROVE  indexes'[i][v] = RowsWith(cache', i, v)
    <3>1. ~unchecked
      BY <2>delete DEF Delete
    <3>2. Deleted(u, i)
      BY <2>delete, DeleteEffect
    <3>3. QED
      BY <2>before, <3>1, <3>2 DEF Deleted, RowsWith
  <2>fresh. CASE newRowCache
    BY <2>fresh, FreshEffect, Zenon
  <2>stutter. CASE UNCHANGED vars
    BY <2>before, <2>stutter DEF vars
  <2>all. QED
    BY <2>create, <2>update, <2>delete, <2>fresh, <2>stutter DEF Next
<1>3. QED
  BY <1>1, <1>2, TypeCorrect, SchemaIndexSoundness, PTL DEF Spec

=============================================================================

-------------------------- MODULE TableCacheProofs --------------------------
(***************************************************************************)
(* Applying notifications row by row, in any order and without index       *)
(* checks, keeps every applied row reachable through its schema indexes as *)
(* long as no transaction hands an index value over from a row it updates  *)
(* to another row.  The soundness of the indexes comes from RowCache: every  *)
(* step of TableCache is a step of RowCache or leaves its state alone.     *)
(***************************************************************************)
EXTENDS TableCache, RowCacheProofs

USE SchemaIndexAssumption, NoRowAssumption

\* Each step of the table cache acts on the row cache as one of its operations.
LEMMA TableCacheStep == target \in Rows /\ [TCNext]_tcvars => [Next]_vars
<1> SUFFICES ASSUME target \in Rows, [TCNext]_tcvars PROVE [Next]_vars
  OBVIOUS
<1>1. ASSUME NEW rows \in Rows, Notify(rows) PROVE [Next]_vars
  BY <1>1 DEF Notify
<1>2. ASSUME NEW u \in UUID, ApplyCacheUpdate(u) PROVE [Next]_vars
  <2>1. target[u] # NoRow => target[u] \in Model
    BY DEF Rows
  <2>2. \/ target[u] # NoRow /\ Create(u, target[u], FALSE)
        \/ target[u] # NoRow /\ Update(u, target[u], FALSE)
        \/ Delete(u)
    BY <1>2, Zenon DEF ApplyCacheUpdate
  <2>3. QED
    BY <2>1, <2>2, Zenon DEF Next
<1>3. CASE Purge
  BY <1>3 DEF Purge, Next
<1>4. CASE Run
  BY <1>4 DEF Run
<1>5. CASE UNCHANGED tcvars
  BY <1>5 DEF tcvars
<1>6. QED
  BY <1>1, <1>2, <1>3, <1>4, <1>5 DEF TCNext

\* The server's rows have the type of a table.
LEMMA TargetType == TCSpec => [](target \in Rows)
<1>1. TCInit => target \in Rows
  BY DEF TCInit, Rows, noRows
<1>2. target \in Rows /\ [TCNext]_tcvars => (target \in Rows)'
  BY Zenon DEF TCNext, tcvars, Notify, ApplyCacheUpdate, Purge, Run, Rows, noRows
<1>3. QED
  BY <1>1, <1>2, PTL DEF TCSpec

\* A table cache driven by notifications behaves as a row cache: what holds of
\* every use of the row cache holds of this one.
THEOREM TableCacheRefinesRowCache == TCSpec => Spec
<1>1. TCInit => Init
  BY DEF TCInit
<1>2. QED
  BY <1>1, TargetType, TableCacheStep, PTL DEF TCSpec, Spec

-----------------------------------------------------------------------------
(* The invariant behind AppliedRowsIndexed.                                *)

\* An applied row has the contents the server sent.
AppliedUpToDate == \A u \in UUID \ pending : cache[u] = target[u]

\* The rows still to be applied are rows of one earlier state of the server.
PendingUnique ==
  \A i \in SchemaIndex, u, w \in pending :
    cache[u] # NoRow /\ cache[w] # NoRow
      /\ valueFromIndex(cache[u], i) = valueFromIndex(cache[w], i) => u = w

\* No row ends with a value that a row still to be updated will give up.
PendingKeeps ==
  \A i \in SchemaIndex, w \in pending, u \in UUID :
    u # w /\ target[u] # NoRow /\ cache[w] # NoRow /\ target[w] # NoRow
      /\ valueFromIndex(target[w], i) # valueFromIndex(cache[w], i)
      => valueFromIndex(target[u], i) # valueFromIndex(cache[w], i)

\* A row still to be applied is indexed, or an applied row took its place.
PendingIndexed ==
  \A i \in SchemaIndex, w \in pending :
    cache[w] # NoRow =>
      \/ w \in indexes[i][valueFromIndex(cache[w], i)]
      \/ \E u \in UUID \ pending :
           /\ u # w /\ target[u] # NoRow
           /\ valueFromIndex(target[u], i) = valueFromIndex(cache[w], i)

IndexInv ==
  /\ target \in Rows
  /\ pending \subseteq UUID
  /\ UniqueIndexes(target)
  /\ AppliedUpToDate
  /\ PendingUnique
  /\ PendingKeeps
  /\ PendingIndexed
  /\ AppliedRowsIndexed

\* Taking up a notification: no row is written, all rows were indexed.
LEMMA NotifyKeepsIndexInv ==
  ASSUME ~Handovers, TypeOK, IndexInv, NEW rows \in Rows, Notify(rows)
  PROVE  IndexInv'
<1>1. /\ pending = {} /\ target' = rows /\ cache' = cache /\ indexes' = indexes
      /\ pending' = {u \in UUID : rows[u] # cache[u]}
      /\ UniqueIndexes(rows) /\ ~Handover(cache, rows)
  BY DEF Notify, vars
<1>2. /\ target' \in Rows /\ pending' \subseteq UUID
      /\ UniqueIndexes(target)' /\ AppliedUpToDate'
  BY <1>1 DEF AppliedUpToDate, UniqueIndexes
<1>3. PendingUnique'
  BY <1>1 DEF IndexInv, PendingUnique, AppliedUpToDate, UniqueIndexes
<1>4. PendingKeeps'
  BY <1>1 DEF PendingKeeps, Handover
<1>5. PendingIndexed' /\ AppliedRowsIndexed'
  BY <1>1 DEF IndexInv, PendingIndexed, AppliedRowsIndexed, Indexed, Exists
<1>6. QED
  BY <1>2, <1>3, <1>4, <1>5 DEF IndexInv

\* What applying row x does to the rows and, for any of the three kinds of
\* update, to schema index i.
Applied(x, i) ==
  \/ cache[x] = NoRow /\ target[x] # NoRow /\ Created(x, target[x], i)
  \/ cache[x] # NoRow /\ target[x] # NoRow /\ Updated(x, target[x], i)
  \/ cache[x] # NoRow /\ target[x] = NoRow /\ Deleted(x, i)

\* ApplyCacheUpdate has one of these effects, whichever of Create, Update and
\* Delete it calls.
LEMMA ApplyEffect ==
  ASSUME TypeOK, target \in Rows, NEW x \in UUID, ApplyCacheUpdate(x), NEW i \in SchemaIndex
  PROVE  Applied(x, i)
<1>1. i \in Index /\ FALSE \in BOOLEAN
  OBVIOUS
<1>2. target[x] # NoRow => target[x] \in Model
  BY DEF Rows
<1>3. CASE cache[x] = NoRow /\ target[x] # NoRow /\ Create(x, target[x], FALSE)
  BY <1>1, <1>2, <1>3, CreateEffect, Zenon DEF Applied
<1>4. CASE cache[x] # NoRow /\ target[x] # NoRow /\ Update(x, target[x], FALSE)
  BY <1>1, <1>2, <1>4, UpdateEffect, Zenon DEF Applied
<1>5. CASE cache[x] # NoRow /\ target[x] = NoRow /\ Delete(x)
  BY <1>1, <1>5, DeleteEffect DEF Applied
<1>6. QED
  BY <1>3, <1>4, <1>5, Zenon DEF ApplyCacheUpdate

\* Applying one row of a notification, whichever it is.
LEMMA ApplyKeepsIndexInv ==
  ASSUME TypeOK, IndexInv, NEW x \in UUID, ApplyCacheUpdate(x)
  PROVE  IndexInv'
<1>1. /\ x \in pending /\ pending' = pending \ {x} /\ target' = target
      /\ cache' = [cache EXCEPT ![x] = target[x]]
      /\ cache \in [UUID -> Model \cup {NoRow}]
      /\ target \in Rows /\ pending \subseteq UUID
  BY DEF ApplyCacheUpdate, Create, Update, Delete, TypeOK, IndexInv
<1>2. UniqueIndexes(target)' /\ AppliedUpToDate' /\ PendingUnique' /\ PendingKeeps'
  <2>1. UniqueIndexes(target)'
    BY <1>1 DEF IndexInv, UniqueIndexes
  <2>2. AppliedUpToDate'
    BY <1>1 DEF IndexInv, AppliedUpToDate
  <2>3. PendingUnique'
    BY <1>1 DEF IndexInv, PendingUnique
  <2>4. PendingKeeps'
    BY <1>1 DEF IndexInv, PendingKeeps
  <2>5. QED
    BY <2>1, <2>2, <2>3, <2>4
<1>3. AppliedRowsIndexed'
  <2> SUFFICES ASSUME NEW u \in UUID \ pending', cache'[u] # NoRow, NEW i \in SchemaIndex
               PROVE  u \in indexes'[i][valueFromIndex(cache'[u], i)]
    BY DEF AppliedRowsIndexed, Indexed, Exists
  <2>1. Applied(x, i)
    BY ApplyEffect DEF IndexInv
  <2>2. CASE u = x
    <3>1. cache'[u] = target[x] /\ target[x] # NoRow
      BY <1>1, <2>2
    <3>2. ASSUME cache[x] # NoRow,
                 valueFromIndex(target[x], i) = valueFromIndex(cache[x], i)
          PROVE  x \in indexes[i][valueFromIndex(cache[x], i)]
      <4>1. \/ x \in indexes[i][valueFromIndex(cache[x], i)]
            \/ \E w \in UUID \ pending :
                 /\ w # x /\ target[w] # NoRow
                 /\ valueFromIndex(target[w], i) = valueFromIndex(cache[x], i)
        BY <1>1, <3>2 DEF IndexInv, PendingIndexed
      <4>2. QED
        BY <3>1, <3>2, <4>1 DEF IndexInv, UniqueIndexes
    <3>3. QED
      BY <2>1, <2>2, <3>1, <3>2 DEF Applied, Created, Updated
  <2>3. CASE u # x
    <3>1. /\ u \notin pending /\ cache'[u] = cache[u] /\ cache[u] = target[u]
          /\ cache[u] # NoRow
      BY <1>1, <2>3 DEF IndexInv, AppliedUpToDate
    <3>2. u \in indexes[i][valueFromIndex(cache[u], i)]
      BY <3>1 DEF IndexInv, AppliedRowsIndexed, Indexed, Exists
    <3>3. valueFromIndex(cache[u], i) \in IndexValue
      BY <3>1, IndexValueType DEF TypeOK
    <3>4. target[x] # NoRow => valueFromIndex(target[x], i) # valueFromIndex(cache[u], i)
      BY <1>1, <2>3, <3>1 DEF IndexInv, UniqueIndexes
    <3>5. target[x] # NoRow /\ cache[x] # NoRow
            /\ valueFromIndex(target[x], i) # valueFromIndex(cache[x], i)
            => valueFromIndex(cache[x], i) # valueFromIndex(cache[u], i)
      BY <1>1, <2>3, <3>1 DEF IndexInv, PendingKeeps
    <3>6. QED
      BY <2>1, <2>3, <3>1, <3>2, <3>3, <3>4, <3>5 DEF Applied, Created, Updated, Deleted
  <2>4. QED
    BY <2>2, <2>3
<1>4. PendingIndexed'
  <2> SUFFICES ASSUME NEW i \in SchemaIndex, NEW w \in pending', cache'[w] # NoRow
               PROVE  \/ w \in indexes'[i][valueFromIndex(cache'[w], i)]
                      \/ \E u \in UUID \ pending' :
                           /\ u # w /\ target'[u] # NoRow
                           /\ valueFromIndex(target'[u], i) = valueFromIndex(cache'[w], i)
    BY DEF PendingIndexed
  <2>1. w \in pending /\ w # x /\ w \in UUID /\ cache'[w] = cache[w] /\ cache[w] # NoRow
    BY <1>1
  <2>2. CASE \E u \in UUID \ pending :
               /\ u # w /\ target[u] # NoRow
               /\ valueFromIndex(target[u], i) = valueFromIndex(cache[w], i)
    BY <1>1, <2>1, <2>2
  <2>3. CASE w \in indexes[i][valueFromIndex(cache[w], i)]
    <3>1. valueFromIndex(cache[w], i) \in IndexValue
      BY <2>1, IndexValueType DEF TypeOK
    <3>2. Applied(x, i)
      BY ApplyEffect DEF IndexInv
    <3>3. cache[x] # NoRow => valueFromIndex(cache[x], i) # valueFromIndex(cache[w], i)
      BY <1>1, <2>1 DEF IndexInv, PendingUnique
    <3>4. CASE target[x] # NoRow /\ valueFromIndex(target[x], i) = valueFromIndex(cache[w], i)
      BY <1>1, <2>1, <3>4
    <3>5. CASE target[x] = NoRow \/ valueFromIndex(target[x], i) # valueFromIndex(cache[w], i)
      BY <2>1, <2>3, <3>1, <3>2, <3>3, <3>5 DEF Applied, Created, Updated, Deleted
    <3>6. QED
      BY <3>4, <3>5
  <2>4. QED
    BY <2>1, <2>2, <2>3 DEF IndexInv, PendingIndexed
<1>5. QED
  BY <1>1, <1>2, <1>3, <1>4 DEF IndexInv

\* Purging, dispatching an event and doing nothing.
LEMMA OthersKeepIndexInv ==
  ASSUME IndexInv, Purge \/ Run \/ UNCHANGED tcvars
  PROVE  IndexInv'
<1> USE DEF IndexInv, UniqueIndexes, AppliedUpToDate, PendingUnique, PendingKeeps,
            PendingIndexed, AppliedRowsIndexed, Indexed, Exists
<1>1. CASE Purge
  BY <1>1 DEF Purge, newRowCache, noRows, Rows
<1>2. CASE Run \/ UNCHANGED tcvars
  <2>1. UNCHANGED <<cache, indexes, target, pending>>
    BY <1>2 DEF Run, vars, tcvars
  <2>2. QED
    BY <2>1
<1>3. QED
  BY <1>1, <1>2

\* IndexInv holds in every state as long as no transaction hands a value over.
LEMMA IndexInvariance == ~Handovers => (TCSpec => []IndexInv)
<1> SUFFICES ASSUME ~Handovers PROVE TCSpec => []IndexInv
  OBVIOUS
<1>1. TCInit => IndexInv
  BY DEF TCInit, Init, IndexInv, noRows, Rows, UniqueIndexes, AppliedUpToDate, PendingUnique,
         PendingKeeps, PendingIndexed, AppliedRowsIndexed, Indexed, Exists
<1>2. TypeOK /\ IndexInv /\ [TCNext]_tcvars => IndexInv'
  BY NotifyKeepsIndexInv, ApplyKeepsIndexInv, OthersKeepIndexInv DEF TCNext
<1>3. TCSpec => []TypeOK
  BY TableCacheRefinesRowCache, TypeCorrect, PTL
<1>4. QED
  BY <1>1, <1>2, <1>3, PTL DEF TCSpec

\* Without handovers every applied row is found through its schema indexes, in
\* the middle of a notification as well as after it.
THEOREM AppliedRowsAreIndexed == ~Handovers => (TCSpec => []AppliedRowsIndexed)
<1>1. IndexInv => AppliedRowsIndexed
  BY DEF IndexInv
<1>2. QED
  BY <1>1, IndexInvariance, PTL

\* Without handovers the schema indexes are exact between notifications: the
\* invariant shows them complete and SchemaIndexSound shows them sound.
THEOREM SettledIndexesAreExact == ~Handovers => (TCSpec => []SettledIndexExact)
<1>1. TypeOK /\ SchemaIndexSound /\ IndexInv => SettledIndexExact
  <2> SUFFICES ASSUME TypeOK, SchemaIndexSound, IndexInv, pending = {}
               PROVE  /\ cache = target
                      /\ \A i \in SchemaIndex, v \in IndexValue :
                           indexes[i][v] = RowsWith(cache, i, v)
    BY DEF SettledIndexExact
  <2>1. cache = target
    BY DEF IndexInv, AppliedUpToDate, TypeOK, Rows
  <2>2. ASSUME NEW i \in SchemaIndex, NEW v \in IndexValue
        PROVE  indexes[i][v] = RowsWith(cache, i, v)
    <3>1. indexes[i][v] \subseteq RowsWith(cache, i, v)
      BY DEF SchemaIndexSound
    <3>2. RowsWith(cache, i, v) \subseteq indexes[i][v]
      BY DEF RowsWith, IndexInv, AppliedRowsIndexed, Indexed, Exists
    <3>3. QED
      BY <3>1, <3>2, Zenon
  <2>3. QED
    BY <2>1, <2>2
<1>2. TCSpec => []TypeOK /\ []SchemaIndexSound
  BY TableCacheRefinesRowCache, TypeCorrect, SchemaIndexSoundness, PTL
<1>3. QED
  BY <1>1, <1>2, IndexInvariance, PTL

\* The table cache keeps its variables well typed and its channel of events
\* within its capacity, although AddEvent never waits.
THEOREM TCTypeCorrect == TCSpec => []TCTypeOK
<1> DEFINE Own == /\ target \in Rows
                  /\ pending \in SUBSET UUID
                  /\ events \in Seq(Event) /\ Len(events) <= bufferSize
                  /\ view \in Rows
                  /\ dropped \in BOOLEAN
                  /\ purged \in BOOLEAN
<1>1. TCInit => Own
  <2> SUFFICES ASSUME TCInit PROVE Own
    OBVIOUS
  <2>1. noRows \in Rows
    BY DEF noRows, Rows
  <2>2. <<>> \in Seq(Event) /\ Len(<<>>) = 0
    OBVIOUS
  <2>3. events \in Seq(Event) /\ Len(events) <= bufferSize
    BY <2>2, BufferAssumption DEF TCInit
  <2>4. QED
    BY <2>1, <2>3, Zenon DEF TCInit
<1>2. TypeOK /\ Own /\ [TCNext]_tcvars => Own'
  <2> SUFFICES ASSUME TypeOK, Own, [TCNext]_tcvars PROVE Own'
    OBVIOUS
  <2>1. ASSUME NEW rows \in Rows, Notify(rows) PROVE Own'
    <3>1. /\ target' = rows /\ pending' = {u \in UUID : rows[u] # cache[u]}
          /\ UNCHANGED <<events, view, dropped, purged>>
      BY <2>1 DEF Notify
    <3>2. QED
      BY <3>1
  <2>2. ASSUME NEW x \in UUID, ApplyCacheUpdate(x) PROVE Own'
    <3>1. cache[x] \in Model \cup {NoRow} /\ target[x] \in Model \cup {NoRow}
      BY DEF TypeOK, Rows
    <3>2. ASSUME NEW t \in {"add", "update", "delete"}, NEW old \in Model \cup {NoRow},
                 NEW new \in Model \cup {NoRow}, AddEvent(t, x, old, new)
          PROVE  events' \in Seq(Event) /\ Len(events') <= bufferSize /\ dropped' \in BOOLEAN
      <4>1. [eventType |-> t, uuid |-> x, old |-> old, new |-> new] \in Event
        BY DEF Event
      <4>2. CASE Len(events) < bufferSize
        <5>1. events' = Append(events, [eventType |-> t, uuid |-> x, old |-> old, new |-> new])
          BY <3>2, <4>2 DEF AddEvent
        <5>2. dropped' = dropped
          BY <3>2, <4>2 DEF AddEvent
        <5>3. events' \in Seq(Event) /\ Len(events') = Len(events) + 1
          BY <4>1, <5>1
        <5>4. QED
          BY <4>2, <5>2, <5>3, BufferAssumption
      <4>3. CASE ~(Len(events) < bufferSize)
        <5>1. events' = events /\ dropped' = TRUE
          BY <3>2, <4>3 DEF AddEvent
        <5>2. QED
          BY <5>1
      <4>4. QED
        BY <4>2, <4>3
    <3>3. events' \in Seq(Event) /\ Len(events') <= bufferSize /\ dropped' \in BOOLEAN
      BY <2>2, <3>1, <3>2, Zenon DEF ApplyCacheUpdate
    <3>4. QED
      BY <2>2, <3>3 DEF ApplyCacheUpdate
  <2>3. CASE Purge
    BY <2>3 DEF Purge, noRows, Rows
  <2>4. CASE Run
    <3>1. Head(events) \in Event /\ Tail(events) \in Seq(Event) /\ Len(Tail(events)) <= bufferSize
      BY <2>4, BufferAssumption DEF Run
    <3>2. QED
      BY <2>4, <3>1 DEF Run, Rows, Event
  <2>5. CASE UNCHANGED tcvars
    BY <2>5 DEF tcvars
  <2>6. QED
    BY <2>1, <2>2, <2>3, <2>4, <2>5 DEF TCNext
<1>3. TCSpec => []TypeOK
  BY TableCacheRefinesRowCache, TypeCorrect, PTL
<1>4. TypeOK /\ Own => TCTypeOK
  BY DEF TCTypeOK
<1>5. QED
  BY <1>1, <1>2, <1>3, <1>4, PTL DEF TCSpec

-----------------------------------------------------------------------------
(* What the handlers know.                                                 *)

\* Who knows the rows v and is then told the first n - 1 of the events es takes x
\* for row u.
Known(es, v, n, u, x) ==
  \/ /\ \A m \in 1..(n - 1) : es[m].uuid # u
     /\ x = v[u]
  \/ \E m \in 1..(n - 1) :
       /\ es[m].uuid = u /\ x = es[m].new
       /\ \A k \in (m + 1)..(n - 1) : es[k].uuid # u

\* Each event starts from what is known before it, and the cache holds what is
\* known after the last.
Told(es, v, c) ==
  /\ \A n \in 1..Len(es) : Known(es, v, n, es[n].uuid, es[n].old)
  /\ \A u \in UUID : Known(es, v, Len(es) + 1, u, c[u])

HandlersTold == ~dropped /\ ~purged => Told(events, view, cache)

\* An event at the end of the queue changes nothing for the ones before it, and
\* after it only what is known of its row.
LEMMA EventQueued ==
  ASSUME NEW es \in Seq(Event), NEW v, NEW c \in Rows, Told(es, v, c),
         NEW x \in UUID, NEW new, NEW t
  PROVE  Told(Append(es, [eventType |-> t, uuid |-> x, old |-> c[x], new |-> new]), v,
              [c EXCEPT ![x] = new])
<1> DEFINE e == [eventType |-> t, uuid |-> x, old |-> c[x], new |-> new]
           longer == Append(es, e)
           after == [c EXCEPT ![x] = new]
<1>1. /\ Len(longer) = Len(es) + 1 /\ Len(es) \in Nat
      /\ \A n \in 1..Len(es) : longer[n] = es[n]
      /\ longer[Len(es) + 1] = e
  OBVIOUS
<1>2. e.uuid = x /\ e.old = c[x] /\ e.new = new
  OBVIOUS
<1>3. after[x] = new /\ \A u \in UUID : u # x => after[u] = c[u]
  BY DEF Rows
<1> HIDE DEF e, longer, after
<1>4. ASSUME NEW n \in 1..(Len(es) + 1), NEW u, NEW y, Known(es, v, n, u, y)
      PROVE  Known(longer, v, n, u, y)
  <2>1. \A m \in 1..(n - 1) : longer[m] = es[m]
    BY <1>1
  <2> QED
    BY <1>4, <2>1 DEF Known
<1>5. ASSUME NEW n \in 1..Len(longer)
      PROVE  Known(longer, v, n, longer[n].uuid, longer[n].old)
  <2>1. CASE n \in 1..Len(es)
    <3>1. longer[n] = es[n] /\ n \in 1..(Len(es) + 1) /\ Known(es, v, n, es[n].uuid, es[n].old)
      BY <1>1, <2>1 DEF Told
    <3> QED
      BY <1>4, <3>1
  <2>2. CASE n = Len(es) + 1
    <3>1. longer[n] = e /\ n \in 1..(Len(es) + 1) /\ Known(es, v, n, x, c[x])
      BY <1>1, <2>2 DEF Told
    <3> QED
      BY <1>2, <1>4, <3>1
  <2>3. n \in 1..Len(es) \/ n = Len(es) + 1
    BY <1>1
  <2> QED
    BY <2>1, <2>2, <2>3
<1>6. ASSUME NEW u \in UUID PROVE Known(longer, v, Len(longer) + 1, u, after[u])
  <2> DEFINE l == Len(es) + 1
  <2>1. l \in Nat /\ l \in 1..l /\ Len(longer) + 1 - 1 = l /\ l = Len(es) + 1
    BY <1>1
  <2> HIDE DEF l
  <2>2. CASE u = x
    <3>1. longer[l].uuid = u /\ longer[l].new = after[u]
      BY <1>1, <1>2, <1>3, <2>1, <2>2
    <3>2. \A k \in (l + 1)..l : longer[k].uuid # u
      BY <2>1
    <3> QED
      BY <2>1, <3>1, <3>2 DEF Known
  <2>3. CASE u # x
    <3>1. Known(longer, v, l, u, after[u])
      BY <1>1, <1>3, <1>4, <2>1, <2>3 DEF Told
    <3>2. longer[l].uuid # u
      BY <1>1, <1>2, <2>1, <2>3
    <3>3. \A k \in 1..l : k = l \/ k \in 1..(l - 1)
      BY <2>1
    <3>4. CASE \E m \in 1..(l - 1) :
                 /\ longer[m].uuid = u /\ after[u] = longer[m].new
                 /\ \A k \in (m + 1)..(l - 1) : longer[k].uuid # u
      <4>1. PICK m \in 1..(l - 1) :
                 /\ longer[m].uuid = u /\ after[u] = longer[m].new
                 /\ \A k \in (m + 1)..(l - 1) : longer[k].uuid # u
        BY <3>4
      <4>2. m \in 1..l /\ \A k \in (m + 1)..l : k = l \/ k \in (m + 1)..(l - 1)
        BY <2>1
      <4>3. \A k \in (m + 1)..l : longer[k].uuid # u
        BY <3>2, <4>1, <4>2
      <4> QED
        BY <2>1, <4>1, <4>2, <4>3 DEF Known
    <3>5. CASE (\A m \in 1..(l - 1) : longer[m].uuid # u) /\ after[u] = v[u]
      BY <2>1, <3>2, <3>3, <3>5 DEF Known
    <3> QED
      BY <3>1, <3>4, <3>5 DEF Known
  <2> QED
    BY <2>2, <2>3
<1> QED
  BY <1>5, <1>6 DEF Told, longer, e, after

\* The event that is handed out leaves its row as the next one expects it.
LEMMA EventHandled ==
  ASSUME NEW es \in Seq(Event), es # <<>>, NEW v \in Rows, NEW c, Told(es, v, c)
  PROVE  Told(Tail(es), [v EXCEPT ![Head(es).uuid] = Head(es).new], c)
<1> DEFINE rest == Tail(es)
           seen == [v EXCEPT ![Head(es).uuid] = Head(es).new]
<1>1. /\ Len(es) \in Nat /\ Len(es) >= 1 /\ Len(rest) = Len(es) - 1
      /\ \A n \in 1..Len(rest) : rest[n] = es[n + 1]
      /\ Head(es) = es[1] /\ es[1] \in Event
  OBVIOUS
<1>2. seen[es[1].uuid] = es[1].new /\ \A u : u # es[1].uuid /\ u \in UUID => seen[u] = v[u]
  BY <1>1 DEF Rows, Event
<1>3. \A n \in 1..Len(es) : es[n].uuid \in UUID
  <2>1. \A n \in 1..Len(es) : es[n] \in Event
    OBVIOUS
  <2>2. \A e \in Event : e.uuid \in UUID
    BY DEF Event
  <2> QED
    BY <2>1, <2>2, Zenon
<1> HIDE DEF rest, seen
<1>4. ASSUME NEW n \in 1..(Len(rest) + 1), NEW u \in UUID, NEW y, Known(es, v, n + 1, u, y)
      PROVE  Known(rest, seen, n, u, y)
  <2>1. n \in Nat /\ n >= 1 /\ n + 1 - 1 = n
    OBVIOUS
  <2>2. \A k \in 1..(n - 1) : rest[k] = es[k + 1] /\ k + 1 \in 2..n
    BY <1>1
  <2>3. CASE (\A m \in 1..n : es[m].uuid # u) /\ y = v[u]
    <3>1. es[1].uuid # u
      BY <2>1, <2>3
    <3>2. seen[u] = y
      BY <1>2, <2>3, <3>1
    <3>3. \A m \in 1..(n - 1) : rest[m].uuid # u
      BY <2>1, <2>2, <2>3
    <3> QED
      BY <3>2, <3>3 DEF Known
  <2>4. CASE \E m \in 1..n : /\ es[m].uuid = u /\ y = es[m].new
                             /\ \A k \in (m + 1)..n : es[k].uuid # u
    <3>1. PICK m \in 1..n : /\ es[m].uuid = u /\ y = es[m].new
                            /\ \A k \in (m + 1)..n : es[k].uuid # u
      BY <2>4
    <3>2. CASE m = 1
      <4>1. \A k \in 1..(n - 1) : rest[k].uuid # u
        BY <2>2, <3>1, <3>2
      <4> QED
        BY <1>2, <3>1, <3>2, <4>1 DEF Known
    <3>3. CASE m # 1
      <4>1. m - 1 \in 1..(n - 1) /\ m - 1 + 1 = m
        BY <2>1, <3>3
      <4>2. rest[m - 1] = es[m]
        BY <2>2, <4>1
      <4>3. \A k \in (m - 1 + 1)..(n - 1) : k \in 1..(n - 1) /\ k + 1 \in (m + 1)..n
        BY <2>1, <3>3
      <4>4. \A k \in (m - 1 + 1)..(n - 1) : rest[k].uuid # u
        BY <2>2, <3>1, <4>3
      <4> QED
        BY <3>1, <4>1, <4>2, <4>4 DEF Known
    <3> QED
      BY <3>2, <3>3
  <2> QED
    BY <1>4, <2>1, <2>3, <2>4 DEF Known
<1>5. ASSUME NEW n \in 1..Len(rest) PROVE Known(rest, seen, n, rest[n].uuid, rest[n].old)
  <2>1. rest[n] = es[n + 1] /\ n + 1 \in 1..Len(es) /\ n \in 1..(Len(rest) + 1)
    BY <1>1
  <2> QED
    BY <1>3, <1>4, <2>1 DEF Told
<1>6. ASSUME NEW u \in UUID PROVE Known(rest, seen, Len(rest) + 1, u, c[u])
  <2>1. Len(rest) + 1 \in 1..(Len(rest) + 1) /\ Len(rest) + 1 + 1 = Len(es) + 1
    BY <1>1
  <2> QED
    BY <1>4, <2>1 DEF Told
<1> QED
  BY <1>5, <1>6, Zenon DEF Told, rest, seen

\* Every step keeps the queue in line with the cache.
LEMMA ToldStep == TCTypeOK /\ HandlersTold /\ [TCNext]_tcvars => HandlersTold'
<1> SUFFICES ASSUME TCTypeOK, HandlersTold, [TCNext]_tcvars, ~dropped', ~purged'
             PROVE  Told(events, view, cache)'
  BY DEF HandlersTold
<1>1. events \in Seq(Event) /\ cache \in Rows /\ view \in Rows /\ target \in Rows
  BY DEF TCTypeOK, TypeOK, Rows
<1>2. CASE UNCHANGED <<events, view, cache, dropped, purged>>
  BY <1>2 DEF HandlersTold
<1>3. ASSUME NEW rows \in Rows, Notify(rows) PROVE Told(events, view, cache)'
  BY <1>2, <1>3 DEF Notify, vars
<1>4. ASSUME NEW x \in UUID, ApplyCacheUpdate(x) PROVE Told(events, view, cache)'
  <2>1. /\ cache' = [cache EXCEPT ![x] = target[x]] /\ UNCHANGED <<view, purged>>
        /\ \E t \in {"add", "update", "delete"} : AddEvent(t, x, cache[x], target[x])
    BY <1>4 DEF ApplyCacheUpdate, Create, Update, Delete
  <2>2. PICK t \in {"add", "update", "delete"} : AddEvent(t, x, cache[x], target[x])
    BY <2>1
  <2>3. /\ ~dropped
        /\ events' = Append(events, [eventType |-> t, uuid |-> x, old |-> cache[x],
                                     new |-> target[x]])
    BY <2>2 DEF AddEvent
  <2>4. Told(events, view, cache)
    BY <2>1, <2>3 DEF HandlersTold
  <2> QED
    BY <1>1, <2>1, <2>3, <2>4, EventQueued, Zenon
<1>5. CASE Purge
  <2>1. UNCHANGED <<events, view, dropped>> /\ cache' = noRows /\ purged' = (purged \/ cache # noRows)
    BY <1>5 DEF Purge, newRowCache, noRows
  <2>2. cache = noRows /\ ~purged /\ ~dropped
    BY <2>1, Zenon
  <2> QED
    BY <2>1, <2>2 DEF HandlersTold
<1>6. CASE Run
  <2>1. /\ events # <<>> /\ events' = Tail(events) /\ UNCHANGED <<cache, dropped, purged>>
        /\ view' = [view EXCEPT ![Head(events).uuid] = Head(events).new]
    BY <1>6 DEF Run, vars
  <2>2. Told(events, view, cache)
    BY <2>1 DEF HandlersTold
  <2> QED
    BY <1>1, <2>1, <2>2, EventHandled, Zenon
<1>7. CASE UNCHANGED tcvars
  BY <1>2, <1>7 DEF tcvars, vars
<1> QED
  BY <1>3, <1>4, <1>5, <1>6, <1>7 DEF TCNext

\* Handlers that follow the events know the cache as it was when the event was
\* queued, whatever the order of the rows of a notification and however late the
\* events are handed out, unless one was dropped or the cache was purged.
THEOREM HandlersAreToldAll == TCSpec => []HandlersFollowCache
<1>1. TCInit => HandlersTold
  BY DEF TCInit, Init, noRows, HandlersTold, Told, Known
<1>2. TCTypeOK /\ HandlersTold => HandlersFollowCache
  <2> SUFFICES ASSUME TCTypeOK, Told(events, view, cache)
               PROVE  /\ events # <<>> => view[Head(events).uuid] = Head(events).old
                      /\ events = <<>> => view = cache
    BY DEF HandlersTold, HandlersFollowCache
  <2>1. events \in Seq(Event) /\ cache \in Rows /\ view \in Rows
    BY DEF TCTypeOK, TypeOK, Rows
  <2>2. CASE events # <<>>
    <3>1. Head(events) = events[1] /\ 1 \in 1..Len(events)
      BY <2>1, <2>2
    <3>2. Known(events, view, 1, events[1].uuid, events[1].old)
      BY <3>1 DEF Told
    <3> QED
      BY <2>2, <3>1, <3>2 DEF Known
  <2>3. CASE events = <<>>
    <3>1. \A u \in UUID : Known(events, view, 1, u, cache[u])
      BY <2>3 DEF Told
    <3>2. \A u \in UUID : cache[u] = view[u]
      BY <3>1 DEF Known
    <3> QED
      BY <2>1, <2>3, <3>2 DEF Rows
  <2> QED
    BY <2>2, <2>3
<1> QED
  BY <1>1, <1>2, ToldStep, TCTypeCorrect, PTL DEF TCSpec

=============================================================================

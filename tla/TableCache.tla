----------------------------- MODULE TableCache -----------------------------
(***************************************************************************)
(* How update notifications change one table of the cache, row by row      *)
(* (cache/cache.go, type TableCache), and how the changes reach the event  *)
(* handlers.                                                               *)
(*                                                                         *)
(* A notification carries what one committed transaction did to the table. *)
(* Populate and Populate2 walk its rows in the order in which Go iterates  *)
(* a map, that is, in any order, and write each with checkIndexes = false. *)
(* The lock of the RowCache is released between two rows, so every partial *)
(* state is visible to a reader.  The server keeps schema indexes unique   *)
(* in every committed state; the partial states need not be.               *)
(***************************************************************************)
EXTENDS RowCache

CONSTANTS
  bufferSize,   \* capacity of the channel of events
  Handovers     \* may a transaction move a schema index value from a row it
                \* updates to another row

ASSUME BufferAssumption == bufferSize \in Nat \ {0}

ASSUME HandoversAssumption == Handovers \in BOOLEAN

VARIABLES
  target,       \* the rows the server had when it sent the last notification
  pending,      \* the rows of the notification that are still to be applied
  events,       \* eventProcessor.events
  view,         \* the rows as a handler that follows the events knows them
  dropped,      \* history: an event was dropped because the channel was full
  purged        \* history: Purge discarded rows

tcvars == <<vars, target, pending, events, view, dropped, purged>>

Rows == [UUID -> Model \cup {NoRow}]

noRows == [u \in UUID |-> NoRow]

\* No two rows share the value of a schema index.
UniqueIndexes(rows) ==
  \A i \in SchemaIndex, u, w \in UUID :
    rows[u] # NoRow /\ rows[w] # NoRow
      /\ valueFromIndex(rows[u], i) = valueFromIndex(rows[w], i) => u = w

\* Some row w keeps existing but gives up a value that another row u ends with.
Handover(old, new) ==
  \E i \in SchemaIndex, u, w \in UUID :
    /\ u # w /\ new[u] # NoRow /\ old[w] # NoRow /\ new[w] # NoRow
    /\ valueFromIndex(new[w], i) # valueFromIndex(old[w], i)
    /\ valueFromIndex(new[u], i) = valueFromIndex(old[w], i)

-----------------------------------------------------------------------------

\* The server commits a transaction and its notification is taken up.
Notify(rows) ==
  /\ pending = {}
  /\ UniqueIndexes(rows)
  /\ Handovers \/ ~Handover(cache, rows)
  /\ target' = rows
  /\ pending' = {u \in UUID : rows[u] # cache[u]}
  /\ UNCHANGED <<vars, events, view, dropped, purged>>

\* Variant: one event more than the channel holds.
AddEventOneTooMany(eventType, u, old, new) ==
  IF Len(events) <= bufferSize
    THEN /\ events' = Append(events, [eventType |-> eventType, uuid |-> u,
                                      old |-> old, new |-> new])
         /\ UNCHANGED dropped
    ELSE /\ dropped' = TRUE
         /\ UNCHANGED events

\* AddEvent never blocks: a full channel loses the event.
AddEvent(eventType, u, old, new) ==
  IF Len(events) < bufferSize
    THEN /\ events' = Append(events, [eventType |-> eventType, uuid |-> u,
                                      old |-> old, new |-> new])
         /\ UNCHANGED dropped
    ELSE /\ dropped' = TRUE
         /\ UNCHANGED events

\* Variant: rows are updated with the index check on, and the first conflict
\* makes Populate2 return with the rest of the notification undone.
ApplyCacheUpdateChecked(u) ==
  /\ u \in pending
  /\ \/ /\ cache[u] = NoRow /\ target[u] # NoRow
        /\ Create(u, target[u], FALSE)
        /\ AddEvent("add", u, NoRow, target[u])
        /\ pending' = pending \ {u}
     \/ /\ cache[u] # NoRow /\ target[u] # NoRow
        /\ Update(u, target[u], TRUE)
        /\ AddEvent("update", u, cache[u], target[u])
        /\ pending' = pending \ {u}
     \/ /\ cache[u] # NoRow /\ target[u] # NoRow
        /\ updateConflict(indexes, u, cache[u], target[u])
        /\ pending' = {}
        /\ UNCHANGED <<vars, events, dropped>>
     \/ /\ cache[u] # NoRow /\ target[u] = NoRow
        /\ Delete(u)
        /\ AddEvent("delete", u, cache[u], NoRow)
        /\ pending' = pending \ {u}
  /\ UNCHANGED <<target, view, purged>>

\* Populate2 and ApplyCacheUpdate for one row of the notification.
ApplyCacheUpdate(u) ==
  /\ u \in pending
  /\ \/ /\ cache[u] = NoRow /\ target[u] # NoRow
        /\ Create(u, target[u], FALSE)
        /\ AddEvent("add", u, NoRow, target[u])
     \/ /\ cache[u] # NoRow /\ target[u] # NoRow
        /\ Update(u, target[u], FALSE)
        /\ AddEvent("update", u, cache[u], target[u])
     \/ /\ cache[u] # NoRow /\ target[u] = NoRow
        /\ Delete(u)
        /\ AddEvent("delete", u, cache[u], NoRow)
  /\ pending' = pending \ {u}
  /\ UNCHANGED <<target, view, purged>>

\* Purge waits for the table lock, hence for a running Populate2, and makes
\* new row caches.  It queues no events.
Purge ==
  /\ pending = {}
  /\ newRowCache
  /\ target' = noRows
  /\ purged' = (purged \/ cache # noRows)
  /\ UNCHANGED <<pending, events, view, dropped>>

\* Variant: the newest event is handed out first.
RunNewestFirst ==
  /\ events # <<>>
  /\ LET event == events[Len(events)] IN view' = [view EXCEPT ![event.uuid] = event.new]
  /\ events' = SubSeq(events, 1, Len(events) - 1)
  /\ UNCHANGED <<vars, target, pending, dropped, purged>>

\* eventProcessor.Run hands the oldest event to the handlers.
Run ==
  /\ events # <<>>
  /\ LET event == Head(events) IN view' = [view EXCEPT ![event.uuid] = event.new]
  /\ events' = Tail(events)
  /\ UNCHANGED <<vars, target, pending, dropped, purged>>

TCInit ==
  /\ Init
  /\ target = noRows
  /\ pending = {}
  /\ events = <<>>
  /\ view = noRows
  /\ dropped = FALSE
  /\ purged = FALSE

TCNext ==
  \/ \E rows \in Rows : Notify(rows)
  \/ \E u \in UUID : ApplyCacheUpdate(u)
  \/ Purge
  \/ Run

TCSpec == TCInit /\ [][TCNext]_tcvars

\* The reader of the connection and the event loop keep running.
TCFairSpec ==
  /\ TCSpec
  /\ WF_tcvars(Run)
  /\ \A u \in UUID : WF_tcvars(ApplyCacheUpdate(u))

-----------------------------------------------------------------------------
(* Properties.                                                             *)

Event == [eventType : {"add", "update", "delete"}, uuid : UUID,
          old : Model \cup {NoRow}, new : Model \cup {NoRow}]

\* The variables of this module have their types.
TCTypeOK ==
  /\ TypeOK
  /\ target \in Rows
  /\ pending \in SUBSET UUID
  /\ events \in Seq(Event) /\ Len(events) <= bufferSize
  /\ view \in Rows
  /\ dropped \in BOOLEAN
  /\ purged \in BOOLEAN

\* Row u is found by a lookup through any schema index.
Indexed(u) == \A i \in SchemaIndex : u \in indexes[i][valueFromIndex(cache[u], i)]

\* A row that a notification has brought up to date can be found through each
\* of its schema indexes, already while the rest of the notification is still
\* being applied and whatever the order of its rows; in particular a row that
\* takes over the value of a deleted row is not lost when it comes first.
AppliedRowsIndexed == \A u \in UUID \ pending : Exists(u) => Indexed(u)

\* When a notification has been applied completely the schema indexes are
\* exactly the inverse of the rows, which are the rows of the server.
SettledIndexExact ==
  pending = {} =>
    /\ cache = target
    /\ \A i \in SchemaIndex, v \in IndexValue : indexes[i][v] = RowsWith(cache, i, v)

\* Until an event is dropped or rows are purged, the handlers are told of every
\* change in the order it was made: an event names the contents the handlers
\* last saw, and once the queue is empty they know exactly the rows of the cache.
HandlersFollowCache ==
  ~dropped /\ ~purged =>
    /\ events # <<>> => view[Head(events).uuid] = Head(events).old
    /\ events = <<>> => view = cache

\* A notification that has been taken up is applied to its last row, after
\* which the rows are those of the server: whichever row comes next, Create,
\* Update or Delete accepts it.
NotificationsApplied == []<>(pending = {} /\ cache = target)

=============================================================================

--------------------------- MODULE ServerMonitor ----------------------------
(***************************************************************************)
(* The server (server/server.go, server/monitor.go): transactions, one at  *)
(* a time under txnMutex, the notification of the monitors under the read  *)
(* lock of monitorMutex, the commit, and the registration of monitors      *)
(* under the write lock.                                                   *)
(*                                                                         *)
(* Requests of different clients run in goroutines of their own, so a      *)
(* monitor request interleaves with a transaction wherever the mutexes let *)
(* it.  The monitors are notified before the transaction is committed, by  *)
(* calls that wait for the answer of the client.  The commit applies the   *)
(* update row by row.                                                      *)
(*                                                                         *)
(* Each connection has at most one monitor.  mirror is what a client of    *)
(* this library makes of the reply and the notifications.                  *)
(***************************************************************************)
EXTENDS Transaction

CONSTANTS
  Conn,           \* the connections
  NoConn,         \* no connection
  Requested,      \* the columns of each table that monitors ask for
  MonitorKinds    \* the monitor requests made: monitor and monitor_cond(_since)

VARIABLES
  monitors,       \* OvsdbServer.monitors: the kind of the monitor of each
                  \* connection, or none
  connected,      \* the connections that are up
  writer,         \* who holds the write lock of monitorMutex
  selecting,      \* the tables that its handler has left to select
  toNotify,       \* the monitors that processMonitors has left
  calling,        \* the connection whose answer it waits for
  toCommit,       \* the rows that the commit has left
  mirror,         \* the rows of each client
  missed,         \* history: the clients that were not told of a transaction, or
                  \* not what was committed
  tainted,        \* history: a transaction that was not committed changed the
                  \* references
  broken,         \* history: a transaction with a stale update was committed
  lost            \* history: an index lost the entry of a row

serverVars ==
  <<monitors, connected, writer, selecting, toNotify, calling, toCommit, mirror, missed, tainted,
    broken, lost>>
vars == <<dbVars, txnVars, serverVars>>

Tables == DOMAIN Requested

Init ==
  /\ InitTransaction
  /\ monitors = [c \in Conn |-> "none"]
  /\ connected = Conn
  /\ writer = NoConn
  /\ selecting = {}
  /\ toNotify = {}
  /\ calling = NoConn
  /\ toCommit = {}
  /\ mirror = [c \in Conn |-> [u \in UUID |-> NoModel]]
  /\ missed = {}
  /\ tainted = FALSE
  /\ broken = FALSE
  /\ lost = FALSE

-----------------------------------------------------------------------------
(* What a client sees of the updates.                                      *)

filterColumns(row, columns) ==
  IF row = Absent THEN row ELSE [c \in DOMAIN row \cap columns |-> row[c]]

filter2(u) ==
  LET ru2 == update[u].rowUpdate2 columns == Requested[TableOf[u]]
  IN  [ru2 EXCEPT !.row = filterColumns(@, columns)]

filter(u) ==
  LET ru == FromRowUpdate2(update[u].rowUpdate2) columns == Requested[TableOf[u]]
  IN  [ru EXCEPT !.Old = filterColumns(@, columns), !.New = filterColumns(@, columns)]

\* The rows that a notification is about.
notified == {u \in Updated(update) : TableOf[u] \in Tables}

\* The rows of client c after it handled the notification of the update.  Both
\* kinds of monitors are notified by update2.
received(c) ==
  [u \in UUID |->
     IF u \notin notified THEN mirror[c][u]
     ELSE LET ru2 == IF monitors[c] = "original" THEN filter(u) ELSE filter2(u)
              up == AddRowUpdate2(ColumnsOf[TableOf[u]], mirror[c][u], ru2)
          IN  IF up = NoUpdate THEN mirror[c][u] ELSE up.new]

\* A client that missed something is not followed any further.
forget(m, cs) == [c \in Conn |-> IF c \in cs THEN [u \in UUID |-> NoModel] ELSE m[c]]

-----------------------------------------------------------------------------
(* Transact.                                                               *)

Transact(ops) == Begin(ops) /\ UNCHANGED serverVars

transact == TransactionStep /\ UNCHANGED serverVars

\* "Skipping transaction DB commit due to error".
SkipCommit ==
  /\ pc = "done" /\ failed
  /\ End
  /\ tainted' = (tainted \/ overwritten)
  /\ UNCHANGED <<dbVars, monitors, connected, writer, selecting, toNotify, calling, toCommit,
                 mirror, missed, broken, lost>>

processMonitors ==
  /\ pc = "done" /\ ~failed
  /\ writer = NoConn
  /\ pc' = "notify"
  /\ toNotify' = {c \in Conn : monitors[c] # "none"}
  /\ UNCHANGED <<dbVars, operations, cache, DeletedRows, update, tracker, pending, refUpdates,
                 overwritten, stale, failed, monitors, connected, writer, selecting, calling,
                 toCommit, mirror, missed, tainted, broken, lost>>

\* Send and Send2.  Without rows of the tables asked for nothing is sent, and a
\* call on a closed connection fails at once.
Send(c) ==
  /\ pc = "notify" /\ calling = NoConn /\ c \in toNotify
  /\ IF notified = {} \/ c \notin connected
       THEN toNotify' = toNotify \ {c} /\ UNCHANGED calling
       ELSE calling' = c /\ UNCHANGED toNotify
  /\ UNCHANGED <<dbVars, txnVars, monitors, connected, writer, selecting, toCommit, mirror,
                 missed, tainted, broken, lost>>

\* The client handles the notification and answers.
Answer(c) ==
  /\ calling = c /\ c \in connected
  /\ mirror' = IF c \in missed THEN mirror ELSE [mirror EXCEPT ![c] = received(c)]
  /\ calling' = NoConn
  /\ toNotify' = toNotify \ {c}
  /\ UNCHANGED <<dbVars, txnVars, monitors, connected, writer, selecting, toCommit, missed, tainted,
                 broken, lost>>

\* A connection goes down: a call that waits on it returns.  Its monitor stays.
Disconnect(c) ==
  /\ c \in connected
  /\ connected' = connected \ {c}
  /\ mirror' = forget(mirror, {c})
  /\ calling' = IF calling = c THEN NoConn ELSE calling
  /\ toNotify' = IF calling = c THEN toNotify \ {c} ELSE toNotify
  /\ UNCHANGED <<dbVars, txnVars, monitors, writer, selecting, toCommit, missed, tainted, broken,
                 lost>>

told == {c \in Conn : monitors[c] # "none"}

\* Some row of the indexed table is not in its index.
uncovered(c) ==
  \E u \in Rows(c, IndexedTable) : c.index[IndexedColumn][c.rows[u][IndexedColumn]] = {}

\* The clients of a transaction with a stale update have been told of other rows
\* than those that are committed.
EndNotify ==
  /\ pc = "notify" /\ toNotify = {}
  /\ pc' = "commit"
  /\ toCommit' = Updated(update)
  /\ broken' = (broken \/ stale)
  /\ lost' = (lost \/ uncovered(cache))
  /\ missed' = IF stale THEN missed \cup told ELSE missed
  /\ mirror' = IF stale THEN forget(mirror, told) ELSE mirror
  /\ UNCHANGED <<dbVars, operations, cache, DeletedRows, update, tracker, pending, refUpdates,
                 overwritten, stale, failed, monitors, connected, writer, selecting, toNotify,
                 calling, tainted>>

\* Commit, one row.  When it fails, the rest is not committed.
CommitRow(u) ==
  /\ pc = "commit" /\ u \in toCommit
  /\ LET new == applyRow(db, u, update[u])
     IN  IF new.err
           THEN End /\ toCommit' = {} /\ UNCHANGED db
           ELSE db' = new /\ toCommit' = toCommit \ {u} /\ UNCHANGED txnVars
  /\ UNCHANGED <<dbReferences, monitors, connected, writer, selecting, toNotify, calling, mirror,
                 missed, tainted, broken, lost>>

CommitReferences ==
  /\ pc = "commit" /\ toCommit = {}
  /\ dbReferences' = UpdateReferences(dbReferences, tracker.references)
  /\ End
  /\ lost' = (lost \/ uncovered(db))
  /\ UNCHANGED <<db, monitors, connected, writer, selecting, toNotify, calling, toCommit, mirror,
                 missed, tainted, broken>>

-----------------------------------------------------------------------------
(* Monitor, MonitorCond and MonitorCondSince, under the write lock of      *)
(* monitorMutex.  The tables are selected one after the other, by a        *)
(* transaction that does not take txnMutex.                                *)

\* Variant: the write lock does not wait for the reader.
MonitorUnlocked(c) ==
  /\ c \in connected /\ monitors[c] = "none"
  /\ writer = NoConn
  /\ writer' = c
  /\ selecting' = Tables
  /\ UNCHANGED <<dbVars, txnVars, monitors, connected, toNotify, calling, toCommit, mirror,
                 missed, tainted, broken, lost>>

\* A client registers one monitor: for a second one with the same identifier
\* the handler returns an error.
Monitor(c) ==
  /\ c \in connected /\ monitors[c] = "none"
  /\ writer = NoConn /\ pc # "notify"
  /\ writer' = c
  /\ selecting' = Tables
  /\ UNCHANGED <<dbVars, txnVars, monitors, connected, toNotify, calling, toCommit, mirror,
                 missed, tainted, broken, lost>>

\* The reply has all the rows of table t.  Rows that a transaction has notified
\* and not yet committed are missing from it.
MonitorSelect(t) ==
  /\ t \in selecting
  /\ selecting' = selecting \ {t}
  /\ IF \E u \in toCommit : TableOf[u] = t
       THEN missed' = missed \cup {writer} /\ mirror' = forget(mirror, {writer})
       ELSE /\ mirror' = IF writer \in missed \/ writer \notin connected THEN mirror
                         ELSE [mirror EXCEPT ![writer] = [u \in UUID |->
                                 IF TableOf[u] = t THEN db.rows[u] ELSE @[u]]]
            /\ UNCHANGED missed
  /\ UNCHANGED <<dbVars, txnVars, monitors, connected, writer, toNotify, calling, toCommit, tainted,
                 broken, lost>>

\* Variant: the write lock is not released.
MonitorRegisterLocked(kind) ==
  /\ writer # NoConn /\ selecting = {}
  /\ monitors' = [monitors EXCEPT ![writer] = kind]
  /\ UNCHANGED <<dbVars, txnVars, connected, writer, selecting, toNotify, calling, toCommit, mirror,
                 missed, tainted, broken, lost>>

MonitorRegister(kind) ==
  /\ writer # NoConn /\ selecting = {}
  /\ monitors' = [monitors EXCEPT ![writer] = kind]
  /\ writer' = NoConn
  /\ UNCHANGED <<dbVars, txnVars, connected, selecting, toNotify, calling, toCommit, mirror,
                 missed, tainted, broken, lost>>

\* The goroutine that runs the transaction.
Server ==
  \/ transact
  \/ SkipCommit
  \/ processMonitors
  \/ \E c \in Conn : Send(c)
  \/ EndNotify
  \/ \E u \in UUID : CommitRow(u)
  \/ CommitReferences

\* It can go on: it waits neither for an answer nor for monitorMutex.
ready ==
  /\ pc # "idle" /\ calling = NoConn
  /\ pc = "done" /\ ~failed => writer = NoConn

Next ==
  \/ \E ops \in Transactions : Transact(ops)
  \/ Server
  \/ \E c \in Conn : Answer(c) \/ Disconnect(c) \/ Monitor(c)
  \/ \E t \in Tables : MonitorSelect(t)
  \/ \E kind \in MonitorKinds : MonitorRegister(kind)

\* The goroutines of the server run on (Server is enabled when it is ready), and
\* a client that is called answers or loses its connection.
Fairness ==
  /\ []<>~ready \/ []<><<Server>>_vars
  /\ WF_vars(\E t \in Tables : MonitorSelect(t))
  /\ WF_vars(\E kind \in MonitorKinds : MonitorRegister(kind))
  /\ \A c \in Conn : []<>(calling # c)

Spec == Init /\ [][Next]_vars /\ Fairness

-----------------------------------------------------------------------------
(* Properties.                                                             *)

\* The references that the committed rows have.
actual(k) ==
  {u \in UUID :
     LET m == db.rows[u] c == k[1][1]
     IN  /\ m # NoModel
         /\ c \in DOMAIN m
         /\ k[2] \in (CASE IsSet(Kind[c]) -> m[c]
                        [] IsMap(Kind[c]) ->
                             IF k[1][2] THEN {m[c][x] : x \in DOMAIN m[c]} ELSE DOMAIN m[c]
                        [] OTHER -> {m[c]} \ {Nil, NoUUID})}

Listed(k) == IF dbReferences[k] = NoRefs THEN {} ELSE Range(dbReferences[k].l)

\* Between transactions, the reference lists that the database maintains by
\* differences are exactly the references that its rows have, whatever
\* insertions, mutations, deletions and garbage collections produced them
\* ("References tracks the references to rows from other rows").  Only a
\* transaction that failed after it changed the lists in place, or one that made
\* an update from a stale model of its row, spoils them.
ReferencesTrackRows ==
  pc = "idle" /\ ~tainted /\ ~broken => \A k \in RefKeys : Listed(k) = actual(k)

\* Committed rows have no reference, strong or weak, to a row that does not
\* exist: the former are refused, the latter removed.
NoDanglingReference ==
  pc = "idle" /\ ~tainted /\ ~broken =>
    \A k \in RefKeys : actual(k) # {} => k[2] \in UUID /\ db.rows[k[2]] # NoModel

\* "processWeakReferences deletes weak references to rows that were deleted":
\* after any transaction that was committed, also when one row loses references
\* in several turns of the loop.
WeakReferencesRemoved ==
  pc = "idle" /\ ~tainted =>
    \A k \in RefKeys :
      ~isStrong(k) /\ actual(k) # {} => k[2] \in UUID /\ db.rows[k[2]] # NoModel

\* Rows outside the root set that no row refers to strongly are collected, in
\* the transaction that removes the last reference and through any depth.
GarbageCollected ==
  pc = "idle" /\ ~tainted /\ ~broken =>
    \A u \in UUID : db.rows[u] # NoModel /\ ~isRoot(u) =>
      \E k \in RefKeys : k[2] = u /\ isStrong(k) /\ actual(k) # {}

\* No two rows of the database share the value of a schema index, as long as no
\* index lost the entry of a row: the rows of a transaction are only compared
\* through the indexes of its cache and of the database.
IndexUnique ==
  pc = "idle" /\ ~broken /\ ~lost =>
    \A u, w \in Rows(db, IndexedTable) :
      db.rows[u][IndexedColumn] = db.rows[w][IndexedColumn] => u = w

\* A monitor that was registered outside the window between the notification
\* and the commit of a transaction follows the database.  Whenever no
\* transaction is under way, a conditional one has its rows: the reply and the
\* merged notifications, with what the garbage collection added, tell it
\* everything.  The client of an original one loses the rows that change, as
\* they are notified by update2 without the fields that it reads; the rows it
\* still has are right.
MonitorsFollow ==
  pc = "idle" =>
    \A c \in connected \ missed, u \in UUID :
      monitors[c] # "none" /\ TableOf[u] \in Tables =>
        LET seen == mirror[c][u] row == db.rows[u]
        IN  \/ seen = NoModel /\ (row = NoModel \/ monitors[c] = "original")
            \/ /\ seen # NoModel /\ row # NoModel
               /\ \A x \in Requested[TableOf[u]] : seen[x] = row[x]

\* Every transaction ends, in spite of monitor requests and connections that
\* come and go, if clients answer their calls or are disconnected.
TransactReturns == pc # "idle" ~> pc = "idle"

=============================================================================

---------------------------- MODULE MonitorSync -----------------------------
(***************************************************************************)
(* How a client with WithReconnect keeps its cache synchronised with a     *)
(* server (client/client.go: Monitor, monitor, MonitorCancel, update,      *)
(* update2, update3, connect, handleDisconnectNotification,                *)
(* handleClientErrors).                                                    *)
(*                                                                         *)
(* Two threads of the client matter.  The reader of the connection handles *)
(* what the server sends, in order; it delivers replies and runs the       *)
(* update handlers itself.  The caller is inside monitor(), called by      *)
(* Monitor() or, for every monitor in turn, by a reconnecting connect();   *)
(* it holds monitorsMutex from before its request until it returns.        *)
(*                                                                         *)
(* The server is external: a log of committed states that all endpoints    *)
(* share, a set of transactions that each endpoint remembers, and one      *)
(* ordered connection.                                                     *)
(***************************************************************************)
EXTENDS Naturals, Sequences, FiniteSets, Functions

CONSTANTS
  Cookie,       \* the cookies Monitor() may use, each once
  Row,          \* the rows of the database
  Watched,      \* Watched[m]: the rows that the tables of monitor m hold
  Elem,         \* what the set column of a row may contain
  NoRow,        \* the contents of a row that does not exist
  Endpoint,     \* the endpoints of the cluster
  None,         \* no endpoint, no cookie
  Servers,      \* the sets of monitor methods a server may support
  Timeouts,     \* do the contexts of Monitor() and MonitorCancel() end
  MaxTxn,       \* bound: length of the log
  MaxCancel,    \* bound: calls of MonitorCancel
  MaxLoss       \* bound: connections that break, restarts that time out

Since == "monitor_cond_since"
Cond == "monitor_cond"
Plain == "monitor"

ASSUME WatchedAssumption == Watched \in [Cookie -> SUBSET Row]

ASSUME MethodAssumption ==
  \A methods \in Servers : methods \subseteq {Since, Cond, Plain} /\ Plain \in methods

ASSUME CookieAssumption == IsFiniteSet(Cookie)

ASSUME NoneAssumption == None \notin Cookie /\ None \notin Endpoint

ASSUME BoundAssumption == MaxTxn \in Nat \ {0} /\ {MaxCancel, MaxLoss} \subseteq Nat

VARIABLES
  \* the server
  log,              \* the committed states; a transaction ID is a position
  known,            \* known[s]: the transactions endpoint s remembers
  supported,        \* the monitor methods it supports
  subscribed,       \* the monitors the server has on the connection
  \* the connection
  link,             \* the endpoint at the other end, or None
  requests,         \* calls on their way to the server
  wire,             \* replies and notifications on their way to the client
  \* the client
  cache,            \* db.cache
  monitors,         \* db.monitors
  method,           \* Monitor.Method
  LastTransactionID,\* Monitor.LastTransactionID; 0 is emptyUUID
  deferUpdates,     \* db.deferUpdates
  deferredUpdates,  \* db.deferredUpdates
  mode,             \* "up", "down": waiting to reconnect, "restart": in connect
  restarting,       \* the monitors connect has still to restart
  caller,           \* where the caller of monitor() is
  callerCookie,     \* its cookie
  callerReply,      \* the reply it has been given
  drained,          \* deferred updates it has populated
  reader,           \* "idle", "update3": waits for monitorsMutex,
                    \* "error": waits to send on errorCh
  readerUpdate,     \* the notification whose LastTransactionID it is to store
  oldError,         \* the reader of an earlier connection still waits to send
  errorHandler,     \* "idle", "taken": has an error, "reset": to disconnect
  synced,           \* history: the position of the log whose state the reply or
                    \* notification applied last led to
  used,             \* cookies that have been used
  cancels,          \* calls of MonitorCancel
  losses            \* connections that broke, restarts that timed out

server == <<log, known, supported, subscribed>>
connection == <<link, requests, wire>>
database == <<cache, synced, monitors, method, LastTransactionID, deferUpdates,
              deferredUpdates>>
callerVars == <<mode, restarting, caller, callerCookie, callerReply, drained>>
readerVars == <<reader, readerUpdate, oldError, errorHandler>>
bounds == <<used, cancels, losses>>

vars == <<server, connection, database, callerVars, readerVars, bounds>>

-----------------------------------------------------------------------------
(* Contents, and the row updates between two of them.  The column of a row *)
(* is a set.  A modification is the symmetric difference of the old and    *)
(* the new set; the plain method sends the new set instead.                *)

Content == SUBSET Elem
Rows == [Row -> Content \cup {NoRow}]
noRows == [r \in Row |-> NoRow]
latest == log[Len(log)]

SymmetricDifference(a, b) == (a \ b) \cup (b \ a)

\* The update that takes one row from the contents a to the contents b.
RowUpdate(meth, a, b) ==
  CASE a = NoRow                   -> [op |-> "insert", data |-> b]
    [] a # NoRow /\ b = NoRow      -> [op |-> "delete", data |-> {}]
    [] NoRow \notin {a, b} /\ meth = Plain -> [op |-> "replace", data |-> b]
    [] NoRow \notin {a, b} /\ meth # Plain ->
         [op |-> "modify", data |-> SymmetricDifference(a, b)]

\* The updates that take the rows of monitor m from one state to another.
Updates(m, from, to) ==
  [r \in {x \in Watched[m] : from[x] # to[x]} |-> RowUpdate(method[m], from[r], to[r])]

\* ApplyCacheUpdate refuses to create a row that exists; Populate2 and Delete
\* refuse to change one that does not.
Applicable(rows, updates, r) == (updates[r].op = "insert") <=> (rows[r] = NoRow)

\* The contents of a row once its update has been applied.
Applied(rows, updates, r) ==
  CASE updates[r].op = "insert" -> updates[r].data
    [] updates[r].op = "delete" -> NoRow
    [] updates[r].op = "replace" -> updates[r].data
    [] updates[r].op = "modify" -> SymmetricDifference(rows[r], updates[r].data)

AppliedTo(rows, updates, S) ==
  [r \in Row |-> IF r \in S THEN Applied(rows, updates, r) ELSE rows[r]]

PopulateFails(rows, updates) == \E r \in DOMAIN updates : ~Applicable(rows, updates, r)

\* What Populate2 may leave behind: all rows updated or, if one of them fails,
\* those that the iteration over the map came to before.
Populated(rows, updates) ==
  IF PopulateFails(rows, updates)
    THEN {AppliedTo(rows, updates, S) :
            S \in SUBSET {r \in DOMAIN updates : Applicable(rows, updates, r)}}
    ELSE {AppliedTo(rows, updates, DOMAIN updates)}

\* Variant: Monitor() returns without releasing monitorsMutex.
monitorsMutexLeaked == monitors = {} /\ caller = "idle"

\* The caller holds monitorsMutex while it is in monitor(), connect holds it
\* from its first monitor to its last; MonitorCancel takes it only to finish.
monitorsMutexFree == caller \in {"idle", "cancelling"} /\ mode # "restart"

-----------------------------------------------------------------------------
(* The server (external).                                                  *)

\* A transaction commits; every endpoint has it, and the monitors of the
\* connection that see a change of their rows are notified.
Commit(rows) ==
  /\ Len(log) < MaxTxn
  /\ rows # latest
  /\ log' = Append(log, rows)
  /\ known' = [s \in Endpoint |-> known[s] \cup {Len(log) + 1}]
  /\ LET notified == {m \in subscribed : DOMAIN Updates(m, latest, rows) # {}}
     IN  \E order \in Bijection(1..Cardinality(notified), notified) :
           wire' = wire \o [n \in DOMAIN order |->
                              [kind |-> "update", cookie |-> order[n], last |-> Len(log) + 1,
                               updates |-> Updates(order[n], latest, rows)]]
  /\ UNCHANGED <<supported, subscribed, link, requests, database, callerVars, readerVars, bounds>>

\* An endpoint restarts or trims its history.
Forget(s) ==
  /\ known[s] # {}
  /\ known' = [known EXCEPT ![s] = {}]
  /\ UNCHANGED <<log, supported, subscribed, connection, database, callerVars, readerVars, bounds>>

\* The server answers the oldest call.
ServeMonitor ==
  /\ requests # <<>>
  /\ LET call == Head(requests)
         m == call.cookie
         found == call.method = Since /\ call.since \in known[link]
         base == IF found THEN log[call.since] ELSE noRows
     IN  \/ /\ call.method = "monitor_cancel"
            /\ subscribed' = subscribed \ {m}
            /\ wire' = Append(wire, [kind |-> "cancelled", cookie |-> m])
         \/ /\ call.method \in {Since, Cond, Plain} \ supported
            /\ wire' = Append(wire, [kind |-> "unknown_method", cookie |-> m])
            /\ UNCHANGED subscribed
         \/ /\ call.method \in supported
            /\ subscribed' = subscribed \cup {m}
            /\ wire' = Append(wire, [kind |-> "reply", cookie |-> m, found |-> found,
                                     last |-> Len(log),
                                     updates |-> Updates(m, base, latest)])
  /\ requests' = Tail(requests)
  /\ UNCHANGED <<log, known, supported, link, database, callerVars, readerVars, bounds>>

\* The connection breaks.  What is on its way is lost.
cut ==
  /\ link' = None
  /\ requests' = <<>>
  /\ wire' = <<>>
  /\ subscribed' = {}

LinkLost ==
  /\ link # None
  /\ losses < MaxLoss
  /\ losses' = losses + 1
  /\ cut
  /\ UNCHANGED <<log, known, supported, database, callerVars, readerVars, used, cancels>>

-----------------------------------------------------------------------------
(* The caller: monitor().                                                  *)

\* The request: monitor_cond_since asks for what happened since the last
\* transaction if this is the only monitor and it is being restarted.
request(m, meth, reconnecting) ==
  [method |-> meth, cookie |-> m,
   since |-> IF meth = Since /\ reconnecting /\ Cardinality(monitors) = 1
               THEN LastTransactionID[m] ELSE 0]

call(m, reconnecting) ==
  /\ caller' = "calling"
  /\ callerCookie' = m
  /\ requests' = Append(requests, request(m, method[m], reconnecting))
  /\ UNCHANGED <<server, link, wire, database, callerReply, drained, readerVars, cancels, losses>>

Monitor(m) ==
  /\ mode = "up" /\ link # None
  /\ caller = "idle"
  /\ m \notin used
  /\ used' = used \cup {m}
  /\ call(m, FALSE)
  /\ UNCHANGED <<mode, restarting>>

\* connect restarts the next monitor.
RestartMonitor(m) ==
  /\ mode = "restart" /\ link # None
  /\ caller = "idle"
  /\ m \in restarting
  /\ restarting' = restarting \ {m}
  /\ call(m, TRUE)
  /\ UNCHANGED <<mode, used>>

\* Variant: the count of populated updates survives the call.
forgetAllButDrained == callerCookie' = None /\ callerReply' = None /\ UNCHANGED drained

\* The local variables of the caller are gone.
forget == callerCookie' = None /\ callerReply' = None /\ drained' = 0

\* monitor() returns an error.  If it was called by connect, connect resets the
\* connection and the reconnect loop starts over with no deferred updates.
returnError ==
  /\ caller' = "idle"
  /\ IF mode = "restart"
       THEN /\ mode' = "down"
            /\ restarting' = {}
            /\ cut
            /\ deferUpdates' = TRUE
            /\ deferredUpdates' = <<>>
       ELSE UNCHANGED <<mode, restarting, subscribed, connection, deferUpdates, deferredUpdates>>
  /\ forget
  /\ UNCHANGED <<log, known, supported, method, readerVars, used, cancels>>

\* The call ends because the read loop has (its handler must have returned), or
\* because its context ends.
CallFails ==
  /\ caller \in {"calling", "cancelling"}
  /\ \/ link = None /\ reader = "idle" /\ UNCHANGED losses
     \/ mode = "restart" /\ reader # "idle" /\ UNCHANGED losses
     \/ mode = "restart" /\ link # None /\ losses < MaxLoss /\ losses' = losses + 1
     \/ Timeouts /\ mode = "up" /\ UNCHANGED losses
  /\ returnError
  /\ UNCHANGED <<cache, synced, monitors, LastTransactionID>>

\* connect finds the connection broken before it can restart the next monitor.
RestartFails ==
  /\ mode = "restart" /\ link = None
  /\ caller = "idle"
  /\ returnError
  /\ UNCHANGED <<cache, synced, monitors, LastTransactionID, losses>>

\* The server does not know the method: try the next simpler one.
Fallback ==
  /\ caller = "replied" /\ callerReply.kind = "unknown_method"
  /\ LET m == callerCookie
         next == IF method[m] = Since THEN Cond ELSE Plain
     IN  /\ method' = [method EXCEPT ![m] = next]
         /\ requests' = IF link = None THEN requests
                        ELSE Append(requests, request(m, next, mode = "restart"))
  /\ caller' = "calling"
  /\ callerReply' = None
  /\ UNCHANGED <<server, link, wire, cache, synced, monitors, LastTransactionID, deferUpdates,
                 deferredUpdates, mode, restarting, callerCookie, drained, readerVars, bounds>>

\* On reconnection the cache is purged unless the reply continues what the only
\* monitor has.
purge == mode = "restart" /\ (Cardinality(monitors) > 1 \/ ~callerReply.found)

\* The rows of the reply go into the cache.
PopulateReply ==
  /\ caller = "replied" /\ callerReply.kind = "reply"
  /\ LET m == callerCookie
         before == IF purge THEN noRows ELSE cache
     IN  /\ monitors' = monitors \cup {m}
         /\ LastTransactionID' = IF callerReply.found
                                   THEN [LastTransactionID EXCEPT ![m] = callerReply.last]
                                   ELSE LastTransactionID
         /\ cache' \in Populated(before, callerReply.updates)
         /\ synced' = callerReply.last
         /\ \/ /\ PopulateFails(before, callerReply.updates)
               /\ returnError
            \/ /\ ~PopulateFails(before, callerReply.updates)
               /\ caller' = "draining"
               /\ callerReply' = None
               /\ deferUpdates' = FALSE
               /\ UNCHANGED <<server, connection, method, deferredUpdates, mode, restarting,
                              callerCookie, drained, readerVars, used, cancels>>
  /\ UNCHANGED losses

\* The next of the updates that were deferred.
PopulateDeferred ==
  /\ caller = "draining" /\ drained < Len(deferredUpdates)
  /\ LET update == deferredUpdates[drained + 1]
     IN  /\ cache' \in Populated(cache, update.updates)
         /\ synced' = update.at
         /\ \/ /\ PopulateFails(cache, update.updates)
               /\ returnError
               /\ UNCHANGED LastTransactionID
            \/ /\ ~PopulateFails(cache, update.updates)
               /\ LastTransactionID' = IF update.last > 0
                    THEN [LastTransactionID EXCEPT ![callerCookie] = update.last]
                    ELSE LastTransactionID
               /\ drained' = drained + 1
               /\ UNCHANGED <<server, connection, method, deferUpdates, deferredUpdates,
                              mode, restarting, caller, callerCookie, callerReply,
                              readerVars, used, cancels>>
  /\ UNCHANGED <<monitors, losses>>

\* monitor() returns; if it restarted the last monitor, connect does as well.
MonitorReturns ==
  /\ caller = "draining" /\ drained = Len(deferredUpdates)
  /\ deferredUpdates' = <<>>
  /\ caller' = "idle"
  /\ mode' = IF restarting = {} THEN "up" ELSE mode
  /\ forget
  /\ UNCHANGED <<server, connection, cache, synced, monitors, method, LastTransactionID,
                 deferUpdates, restarting, readerVars, bounds>>

\* Variant: the monitor is forgotten when its cancellation is requested.
MonitorCancelEarly(m) ==
  /\ cancels < MaxCancel /\ cancels' = cancels + 1
  /\ mode = "up" /\ link # None
  /\ caller = "idle"
  /\ m \in monitors
  /\ monitors' = monitors \ {m}
  /\ caller' = "cancelling"
  /\ callerCookie' = m
  /\ requests' = Append(requests, [method |-> "monitor_cancel", cookie |-> m, since |-> 0])
  /\ UNCHANGED <<server, link, wire, cache, synced, method, LastTransactionID, deferUpdates,
                 deferredUpdates, mode, restarting, callerReply, drained, readerVars,
                 used, losses>>

MonitorCancel(m) ==
  /\ cancels < MaxCancel /\ cancels' = cancels + 1
  /\ mode = "up" /\ link # None
  /\ caller = "idle"
  /\ m \in monitors
  /\ caller' = "cancelling"
  /\ callerCookie' = m
  /\ requests' = Append(requests, [method |-> "monitor_cancel", cookie |-> m, since |-> 0])
  /\ UNCHANGED <<server, link, wire, database, mode, restarting, callerReply, drained,
                 readerVars, used, losses>>

\* The monitor is forgotten; its rows stay in the cache.
MonitorCancelled ==
  /\ caller = "replied" /\ callerReply.kind = "cancelled"
  /\ monitors' = monitors \ {callerCookie}
  /\ caller' = "idle"
  /\ forget
  /\ UNCHANGED <<server, connection, cache, synced, method, LastTransactionID, deferUpdates,
                 deferredUpdates, mode, restarting, readerVars, bounds>>

-----------------------------------------------------------------------------
(* The reader.                                                             *)

\* A reply goes to the call that waits for it, if it still does.
DeliverReply ==
  /\ reader = "idle"
  /\ wire # <<>> /\ Head(wire).kind # "update"
  /\ wire' = Tail(wire)
  /\ IF caller \in {"calling", "cancelling"} /\ callerCookie = Head(wire).cookie
       THEN caller' = "replied" /\ callerReply' = Head(wire)
       ELSE UNCHANGED <<caller, callerReply>>
  /\ UNCHANGED <<server, link, requests, database, mode, restarting, callerCookie, drained,
                 readerVars, bounds>>

\* The next message is a notification, and cacheMutex is free.
receive ==
  /\ reader = "idle" /\ caller # "draining"
  /\ wire # <<>> /\ Head(wire).kind = "update"
  /\ wire' = Tail(wire)
  /\ UNCHANGED <<server, link, requests, monitors, method, LastTransactionID, callerVars,
                 oldError, errorHandler, bounds>>

\* Variant: notifications that arrive too early are dropped.
DropUpdate ==
  /\ receive
  /\ deferUpdates
  /\ UNCHANGED <<cache, synced, deferUpdates, deferredUpdates, reader, readerUpdate>>

\* update, update2 and update3 while deferUpdates is set.
DeferUpdate ==
  /\ receive
  /\ deferUpdates
  /\ LET msg == Head(wire)
     IN  deferredUpdates' = Append(deferredUpdates,
           [updates |-> msg.updates, at |-> msg.last,
            last |-> IF method[msg.cookie] = Since THEN msg.last ELSE 0])
  /\ UNCHANGED <<cache, synced, deferUpdates, reader, readerUpdate>>

\* update3: an error is returned to the library, which ignores it.
update3 ==
  /\ receive
  /\ ~deferUpdates
  /\ method[Head(wire).cookie] = Since
  /\ LET msg == Head(wire)
     IN  /\ cache' \in Populated(cache, msg.updates)
         /\ synced' = msg.last
         /\ IF PopulateFails(cache, msg.updates)
              THEN UNCHANGED <<reader, readerUpdate>>
              ELSE reader' = "update3" /\ readerUpdate' = msg
  /\ UNCHANGED <<deferUpdates, deferredUpdates>>

\* Variant: update3 does not store the transaction ID.
ForgetLastTransactionID ==
  /\ reader = "update3"
  /\ monitorsMutexFree
  /\ reader' = "idle" /\ readerUpdate' = None
  /\ UNCHANGED <<server, connection, database, callerVars, oldError, errorHandler, bounds>>

\* update3 has got monitorsMutex.
UpdateLastTransactionID ==
  /\ reader = "update3"
  /\ monitorsMutexFree
  /\ readerUpdate.cookie \in monitors
  /\ LastTransactionID' = [LastTransactionID EXCEPT ![readerUpdate.cookie] = readerUpdate.last]
  /\ reader' = "idle" /\ readerUpdate' = None
  /\ UNCHANGED <<server, connection, cache, synced, monitors, method, deferUpdates,
                 deferredUpdates, callerVars, oldError, errorHandler, bounds>>

\* update and update2: an error is sent to handleClientErrors.
update2 ==
  /\ receive
  /\ ~deferUpdates
  /\ method[Head(wire).cookie] # Since
  /\ LET msg == Head(wire)
     IN  /\ cache' \in Populated(cache, msg.updates)
         /\ synced' = msg.last
         /\ reader' = IF PopulateFails(cache, msg.updates) THEN "error" ELSE reader
  /\ UNCHANGED <<deferUpdates, deferredUpdates, readerUpdate>>

-----------------------------------------------------------------------------
(* handleClientErrors, which runs while the client is connected.           *)

TakeError ==
  /\ mode = "up" /\ errorHandler = "idle"
  /\ \/ reader = "error" /\ reader' = "idle" /\ UNCHANGED oldError
     \/ oldError /\ oldError' = FALSE /\ UNCHANGED reader
  /\ errorHandler' = "taken"
  /\ UNCHANGED <<server, connection, database, callerVars, readerUpdate, bounds>>

ResetTransactionIDs ==
  /\ errorHandler = "taken"
  /\ monitorsMutexFree
  /\ LastTransactionID' = [m \in Cookie |-> IF m \in monitors THEN 0 ELSE LastTransactionID[m]]
  /\ errorHandler' = "reset"
  /\ UNCHANGED <<server, connection, cache, synced, monitors, method, deferUpdates,
                 deferredUpdates, callerVars, reader, readerUpdate, oldError, bounds>>

\* Variant: the connection is not closed.
DisconnectWithoutClose ==
  /\ errorHandler = "reset"
  /\ caller = "idle"
  /\ errorHandler' = "idle"
  /\ UNCHANGED <<server, connection, database, callerVars, reader, readerUpdate, oldError,
                 bounds>>

\* Disconnect waits for rpcMutex, hence for a running Monitor().
Disconnect ==
  /\ errorHandler = "reset"
  /\ caller = "idle"
  /\ cut
  /\ errorHandler' = "idle"
  /\ UNCHANGED <<log, known, supported, database, callerVars, reader, readerUpdate, oldError, bounds>>

-----------------------------------------------------------------------------
(* handleDisconnectNotification.                                           *)

\* Variant: updates are not deferred while the monitors are restarted.
HandleDisconnectWithoutDefer ==
  /\ mode = "up" /\ link = None
  /\ reader = "idle" /\ errorHandler = "idle" /\ caller = "idle"
  /\ mode' = "down"
  /\ UNCHANGED <<server, connection, database, restarting, caller, callerCookie, callerReply,
                 drained, readerVars, bounds>>

\* It waits for the read loop, the handlers and rpcMutex.
HandleDisconnect ==
  /\ mode = "up" /\ link = None
  /\ reader = "idle" /\ errorHandler = "idle" /\ caller = "idle"
  /\ mode' = "down"
  /\ deferUpdates' = TRUE
  /\ deferredUpdates' = <<>>
  /\ UNCHANGED <<server, connection, cache, synced, monitors, method, LastTransactionID,
                 restarting, caller, callerCookie, callerReply, drained, readerVars, bounds>>

\* connect reaches an endpoint.  After a failed attempt the reader of that
\* attempt may still wait to report an error; a reader that waited for
\* monitorsMutex has had the pause between two attempts to finish.
Connect(s) ==
  /\ mode = "down"
  /\ reader # "update3"
  /\ link' = s
  /\ reader' = "idle"
  /\ oldError' = (oldError \/ reader = "error")
  /\ IF monitors = {}
       THEN mode' = "up" /\ cache' = noRows /\ synced' = 0 /\ UNCHANGED restarting
       ELSE mode' = "restart" /\ restarting' = monitors /\ UNCHANGED <<cache, synced>>
  /\ UNCHANGED <<server, requests, wire, monitors, method, LastTransactionID, deferUpdates,
                 deferredUpdates, caller, callerCookie, callerReply, drained, readerUpdate,
                 errorHandler, bounds>>

-----------------------------------------------------------------------------

\* The client has just made its first connection.
Init ==
  /\ log \in [1..1 -> Rows]
  /\ known = [s \in Endpoint |-> {1}]
  /\ supported \in Servers /\ subscribed = {}
  /\ link \in Endpoint /\ requests = <<>> /\ wire = <<>>
  /\ cache = noRows /\ synced = 0 /\ monitors = {}
  /\ method = [m \in Cookie |-> Since]
  /\ LastTransactionID = [m \in Cookie |-> 0]
  /\ deferUpdates = TRUE /\ deferredUpdates = <<>>
  /\ mode = "up" /\ restarting = {}
  /\ caller = "idle" /\ callerCookie = None /\ callerReply = None /\ drained = 0
  /\ reader = "idle" /\ readerUpdate = None /\ oldError = FALSE /\ errorHandler = "idle"
  /\ used = {} /\ cancels = 0 /\ losses = 0

Environment ==
  \/ \E rows \in Rows : Commit(rows)
  \/ \E s \in Endpoint : Forget(s)
  \/ LinkLost
  \/ \E m \in Cookie : Monitor(m) \/ MonitorCancel(m)

CallerSteps ==
  \/ \E m \in Cookie : RestartMonitor(m)
  \/ CallFails \/ RestartFails \/ Fallback
  \/ PopulateReply \/ PopulateDeferred \/ MonitorReturns \/ MonitorCancelled

ReaderSteps ==
  DeliverReply \/ DeferUpdate \/ update3 \/ UpdateLastTransactionID \/ update2

ConnectionSteps ==
  \/ TakeError \/ ResetTransactionIDs \/ Disconnect
  \/ HandleDisconnect \/ \E s \in Endpoint : Connect(s)

Next == Environment \/ ServeMonitor \/ CallerSteps \/ ReaderSteps \/ ConnectionSteps

Spec == Init /\ [][Next]_vars

\* The server answers, the goroutines of the client run and a connection can be
\* made again.
FairSpec ==
  /\ Spec
  /\ WF_vars(ServeMonitor)
  /\ WF_vars(CallerSteps)
  /\ WF_vars(ReaderSteps)
  /\ WF_vars(ConnectionSteps)

-----------------------------------------------------------------------------
(* Properties.                                                             *)

Message ==
  [kind : {"update", "reply", "unknown_method", "cancelled"}, cookie : Cookie]

\* The variables have their types.
TypeOK ==
  /\ \A n \in DOMAIN log : log[n] \in Rows
  /\ known \in [Endpoint -> SUBSET DOMAIN log]
  /\ supported \in Servers
  /\ subscribed \subseteq Cookie /\ monitors \subseteq Cookie
  /\ restarting \subseteq Cookie /\ used \subseteq Cookie
  /\ link \in Endpoint \cup {None}
  /\ link = None => subscribed = {} /\ requests = <<>> /\ wire = <<>>
  /\ \A n \in DOMAIN wire : [kind |-> wire[n].kind, cookie |-> wire[n].cookie] \in Message
  /\ cache \in Rows /\ synced \in 0..Len(log)
  /\ method \in [Cookie -> {Since, Cond, Plain}]
  /\ LastTransactionID \in [Cookie -> 0..Len(log)]
  /\ deferUpdates \in BOOLEAN /\ drained \in 0..Len(deferredUpdates)
  /\ mode \in {"up", "down", "restart"}
  /\ caller \in {"idle", "calling", "cancelling", "replied", "draining"}
  /\ callerCookie \in Cookie \cup {None}
  /\ reader \in {"idle", "update3", "error"} /\ oldError \in BOOLEAN
  /\ errorHandler \in {"idle", "taken", "reset"}

\* Connected, and nothing left to do for anyone.
Quiet ==
  /\ link # None /\ mode = "up" /\ requests = <<>> /\ wire = <<>>
  /\ caller = "idle" /\ reader = "idle" /\ errorHandler = "idle" /\ ~oldError

\* Once the client is connected and has handled all there is, the rows of every
\* monitor are those of the server.
Synchronised ==
  Quiet => \A m \in monitors : \A r \in Watched[m] : cache[r] = latest[r]

\* When the client is about to reconnect with one monitor, the transaction ID it
\* will send names the state the cache holds, for every endpoint that still
\* remembers the transaction (monitor: "we can use its LastTransactionID since
\* it is valid ... and we can safely keep the cache intact").
LastTransactionIDValid ==
  mode = "down" =>
    \A m \in monitors, s \in Endpoint :
      monitors = {m} /\ LastTransactionID[m] \in known[s] =>
        \A r \in Watched[m] : cache[r] = log[LastTransactionID[m]][r]

\* update3 finds the monitor of its cookie in db.monitors when it gets to store
\* the transaction ID (it does not check that the lookup succeeds).
MonitorFound ==
  reader = "update3" /\ monitorsMutexFree => readerUpdate.cookie \in monitors

\* With one monitor of all rows the cache is a replica: always one committed
\* state, never an earlier one, across deferred updates, lost connections and
\* both ways of resynchronising; only without the monitor may it be emptied.
replica == INSTANCE Replica WITH
  States <- Rows, Empty <- noRows, history <- log, followed <- monitors # {}, view <- cache,
  at <- synced

ImplementsReplica == replica!Spec

\* A client that has a monitor gets to the latest state of the server once
\* transactions and disconnections cease.
CatchesUp == monitors # {} ~> Quiet /\ Synchronised

\* An update or update2 that cannot be applied makes the client reconnect, which
\* rebuilds the cache (handleClientErrors: "triggering reconnect to rebuild
\* cache").
ErrorsRebuild == reader = "error" ~> mode = "down"

\* A call of Monitor() ends.
MonitorEnds == caller = "calling" ~> caller = "idle"

=============================================================================

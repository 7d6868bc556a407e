-------------------------- MODULE ClientConnection --------------------------
(***************************************************************************)
(* The connection of ovsdbClient (src/client/client.go) over its whole     *)
(* life: connecting to the first usable endpoint, losing the connection,   *)
(* the reconnect loop, the inactivity probe, the watch for a change of     *)
(* leader, transactions that wait for a connection, UpdateEndpoints,       *)
(* Disconnect and Close, run by goroutines that share rpcMutex.  The       *)
(* client is created WithLeaderOnly, and either WithInactivityCheck, which *)
(* implies WithReconnect, or without both.                                 *)
(*                                                                         *)
(* A connection and the goroutines that connect starts for it live in a    *)
(* slot, free again when the last of them has ended.  rpcMutex is held for *)
(* writing by `writer' over the blocking steps of connect, and for reading *)
(* by the calls of Transact, Echo and the leader watch; every other holder *)
(* keeps it for one step.  monitorsMutex is held by the leader watch over  *)
(* its call, and for one step by others.  What the monitors do to the      *)
(* cache is in MonitorSync: here the cache is there or nil.                *)
(***************************************************************************)
EXTENDS Naturals, Sequences, Functions

CONSTANTS Endpoint,    \* addresses of the servers of the cluster
          Slot,        \* room for connections
          NoConn,      \* nil rpcClient
          User, Nobody, \* holders of rpcMutex besides the handlers of a slot
          EndpointLists, \* what UpdateEndpoints may be called with
          Patient,     \* the user waits for DisconnectNotify before Connect
          Deadlines    \* the contexts given to Connect and Transact end

\* A list of endpoints, none of them twice.
distinct(eps) ==
    /\ eps \in Seq(Endpoint)
    /\ \A i, j \in DOMAIN eps : eps[i] = eps[j] => i = j

ASSUME ClientAssumption ==
    /\ NoConn \notin Slot /\ User \notin Slot /\ Nobody \notin Slot
    /\ NoConn \notin Endpoint
    /\ User # Nobody /\ Patient \in BOOLEAN /\ Deadlines \in BOOLEAN
    /\ \A eps \in EndpointLists : distinct(eps) /\ eps # <<>>

VARIABLES
    reconnect,  \* options.reconnect and options.inactivityTimeout > 0
    endpoints,  \* addresses in the order in which connect tries them
    serverID,   \* the endpoints whose serverID is known
    rpcClient,  \* the slot of the connection, or NoConn
    connected, shutdown,
    writer,     \* who holds rpcMutex for writing: a connect in progress
    attempt,    \* the loop of connect: [stage, i]
    handler,    \* handleDisconnectNotification, per slot
    probe,      \* handleInactivityProbes, per slot
    tx,         \* a goroutine that calls Transact
    user,       \* a goroutine that calls Connect, Disconnect, Close, ...
    cache,      \* db.cache is not nil
    monitoring, \* db.monitors holds the monitor of the leader watch
    link,       \* the server a slot has an open connection to, or NoConn
    up,         \* servers that accept connections and answer
    leader,     \* the server that leads the cluster
    watched,    \* slots on which the server has the leader watch
    notices,    \* "no longer the leader" from these servers is on its way
    watcher,    \* the server whose notice watchForLeaderChange handles
    closed      \* history: the last call closed a connection with Close

server == <<up, leader>>
conn == <<rpcClient, link>>
list == <<endpoints, serverID>>
data == <<cache, monitoring, watched, notices>>
pcs == <<handler, probe, tx, user, watcher>>
vars == <<reconnect, list, conn, connected, shutdown, writer, attempt, pcs,
          data, server, closed>>

Idle == [stage |-> "none", i |-> 0]

TypeOK ==
    /\ reconnect \in BOOLEAN /\ connected \in BOOLEAN /\ shutdown \in BOOLEAN
    /\ distinct(endpoints) /\ endpoints # <<>>
    /\ serverID \subseteq Endpoint /\ up \subseteq Endpoint
    /\ rpcClient \in Slot \union {NoConn}
    /\ writer \in Slot \union {User, Nobody}
    /\ attempt \in [stage : {"none", "dial", "check", "monitors"}, i : Nat]
    /\ handler \in [Slot -> {"none", "watch", "stopped", "retry", "cleanup",
                             "reset"}]
    /\ probe \in [Slot -> {"none", "timer", "echo", "disconnect"}]
    /\ tx \in {"idle", "waiting", "calling"}
    /\ user \in {"idle", "connecting", "leader", "locked", "calling", "panic"}
    /\ cache \in BOOLEAN /\ monitoring \in BOOLEAN /\ closed \in BOOLEAN
    /\ link \in [Slot -> Endpoint \union {NoConn}] /\ watched \subseteq Slot
    /\ leader \in Endpoint /\ notices \subseteq Endpoint
    /\ watcher \in Endpoint \union {NoConn}

(***************************************************************************)
(* newOVSDBClient: nothing is connected and no goroutine runs.             *)
(***************************************************************************)
Init ==
    /\ reconnect \in BOOLEAN
    /\ endpoints \in EndpointLists /\ serverID = {}
    /\ rpcClient = NoConn /\ connected = FALSE /\ shutdown = FALSE
    /\ writer = Nobody /\ attempt = Idle
    /\ handler = [n \in Slot |-> "none"] /\ probe = [n \in Slot |-> "none"]
    /\ tx = "idle" /\ user = "idle" /\ watcher = NoConn
    /\ cache = FALSE /\ monitoring = FALSE
    /\ watched = {} /\ notices = {}
    /\ link = [n \in Slot |-> NoConn]
    /\ up = Endpoint /\ leader = endpoints[1]
    /\ closed = FALSE

-----------------------------------------------------------------------------
(* rpcMutex, an RWMutex, and monitorsMutex *)

\* Goroutines that have called Lock: they keep new readers out.
waitingWriter ==
    \/ \E n \in Slot : probe[n] = "disconnect"
                       \/ (handler[n] = "stopped" /\ probe[n] = "none")
    \/ watcher # NoConn

canRead == writer = Nobody /\ ~waitingWriter

canWrite ==
    /\ writer = Nobody
    /\ tx # "calling" /\ user # "calling"
    /\ \A n \in Slot : probe[n] # "echo"

monitorsUnlocked == user \notin {"locked", "calling"}

-----------------------------------------------------------------------------
(* The servers and the network *)

open == {n \in Slot : link[n] # NoConn}

ServerDown ==
    /\ \E e \in up : up' = up \ {e}
    /\ UNCHANGED <<reconnect, list, conn, connected, shutdown, writer,
                   attempt, pcs, data, leader, closed>>

ServerUp ==
    /\ up # Endpoint
    /\ \E e \in Endpoint \ up : up' = up \union {e}
    /\ UNCHANGED <<reconnect, list, conn, connected, shutdown, writer,
                   attempt, pcs, data, leader, closed>>

\* What closing the connection of slot n leaves of it: nothing is delivered
\* any more.
close(n) ==
    /\ link' = [link EXCEPT ![n] = NoConn]
    /\ watched' = watched \ {n}
    /\ notices' = IF n = rpcClient THEN {} ELSE notices

\* A server closes an established connection, or a failed one is reset.
Drop ==
    /\ \E n \in open :
         /\ handler[n] = "watch" \/ link[n] \notin up
         /\ close(n)
    /\ UNCHANGED <<reconnect, list, rpcClient, connected, shutdown,
                   writer, attempt, pcs, cache, monitoring, server, closed>>

\* Another server becomes the leader; the old one tells who watches it.
LeaderChange ==
    /\ \E e \in Endpoint \ {leader} : leader' = e
    /\ notices' = IF \E n \in watched : link[n] = leader
                  THEN notices \union {leader}
                  ELSE notices
    /\ UNCHANGED <<reconnect, list, conn, connected, shutdown, writer,
                   attempt, pcs, cache, monitoring, watched, up, closed>>

-----------------------------------------------------------------------------
(* connect *)

\* The connection is open and its server answers calls.
answers(n) == link[n] \in up

\* The variants that leave the list as it is, and that leave the endpoint in
\* its old place too.
moveEndpointFirstNot(eps, i) == eps
moveEndpointFirstTwice(eps, i) == <<eps[i]>> \o eps

\* The endpoints that are not moved.
othereps(eps, i) == SubSeq(eps, 1, i - 1) \o SubSeq(eps, i + 1, Len(eps))

moveEndpointFirst(eps, i) == <<eps[i]>> \o othereps(eps, i)

moveEndpointLast(eps, i) == Append(othereps(eps, i), eps[i])

\* The variant in which the reconnect loop ends with its first failure.
connectFailsForGood(w) ==
    /\ writer' = Nobody /\ attempt' = Idle
    /\ user' = IF w = User THEN "idle" ELSE user
    /\ handler' = [n \in Slot |-> IF n = w THEN "none" ELSE handler[n]]
    /\ UNCHANGED <<probe, tx, watcher>>

\* connect returns an error to the user, or to the backoff of a handler,
\* which tries again.
connectFails(w) ==
    /\ writer' = Nobody /\ attempt' = Idle
    /\ user' = IF w = User THEN "idle" ELSE user
    /\ UNCHANGED <<handler, probe, tx, watcher>>

\* connect takes rpcMutex; with an rpcClient it returns ErrAlreadyConnected,
\* a success for Connect and a failed attempt for the reconnect loop.
connect(w) ==
    /\ canWrite
    /\ \/ /\ rpcClient # NoConn
          /\ connectFails(w)
       \/ /\ rpcClient = NoConn
          /\ writer' = w /\ attempt' = [stage |-> "dial", i |-> 1]
          /\ user' = IF w = User THEN "connecting" ELSE user
          /\ UNCHANGED <<handler, probe, tx, watcher>>
    /\ UNCHANGED <<reconnect, list, conn, connected, shutdown, data, server>>

freeSlot(n) == handler[n] = "none" /\ probe[n] = "none" /\ n \notin open

\* No endpoint is left: connect fails.  Otherwise the next one is dialled.
dial ==
    /\ attempt.stage = "dial"
    /\ \/ /\ attempt.i > Len(endpoints)
          /\ connectFails(writer)
          /\ UNCHANGED conn
       \/ /\ attempt.i <= Len(endpoints)
          /\ endpoints[attempt.i] \notin up
          /\ attempt' = [attempt EXCEPT !.i = @ + 1]
          /\ UNCHANGED <<conn, writer, pcs>>
       \/ /\ attempt.i <= Len(endpoints)
          /\ endpoints[attempt.i] \in up
          /\ \E n \in Slot : freeSlot(n)
          /\ LET n == CHOOSE m \in Slot : freeSlot(m)
             IN /\ rpcClient' = n
                /\ link' = [link EXCEPT ![n] = endpoints[attempt.i]]
          /\ attempt' = [attempt EXCEPT !.stage = "check"]
          /\ UNCHANGED <<writer, pcs>>
    /\ UNCHANGED <<reconnect, list, connected, shutdown, data, server, closed>>

\* connect starts the goroutines of the new connection and returns.
started ==
    /\ handler' = [n \in Slot |-> IF n = rpcClient THEN "watch"
                                 ELSE IF n = writer THEN "none"
                                 ELSE handler[n]]
    /\ probe' = [probe EXCEPT ![rpcClient] = IF reconnect THEN "timer"
                                                         ELSE "none"]
    /\ user' = IF writer = User THEN "leader" ELSE user
    /\ connected' = TRUE
    /\ writer' = Nobody /\ attempt' = Idle
    /\ UNCHANGED <<tx, watcher>>

\* The variant that forgets the client and leaves its connection open.
resetRPCClientOpen ==
    /\ rpcClient' = NoConn
    /\ UNCHANGED <<link, watched, notices>>

resetRPCClient ==
    /\ rpcClient' = NoConn
    /\ close(rpcClient)

\* The variant that counts on the cache of an earlier connection.
cacheAfterCheckOld == cache

\* A server that answers with its schemas gets the client a cache.
cacheAfterCheck == cache \/ answers(rpcClient)

\* It asks with transact, which fails while the client is shutting down.
isEndpointLeader(n) == ~shutdown /\ answers(n) /\ link[n] = leader

\* The rest of tryEndpoint: the databases and their schemas, the cache if
\* there is none, and whether the endpoint is the leader.
check ==
    /\ attempt.stage = "check"
    /\ cache' = cacheAfterCheck
    /\ \/ /\ ~isEndpointLeader(rpcClient)
          /\ writer = User /\ rpcClient \in open =>
               answers(rpcClient) \/ shutdown \/ Deadlines
          /\ resetRPCClient
          /\ attempt' = [stage |-> "dial", i |-> attempt.i + 1]
          /\ UNCHANGED <<list, connected, writer, pcs>>
       \/ /\ isEndpointLeader(rpcClient)
          /\ serverID' = serverID \union {endpoints[attempt.i]}
          /\ endpoints' = moveEndpointFirst(endpoints, attempt.i)
          /\ \/ /\ writer = User
                /\ started
             \/ /\ writer # User
                /\ attempt' = [attempt EXCEPT !.stage = "monitors"]
                /\ UNCHANGED <<connected, writer, pcs>>
          /\ UNCHANGED <<conn, watched, notices>>
    /\ UNCHANGED <<reconnect, shutdown, monitoring, server, closed>>

\* A reconnection restarts the monitors before anyone may use the client.
restartMonitors ==
    /\ attempt.stage = "monitors"
    /\ monitorsUnlocked
    /\ \/ /\ monitoring => answers(rpcClient)
          /\ watched' = IF monitoring THEN watched \union {rpcClient}
                                      ELSE watched
          /\ started
          /\ UNCHANGED <<conn, notices>>
       \/ /\ monitoring /\ ~answers(rpcClient)
          /\ resetRPCClient
          /\ connectFails(writer)
          /\ UNCHANGED connected
    /\ UNCHANGED <<reconnect, list, shutdown, cache, monitoring, server,
                   closed>>

-----------------------------------------------------------------------------
(* handleDisconnectNotification *)

\* DisconnectNotify fires: stopCh is closed, the other handlers stop.
notifyStop(n) ==
    /\ handler[n] = "watch" /\ n \notin open
    /\ handler' = [handler EXCEPT ![n] = "stopped"]
    /\ UNCHANGED <<reconnect, list, conn, connected, shutdown, writer,
                   attempt, probe, tx, user, watcher, data, server, closed>>

\* The variant that does not ask whether the client is being closed.
reconnectsAnyway == reconnect

reconnects == reconnect /\ ~shutdown

\* handlerShutdown.Wait() is over: a client that reconnects goes on to try,
\* unless it was closed.
handleDisconnect(n) ==
    /\ handler[n] = "stopped" /\ probe[n] = "none"
    /\ canWrite
    /\ rpcClient' = NoConn
    /\ handler' = [handler EXCEPT
                     ![n] = IF reconnects THEN "retry" ELSE "cleanup"]
    /\ UNCHANGED <<reconnect, list, link, connected, shutdown, writer, attempt,
                   probe, tx, user, watcher, data, server, closed>>

\* backoff.Retry calls connect(ctx, true).
retry(n) ==
    /\ handler[n] = "retry"
    /\ connect(n)
    /\ UNCHANGED closed

\* A client that does not reconnect drops the state of its databases, after
\* rpcMutex has been released.
clearDatabases(n) ==
    /\ handler[n] = "cleanup"
    /\ monitorsUnlocked
    /\ cache' = FALSE /\ monitoring' = FALSE
    /\ handler' = [handler EXCEPT ![n] = "reset"]
    /\ UNCHANGED <<reconnect, list, conn, connected, shutdown, writer,
                   attempt, probe, tx, user, watcher, watched, notices, server, closed>>

\* The variant that leaves the client shut down.
notifyUserOnly(n) ==
    /\ handler[n] = "reset"
    /\ handler' = [handler EXCEPT ![n] = "none"]
    /\ UNCHANGED <<reconnect, list, conn, connected, shutdown, writer,
                   attempt, probe, tx, user, watcher, data, server, closed>>

\* ... and sends the disconnect notification.
notifyUser(n) ==
    /\ handler[n] = "reset"
    /\ shutdown' = FALSE
    /\ handler' = [handler EXCEPT ![n] = "none"]
    /\ UNCHANGED <<reconnect, list, conn, connected, writer, attempt, probe,
                   tx, user, watcher, data, server, closed>>

-----------------------------------------------------------------------------
(* _disconnect, handleInactivityProbes and the leader watch *)

_disconnect ==
    /\ connected' = FALSE
    /\ IF rpcClient = NoConn THEN UNCHANGED <<link, watched, notices>>
                             ELSE close(rpcClient)

\* stopCh is closed once the handler of the connection has seen its end.
handleInactivityProbes(n) ==
    /\ \/ /\ probe[n] = "timer" /\ handler[n] # "watch"
          /\ probe' = [probe EXCEPT ![n] = "none"]
       \/ /\ probe[n] = "timer" /\ handler[n] = "watch"
          /\ canRead
          /\ probe' = [probe EXCEPT
                         ![n] = IF rpcClient = NoConn \/ shutdown
                                THEN "disconnect"
                                ELSE "echo"]
    /\ UNCHANGED <<reconnect, list, conn, connected, shutdown, writer,
                   attempt, handler, tx, user, watcher, data, server, closed>>

\* The variant that takes an Echo without answer for an answer.
EchoSucceedsAnyway == TRUE

\* Echo fails with the end of the connection or with its timeout.
EchoSucceeds == answers(rpcClient)

EchoReturns(n) ==
    /\ probe[n] = "echo"
    /\ probe' = [probe EXCEPT ![n] = IF EchoSucceeds THEN "timer"
                                                     ELSE "disconnect"]
    /\ UNCHANGED <<reconnect, list, conn, connected, shutdown, writer,
                   attempt, handler, tx, user, watcher, data, server, closed>>

probeDisconnects(n) ==
    /\ probe[n] = "disconnect"
    /\ canWrite
    /\ _disconnect
    /\ probe' = [probe EXCEPT ![n] = "timer"]
    /\ UNCHANGED <<reconnect, list, rpcClient, shutdown, writer,
                   attempt, handler, tx, user, watcher, cache, monitoring, server,
                   closed>>

\* An update that says that server e is not the leader reaches the goroutine
\* of watchForLeaderChange.
leaderLost(e) ==
    /\ watcher = NoConn /\ e \in notices
    /\ watcher' = e
    /\ notices' = notices \ {e}
    /\ UNCHANGED <<reconnect, list, conn, connected, shutdown, writer,
                   attempt, handler, probe, tx, user, cache, monitoring,
                   watched, server, closed>>

\* ... which leaves the server if it is still the active endpoint.
leaderUpdate ==
    /\ watcher # NoConn
    /\ canWrite
    /\ watcher' = NoConn
    /\ LET lost == connected /\ endpoints[1] = watcher /\ watcher \in serverID
       IN IF lost
          THEN /\ endpoints' = moveEndpointLast(endpoints, 1)
               /\ _disconnect
          ELSE UNCHANGED <<endpoints, connected, link, watched, notices>>
    /\ UNCHANGED <<reconnect, serverID, rpcClient, shutdown, writer, attempt,
                   handler, probe, tx, user, cache, monitoring, server, closed>>

-----------------------------------------------------------------------------
(* Transact *)

Transact ==
    /\ tx = "idle"
    /\ canRead
    /\ tx' = IF rpcClient # NoConn /\ connected THEN "calling"
             ELSE IF reconnect THEN "waiting" ELSE "idle"
    /\ UNCHANGED <<reconnect, list, conn, connected, shutdown, writer,
                   attempt, handler, probe, user, watcher, data, server, closed>>

\* Every 50 ms, with a connection again, or when the context ends.
TransactWaits ==
    /\ tx = "waiting"
    /\ \/ /\ canRead
          /\ rpcClient # NoConn /\ connected
          /\ tx' = "calling"
       \/ Deadlines /\ tx' = "idle"
    /\ UNCHANGED <<reconnect, list, conn, connected, shutdown, writer,
                   attempt, handler, probe, user, watcher, data, server, closed>>

\* transact: ErrNotConnected, the answer, the end of the connection or the
\* end of the context.
transact ==
    /\ tx = "calling"
    /\ rpcClient = NoConn \/ shutdown \/ answers(rpcClient)
         \/ rpcClient \notin open \/ Deadlines
    /\ tx' = "idle"
    /\ UNCHANGED <<reconnect, list, conn, connected, shutdown, writer,
                   attempt, handler, probe, user, watcher, data, server, closed>>

-----------------------------------------------------------------------------
(* Calls of the user *)

\* A patient user connects again only after the disconnect notification.
mayConnect == Patient => \A n \in Slot : handler[n] = "none"

Connect ==
    /\ user = "idle"
    /\ mayConnect
    /\ closed' = FALSE
    /\ connect(User)

\* After connect has released rpcMutex: AddEventHandler, which panics without a
\* cache, monitorsMutex, then rpcMutex for reading and the call, whose context
\* never ends.  A panic ends the program; here the other goroutines go on.
watchForLeaderChange ==
    /\ \/ /\ user = "leader"
          /\ user' = IF cache THEN "locked" ELSE "panic"
          /\ UNCHANGED <<watched, monitoring>>
       \/ /\ user = "locked"
          /\ canRead
          /\ user' = IF rpcClient = NoConn \/ shutdown THEN "idle" ELSE "calling"
          /\ UNCHANGED <<watched, monitoring>>
       \/ /\ user = "calling" /\ answers(rpcClient)
          /\ user' = "idle"
          /\ watched' = watched \union {rpcClient} /\ monitoring' = TRUE
       \/ /\ user = "calling" /\ rpcClient \notin open
          /\ user' = "idle"
          /\ UNCHANGED <<watched, monitoring>>
    /\ UNCHANGED <<reconnect, list, conn, connected, shutdown, writer,
                   attempt, handler, probe, tx, watcher, cache, notices, server,
                   closed>>

Disconnect ==
    /\ user = "idle"
    /\ canWrite
    /\ _disconnect
    /\ UNCHANGED <<reconnect, list, rpcClient, shutdown, writer,
                   attempt, pcs, cache, monitoring, server, closed>>

\* Without a connection Close only clears connected.
Close ==
    /\ user = "idle"
    /\ canWrite
    /\ _disconnect
    /\ shutdown' = (shutdown \/ rpcClient # NoConn)
    /\ closed' = (closed \/ rpcClient # NoConn)
    /\ UNCHANGED <<reconnect, list, rpcClient, writer, attempt,
                   pcs, cache, monitoring, server>>

indexOf(eps, address) == CHOOSE i \in DOMAIN eps : eps[i] = address

\* The variant that makes the new list without looking at the old one.
keptServerIDsNone(eps) == {}

keptServerIDs(eps) == serverID \intersect Range(endpoints) \intersect Range(eps)

\* The active endpoint stays first; without it the client disconnects.
\* Endpoints that were known keep their serverID.
UpdateEndpoints ==
    /\ user = "idle"
    /\ canWrite
    /\ \E eps \in EndpointLists :
         /\ endpoints' = IF endpoints[1] \in Range(eps)
                         THEN moveEndpointFirst(eps, indexOf(eps, endpoints[1]))
                         ELSE eps
         /\ serverID' = keptServerIDs(eps)
         /\ IF endpoints[1] \in Range(eps)
            THEN UNCHANGED <<connected, link, watched, notices>>
            ELSE _disconnect
    /\ UNCHANGED <<reconnect, rpcClient, shutdown, writer, attempt,
                   pcs, cache, monitoring, server, closed>>

-----------------------------------------------------------------------------
Servers == ServerDown \/ ServerUp \/ Drop \/ LeaderChange

\* One goroutine each, which has at most one next step.
connecting == dial \/ check \/ restartMonitors

handleDisconnectNotification(n) ==
    notifyStop(n) \/ handleDisconnect(n) \/ retry(n) \/ clearDatabases(n)
        \/ notifyUser(n)

probing(n) == handleInactivityProbes(n) \/ EchoReturns(n) \/ probeDisconnects(n)

watching == leaderUpdate \/ \E e \in Endpoint : leaderLost(e)

transacting == TransactWaits \/ transact

Calls == Connect \/ Disconnect \/ Close \/ UpdateEndpoints \/ Transact

Next ==
    \/ Servers \/ Calls
    \/ connecting \/ watching \/ transacting \/ watchForLeaderChange
    \/ \E n \in Slot : handleDisconnectNotification(n) \/ probing(n)

\* A goroutine that can go on does so.  A writer of rpcMutex that waits keeps
\* new readers out, so weak fairness is enough for it to get its turn.  The
\* servers do nothing that they must do, and nobody has to call anything.
Fairness ==
    /\ WF_vars(connecting) /\ WF_vars(watching) /\ WF_vars(transacting)
    /\ WF_vars(watchForLeaderChange)
    /\ \A n \in Slot : /\ WF_vars(handleDisconnectNotification(n))
                       /\ WF_vars(probing(n))

Spec == Init /\ [][Next]_vars /\ Fairness

-----------------------------------------------------------------------------
(* Properties *)

\* "endpoints contains all possible endpoints; the first element is the
\* active endpoint if connected=true": connect, UpdateEndpoints and the
\* leader watch reorder the list, and CurrentEndpoint and the leader watch
\* rely on its first element.
ActiveEndpointFirst ==
    writer = Nobody /\ connected /\ rpcClient \in open
        => link[rpcClient] = endpoints[1]

\* Whoever finds rpcMutex free finds at most one open connection, the one of
\* rpcClient, and a goroutine that waits for its end: attempts that fail
\* leave nothing behind and no connection is without a handler.
ConnectionsWatched ==
    writer = Nobody =>
        /\ open \subseteq {rpcClient}
        /\ rpcClient # NoConn => handler[rpcClient] \in {"watch", "stopped"}

\* A client that looks connected has a cache: what handleDisconnectNotification
\* clears after it has released rpcMutex belongs to the old connection.
ConnectedHasCache == writer = Nobody /\ rpcClient # NoConn => cache

\* "Even If the client was created with WithReconnect it will not reconnect
\* afterwards": after a Close that found a connection none is made until the
\* user calls Connect.
ClosedStaysClosed ==
    [][closed /\ closed' => rpcClient' \in {rpcClient, NoConn}]_vars

\* A Close that found a connection comes to its end: the state is removed
\* and the client is ready for the next connection.
CloseCompletes ==
    closed ~> ~closed \/ (rpcClient = NoConn /\ ~cache /\ ~shutdown)

\* Connect waits for rpcMutex in watchForLeaderChange and holds monitorsMutex,
\* for which the reconnect loop waits in connect, with rpcMutex.
watchDeadlock == user = "locked" /\ attempt.stage = "monitors"

\* The call of watchForLeaderChange, which holds rpcMutex for reading and has
\* no timeout, waits for a server that does not answer.
watchHangs == user = "calling" /\ rpcClient \in open /\ ~answers(rpcClient)

\* A client that reconnects is connected again once its servers stay up and
\* keep a leader that it has as an endpoint: neither an attempt that fails nor
\* a call of the user ends the loop of handleDisconnectNotification, and
\* nothing but the deadlock with a Connect in progress blocks it.
Reconnects ==
    /\ <>[](up = Endpoint /\ leader \in Range(endpoints))
    /\ <>[][leader' = leader]_leader
    => (\E n \in Slot : handler[n] = "retry")
            ~> (rpcClient # NoConn /\ connected) \/ watchDeadlock

\* "When Echo request fails, then it attempts to reconnect with server": a
\* connection with a probe to a server that does not answer is closed, although
\* the probe needs rpcMutex, which calls to that server hold; only a Connect in
\* progress may keep it from that.
SilenceNoticed ==
    LET silent == reconnect /\ \E n \in open : link[n] \notin up
    IN  silent ~> ~silent \/ watchDeadlock \/ watchHangs

\* "watchForLeaderChange will trigger a reconnect if the connected endpoint
\* ever loses leadership": a server that says so is left, whatever happened
\* to the list of endpoints since the connection was made.
LeaderLossHandled ==
    (rpcClient \in open /\ link[rpcClient] \in notices)
        ~> rpcClient \notin open

=============================================================================

------------------------- MODULE MonitorSyncProofs --------------------------
(***************************************************************************)
(* What the steps of MonitorSyncTypes and SingleMonitorSteps establish:    *)
(* the types for any monitors and endpoints and, for one monitor on one    *)
(* endpoint, that the cache follows the server and implements Replica.     *)
(***************************************************************************)
EXTENDS SingleMonitorSteps, FiniteSetTheorems

-----------------------------------------------------------------------------
(* Any number of monitors.                                                 *)

\* What the steps need of the number of monitors in a set.
LEMMA CookieSizes == Sizes
<1>1. Cardinality({}) = 0 /\ \A m \in Cookie : Cardinality({m}) = 1
  BY FS_EmptySet, FS_Singleton, Zenon
<1>2. ASSUME NEW S \in SUBSET Cookie PROVE Cardinality(S) \in Nat
  <2>1. IsFiniteSet(S)
    BY CookieAssumption, FS_Subset
  <2> QED
    BY <2>1, FS_CardinalityType
<1> QED
  BY <1>1, <1>2 DEF Sizes

\* Every variable keeps its type, whatever the client and the server do.
LEMMA TypesInvariant == Spec => []TypeInv
BY TypeInit, TypeStep, CookieSizes, PTL DEF Spec

\* Whatever the client and the server do, with any number of monitors and
\* endpoints, the variables have their types; the transactions that the cache
\* and the monitors name are transactions that were committed, a closed
\* connection carries nothing, and the caller never counts more deferred updates
\* than there are.
THEOREM TypeCorrect == Spec => []TypeOK
BY TypesInvariant, TypeInvImplies, PTL

-----------------------------------------------------------------------------
(* One monitor and one endpoint.                                           *)

\* The parts of a behaviour of the specification, always.
LEMMA SingleInvariant == ASSUME SingleMonitor PROVE Spec => [](TypeInv /\ SingleInv)
<1>1. Init => TypeInv /\ SingleInv
  BY TypeInit, SingleInit
<1>2. TypeInv /\ SingleInv /\ [Next]_vars => (TypeInv /\ SingleInv)'
  BY TypeStep, SingleStep, CookieSizes
<1> QED
  BY <1>1, <1>2, PTL DEF Spec

\* A client with one monitor that has handled all there is holds the rows of
\* the server: monitor(), update, update2, update3 and connect never lose,
\* repeat or skip an update.
THEOREM SingleSynchronised == ASSUME SingleMonitor PROVE Spec => []Synchronised
<1>1. TypeInv /\ SingleInv => Synchronised
  <2> SUFFICES ASSUME TypeInv, SingleInv, Quiet, NEW m \in monitors, NEW r \in Watched[m]
               PROVE  cache[r] = latest[r]
    BY Zenon DEF Synchronised
  <2>1. m = only /\ r \in Watched[only] /\ r \in Row /\ wire = <<>> /\ caller = "idle"
        /\ link # None /\ mode = "up"
    BY Singles DEF Quiet
  <2>2. tip = synced /\ ~Cancelling /\ synced # 0 /\ only \in subscribed
    BY <2>1, Idle, Zenon DEF SingleInv, Phases, Subscription
  <2>3. SameRows(log, synced, Len(log)) /\ cache = View(log, synced)
    BY <2>1, <2>2, Zenon DEF SingleInv, WireStream, end, CacheFollows
  <2> QED
    BY <2>1, <2>2, <2>3 DEF SameRows, View, latest
<1> QED
  BY <1>1, SingleInvariant, PTL

\* The transaction ID with which connect restarts the monitor names the state
\* that the cache holds, or is unknown to the server.
THEOREM SingleLastTransactionIDValid == ASSUME SingleMonitor PROVE Spec => []LastTransactionIDValid
<1>1. TypeInv /\ SingleInv => LastTransactionIDValid
  <2> SUFFICES ASSUME TypeInv, SingleInv, mode = "down", NEW m \in monitors, NEW s \in Endpoint,
                      LastTransactionID[m] \in known[s], NEW r \in Watched[m]
               PROVE  cache[r] = log[LastTransactionID[m]][r]
    BY DEF LastTransactionIDValid
  <2>1. m = only /\ s = home /\ r \in Watched[only] /\ r \in Row
    BY Singles DEF SingleMonitor
  <2>2. LastTransactionID[only] = synced /\ synced # 0
    BY <2>1, Zenon DEF SingleInv, Phases, Identification
  <2> QED
    BY <2>1, <2>2, Zenon DEF SingleInv, CacheFollows, View
<1> QED
  BY <1>1, SingleInvariant, PTL

\* update3 finds its monitor when it gets to store the transaction ID, although
\* MonitorCancel may run in between.
THEOREM SingleMonitorFound == ASSUME SingleMonitor PROVE Spec => []MonitorFound
<1>1. TypeInv /\ SingleInv => MonitorFound
  <2> SUFFICES ASSUME TypeInv, SingleInv, reader = "update3" PROVE readerUpdate.cookie \in monitors
    BY DEF MonitorFound
  <2>1. readerUpdate \in Notifications(Positions)
    BY DEF TypeInv, ReaderTypes
  <2>2. readerUpdate.cookie = only
    BY <2>1 DEF Notifications, SingleMonitor
  <2> QED
    BY <2>2 DEF SingleInv, Phases
<1> QED
  BY <1>1, SingleInvariant, PTL

-----------------------------------------------------------------------------
(* With a monitor of all rows the cache implements Replica.                *)

\* The view of a cache that holds all rows is a state of the log.
LEMMA WholeView ==
  ASSUME Watched[only] = Row, NEW lg \in Seq(Rows), NEW n \in 1..Len(lg)
  PROVE  View(lg, n) = lg[n]
BY DEF View, Rows

\* A step that changes the position moves it forward, and keeps the monitor.
LEMMA Forward ==
  ASSUME SingleMonitor, TypeInv, SingleInv, PopulateReply \/ PopulateDeferred \/ update3 \/ update2
  PROVE  only \in monitors' /\ synced <= synced' /\ synced' # 0 /\ log' = log
<1>1. CASE PopulateReply
  <2>1. Answered /\ callerCookie = only /\ Answer(callerReply)
    BY <1>1, Singles, Zenon DEF PopulateReply, Answered, SingleInv, Answers
  <2>2. callerReply \in Messages(Positions)
    BY <2>1 DEF Answered, TypeInv, CallerTypes, Messages
  <2>3. callerReply.last \in Positions
    BY <2>1, <2>2, MessageParts DEF Answered
  <2> QED
    BY <1>1, <2>1, <2>3 DEF PopulateReply, returnError, Answer, Positions, server
<1>2. CASE PopulateDeferred
  <2>1. /\ caller = "draining" /\ drained + 1 \in 1..Len(deferredUpdates) /\ drained \in Nat
        /\ front = synced
    BY <1>2 DEF PopulateDeferred, TypeInv, DeferredTypes, front, Answered
  <2>2. Follows(log, method[only], synced, deferredUpdates[drained + 1].at,
                deferredUpdates[drained + 1].updates)
    BY <2>1 DEF SingleInv, DeferredStream
  <2>3. only \in monitors
    BY <2>1 DEF SingleInv, Phases
  <2> QED
    BY <1>2, <2>2, <2>3 DEF PopulateDeferred, returnError, Follows, server
<1>3. CASE update3 \/ update2
  <2>1. receive /\ ~deferUpdates /\ synced' = Head(wire).last
    BY <1>3, Zenon DEF update3, update2
  <2>2. /\ Head(wire) = wire[1] /\ only \in monitors /\ tip = synced
        /\ Follows(log, method[only], tip, wire[1].last, wire[1].updates)
    BY <2>1, Received, Zenon
  <2> QED
    BY <2>1, <2>2 DEF receive, Follows, server
<1> QED
  BY <1>1, <1>2, <1>3

\* Every step of the client is a step of the replica, or none.
LEMMA ReplicaStep ==
  ASSUME SingleMonitor, Watched[only] = Row, TypeInv, SingleInv, [Next]_vars, TypeInv', SingleInv'
  PROVE  [replica!Next]_(replica!vars)
<1> USE DEF replica!vars
<1> DEFINE idle == UNCHANGED <<log, monitors, cache, synced>>
<1>1. CASE idle
  BY <1>1
<1>2. ASSUME NEW rows \in Rows, Commit(rows) PROVE replica!Next
  <2>1. log' = Append(log, rows) /\ UNCHANGED <<monitors, cache, synced>>
    BY <1>2, Zenon DEF Commit, database
  <2>2. replica!Commit(rows)
    BY <2>1 DEF replica!Commit
  <2> QED
    BY <2>2 DEF replica!Next
<1>3. CASE PopulateReply \/ PopulateDeferred \/ update3 \/ update2
  <2>1. only \in monitors' /\ synced <= synced' /\ synced' # 0 /\ log' = log
    BY <1>3, Forward
  <2>2. synced' \in DOMAIN log' /\ cache' = log'[synced']
    <3>1. synced' \in 1..Len(log') /\ log' \in Seq(Rows) /\ DOMAIN log' = 1..Len(log')
      BY <2>1 DEF TypeInv, DatabaseTypes, LogTypes, Positions
    <3>2. cache' = View(log', synced')
      BY DEF SingleInv, CacheFollows
    <3> QED
      BY <3>1, <3>2, WholeView
  <2>3. synced \in Nat /\ synced' \in Nat
    BY DEF TypeInv, DatabaseTypes, LogTypes, Positions
  <2>4. replica!Advance(synced')
    BY <2>1, <2>2, <2>3 DEF replica!Advance
  <2> QED
    BY <2>1, <2>2, <2>4 DEF replica!Next
<1>4. CASE MonitorCancelled
  <2>1. monitors' = {} /\ UNCHANGED <<log, cache, synced>>
    BY <1>4, Singles DEF MonitorCancelled, server
  <2>2. replica!Leave
    BY <2>1 DEF replica!Leave
  <2> QED
    BY <2>2 DEF replica!Next
<1>5. ASSUME NEW s \in Endpoint, Connect(s) PROVE [replica!Next]_(replica!vars)
  <2>1. CASE monitors = {}
    <3>1. cache' = noRows /\ synced' = 0 /\ UNCHANGED <<log, monitors>>
      BY <1>5, <2>1 DEF Connect, server
    <3>2. replica!Drop
      BY <2>1, <3>1 DEF replica!Drop
    <3> QED
      BY <3>2 DEF replica!Next
  <2>2. CASE monitors # {}
    <3>1. idle
      BY <1>5, <2>2 DEF Connect, server
    <3> QED
      BY <1>1, <3>1
  <2> QED
    BY <2>1, <2>2
<1>6. CASE Environment
  <2>1. (\E rows \in Rows : Commit(rows)) \/ idle
    BY <1>6, Zenon DEF Environment, Forget, LinkLost, Monitor, MonitorCancel, call, server, database
  <2> QED
    BY <1>1, <1>2, <2>1
<1>7. CASE ServeMonitor
  <2>1. idle
    BY <1>7, Zenon DEF ServeMonitor, database
  <2> QED
    BY <1>1, <2>1
<1>8. CASE CallerSteps
  <2>1. PopulateReply \/ PopulateDeferred \/ MonitorCancelled \/ idle
    BY <1>8, Zenon DEF CallerSteps, RestartMonitor, call, CallFails, RestartFails, returnError, Fallback,
                MonitorReturns, server, database
  <2> QED
    BY <1>1, <1>3, <1>4, <2>1
<1>9. CASE ReaderSteps
  <2>1. update3 \/ update2 \/ idle
    BY <1>9 DEF ReaderSteps, DeliverReply, DeferUpdate, receive, UpdateLastTransactionID, server, database
  <2> QED
    BY <1>1, <1>3, <2>1
<1>10. CASE ConnectionSteps
  <2>1. (\E s \in Endpoint : Connect(s)) \/ idle
    BY <1>10 DEF ConnectionSteps, TakeError, ResetTransactionIDs, Disconnect, HandleDisconnect,
                 server, database
  <2> QED
    BY <1>1, <1>5, <2>1
<1>11. CASE UNCHANGED vars
  <2>1. idle
    BY <1>11 DEF vars, server, database
  <2> QED
    BY <1>1, <2>1
<1> QED
  BY <1>6, <1>7, <1>8, <1>9, <1>10, <1>11 DEF Next

\* With a monitor of all rows the cache is, at every moment, one committed
\* state of the server and never goes back to an earlier one.
THEOREM SingleImplementsReplica ==
  ASSUME SingleMonitor, Watched[only] = Row
  PROVE  Spec => ImplementsReplica
<1>1. Init => replica!Init
  BY DEF Init, replica!Init
<1>2. TypeInv /\ SingleInv /\ (TypeInv /\ SingleInv)' /\ [Next]_vars => [replica!Next]_(replica!vars)
  BY ReplicaStep
<1> QED
  BY <1>1, <1>2, SingleInvariant, PTL DEF Spec, ImplementsReplica, replica!Spec


=============================================================================

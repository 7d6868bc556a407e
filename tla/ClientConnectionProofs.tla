----------------------- MODULE ClientConnectionProofs -----------------------
(***************************************************************************)
(* For any number of endpoints and connections, any calls at any time and  *)
(* any failures: the first endpoint is the active one, and whoever finds   *)
(* rpcMutex free finds no connection but that of rpcClient, with a         *)
(* goroutine that waits for its end.  If the user also waits for the       *)
(* disconnect notification before it connects again, a connected client    *)
(* has its cache, and a closed one makes no connection.                    *)
(***************************************************************************)
EXTENDS ClientConnection, TLAPS

USE ClientAssumption

\* A list of endpoints that connect and UpdateEndpoints can reorder.
EndpointList(eps) == eps \in Seq(Endpoint) /\ eps # <<>>

\* What the proof needs of the types.
Shape ==
    /\ EndpointList(endpoints)
    /\ rpcClient \in Slot \union {NoConn}
    /\ writer \in Slot \union {User, Nobody}
    /\ attempt \in [stage : {"none", "dial", "check", "monitors"}, i : Nat]
    /\ handler \in [Slot -> {"none", "watch", "stopped", "retry", "cleanup",
                             "reset"}]
    /\ link \in [Slot -> Endpoint \union {NoConn}]

\* rpcMutex is held for writing over steps by an attempt of connect only, and
\* an attempt starts without a client.
Attempts ==
    /\ writer = Nobody <=> attempt.stage = "none"
    /\ attempt.stage = "dial" => rpcClient = NoConn /\ attempt.i > 0
    /\ attempt.stage \in {"check", "monitors"}
         => rpcClient # NoConn /\ handler[rpcClient] = "none"
    /\ writer \in Slot => handler[writer] = "retry"

\* Open connections and goroutines that wait for the end of one belong to
\* rpcClient; between attempts rpcClient has such a goroutine.
Connections ==
    /\ \A n \in Slot : link[n] # NoConn => n = rpcClient
    /\ \A n \in Slot : handler[n] \in {"watch", "stopped"} => n = rpcClient
    /\ \A n \in Slot : handler[n] = "stopped" => link[n] = NoConn
    /\ attempt.stage = "none" /\ rpcClient # NoConn
         => handler[rpcClient] \in {"watch", "stopped"}

\* The endpoint in use is the one the attempt dialled, then the first one.
Active ==
    /\ attempt.stage = "check"
         => /\ attempt.i \in DOMAIN endpoints
            /\ link[rpcClient] \in {NoConn, endpoints[attempt.i]}
    /\ attempt.stage = "monitors" => link[rpcClient] \in {NoConn, endpoints[1]}
    /\ attempt.stage = "none" /\ connected /\ rpcClient # NoConn
         => link[rpcClient] \in {NoConn, endpoints[1]}

\* The inductive invariant.
ConnectionInv == Shape /\ Attempts /\ Connections /\ Active

-----------------------------------------------------------------------------
\* moveEndpointFirst returns a list that starts with the endpoint it moves.
LEMMA MoveFirst ==
    ASSUME NEW eps \in Seq(Endpoint), NEW i \in DOMAIN eps
    PROVE  /\ EndpointList(moveEndpointFirst(eps, i))
           /\ moveEndpointFirst(eps, i)[1] = eps[i]
<1>1. othereps(eps, i) \in Seq(Endpoint)
  BY DEF othereps
<1>2. eps[i] \in Endpoint
  OBVIOUS
<1>3. QED
  BY <1>1, <1>2 DEF moveEndpointFirst, EndpointList

\* moveEndpointLast returns a list of endpoints.
LEMMA MoveLast ==
    ASSUME NEW eps \in Seq(Endpoint), NEW i \in DOMAIN eps
    PROVE  EndpointList(moveEndpointLast(eps, i))
<1>1. othereps(eps, i) \in Seq(Endpoint)
  BY DEF othereps
<1>2. eps[i] \in Endpoint
  OBVIOUS
<1>3. QED
  BY <1>1, <1>2 DEF moveEndpointLast, EndpointList

-----------------------------------------------------------------------------
USE DEF ConnectionInv, Shape, Attempts, Connections, Active, Idle

\* Steps that touch none of the variables of the invariant.
LEMMA Stutter ==
    ASSUME ConnectionInv,
           UNCHANGED <<endpoints, rpcClient, connected, writer, attempt,
                       handler, link>>
    PROVE  ConnectionInv'
  OBVIOUS

\* A connection that ends, by whatever hand.
LEMMA Ends ==
    ASSUME ConnectionInv, NEW n \in Slot, close(n), connected' => connected,
           UNCHANGED <<endpoints, rpcClient, writer, attempt, handler>>
    PROVE  ConnectionInv'
  BY DEF close

\* What _disconnect does when rpcMutex is free, with a new order of endpoints.
LEMMA Disconnects ==
    ASSUME ConnectionInv, writer = Nobody, _disconnect,
           EndpointList(endpoints)',
           UNCHANGED <<rpcClient, writer, attempt, handler>>
    PROVE  ConnectionInv'
<1>1. CASE rpcClient = NoConn
  BY <1>1 DEF _disconnect
<1>2. CASE rpcClient # NoConn
  BY <1>2 DEF _disconnect, close
<1>3. QED
  BY <1>1, <1>2

\* Taking rpcMutex to connect.
LEMMA Takes ==
    ASSUME ConnectionInv, NEW w \in Slot \union {User}, connect(w),
           w \in Slot => handler[w] = "retry"
    PROVE  ConnectionInv'
<1>1. /\ writer = Nobody
      /\ UNCHANGED <<endpoints, rpcClient, connected, handler, link>>
  BY DEF connect, canWrite, connectFails, list, conn
<1>2. CASE rpcClient # NoConn
  BY <1>1, <1>2 DEF connect, connectFails
<1>3. CASE rpcClient = NoConn
  <2>1. writer' = w /\ attempt' = [stage |-> "dial", i |-> 1]
    BY <1>3 DEF connect
  <2>2. QED
    BY <1>1, <1>3, <2>1
<1>4. QED
  BY <1>2, <1>3

\* The attempt that has its connection succeeds.
LEMMA Starts ==
    ASSUME ConnectionInv, attempt.stage \in {"check", "monitors"}, started,
           UNCHANGED conn, EndpointList(endpoints)',
           link[rpcClient] \in {NoConn, endpoints'[1]}
    PROVE  ConnectionInv'
  BY DEF started, conn

\* resetRPCClient in an attempt.
LEMMA Resets ==
    ASSUME ConnectionInv, attempt.stage \in {"check", "monitors"},
           resetRPCClient, UNCHANGED <<endpoints, connected, handler>>,
           \/ attempt' = Idle /\ writer' = Nobody
           \/ attempt' = [stage |-> "dial", i |-> attempt.i + 1]
                /\ writer' = writer
    PROVE  ConnectionInv'
<1>1. rpcClient' = NoConn /\ link' = [link EXCEPT ![rpcClient] = NoConn]
  BY DEF resetRPCClient, close
<1>2. QED
  BY <1>1

HIDE DEF ConnectionInv, Shape, Attempts, Connections, Active, Idle

\* Every step of every goroutine, server and caller keeps the invariant.
LEMMA ConnectionStep == ConnectionInv /\ [Next]_vars => ConnectionInv'
<1> SUFFICES ASSUME ConnectionInv, [Next]_vars PROVE ConnectionInv'
  OBVIOUS
<1> USE DEF list, conn, pcs
<1>list. EndpointList(endpoints)
  BY DEF ConnectionInv, Shape
<1>ServerDown. CASE ServerDown
  BY <1>ServerDown, Stutter DEF ServerDown
<1>ServerUp. CASE ServerUp
  BY <1>ServerUp, Stutter DEF ServerUp
<1>Drop. CASE Drop
  <2>1. PICK n \in open : close(n)
    BY <1>Drop DEF Drop
  <2>2. n \in Slot
    BY DEF open
  <2>3. QED
    BY <1>Drop, <2>1, <2>2, Ends DEF Drop
<1>LeaderChange. CASE LeaderChange
  BY <1>LeaderChange, Stutter DEF LeaderChange
<1>dial. CASE dial
  <2> USE DEF ConnectionInv, Shape, Attempts, Connections, Active, Idle
  <2>1. attempt.stage = "dial" /\ rpcClient = NoConn /\ writer # Nobody
    BY <1>dial DEF dial
  <2>2. UNCHANGED <<endpoints, connected, handler>>
    BY <1>dial DEF dial, connectFails
  <2>3. CASE attempt.i > Len(endpoints)
    BY <1>dial, <2>1, <2>2, <2>3 DEF dial, connectFails
  <2>4. CASE /\ attempt.i <= Len(endpoints)
             /\ attempt' = [attempt EXCEPT !.i = @ + 1]
             /\ UNCHANGED <<conn, writer, pcs>>
    BY <2>1, <2>2, <2>4
  <2>5. CASE /\ attempt.i <= Len(endpoints)
             /\ endpoints[attempt.i] \in up
             /\ UNCHANGED <<writer, pcs>>
             /\ attempt' = [attempt EXCEPT !.stage = "check"]
    <3> DEFINE n == CHOOSE m \in Slot : freeSlot(m)
    <3>1. /\ \E m \in Slot : freeSlot(m)
          /\ rpcClient' = n
          /\ link' = [link EXCEPT ![n] = endpoints[attempt.i]]
      BY <1>dial, <2>5 DEF dial
    <3>2. n \in Slot /\ handler[n] = "none"
      BY <3>1 DEF freeSlot
    <3>3. attempt.i \in DOMAIN endpoints /\ endpoints[attempt.i] \in Endpoint
      <4>1. attempt.i \in 1..Len(endpoints)
        BY <2>1, <2>5
      <4>2. QED
        BY <4>1 DEF EndpointList
    <3> HIDE DEF n
    <3>4. attempt' = [stage |-> "check", i |-> attempt.i]
      BY <2>5
    <3>5. Shape' /\ Attempts'
      BY <2>1, <2>2, <2>5, <3>1, <3>2, <3>3, <3>4
    <3>6. Connections' /\ Active'
      BY <2>1, <2>2, <2>5, <3>1, <3>2, <3>3, <3>4
    <3>7. QED
      BY <3>5, <3>6
  <2>6. QED
    BY <1>dial, <2>3, <2>4, <2>5 DEF dial
<1>check. CASE check
  <2> USE DEF ConnectionInv, Shape, Attempts, Connections, Active, Idle
  <2>1. attempt.stage = "check" /\ writer # Nobody
    BY <1>check DEF check
  <2>2. CASE /\ resetRPCClient
             /\ attempt' = [stage |-> "dial", i |-> attempt.i + 1]
             /\ UNCHANGED <<list, connected, writer, pcs>>
    BY <2>1, <2>2, Resets
  <2>3. CASE /\ endpoints' = moveEndpointFirst(endpoints, attempt.i)
             /\ \/ writer = User /\ started
                \/ /\ writer # User
                   /\ attempt' = [attempt EXCEPT !.stage = "monitors"]
                   /\ UNCHANGED <<connected, writer, pcs>>
             /\ UNCHANGED conn
    <3>1. /\ EndpointList(endpoints)'
          /\ link[rpcClient] \in {NoConn, endpoints'[1]}
      BY <2>1, <2>3, MoveFirst DEF EndpointList
    <3>2. CASE started
      BY <2>1, <2>3, <3>1, <3>2, Starts
    <3>3. CASE /\ writer # User
               /\ attempt' = [attempt EXCEPT !.stage = "monitors"]
               /\ UNCHANGED <<connected, writer, pcs>>
      BY <2>1, <2>3, <3>1, <3>3
    <3>4. QED
      BY <2>3, <3>2, <3>3
  <2>4. QED
    BY <1>check, <2>2, <2>3 DEF check
<1>restartMonitors. CASE restartMonitors
  <2> USE DEF ConnectionInv, Shape, Attempts, Connections, Active, Idle
  <2>1. attempt.stage = "monitors" /\ UNCHANGED endpoints
    BY <1>restartMonitors DEF restartMonitors
  <2>2. CASE started /\ UNCHANGED conn
    BY <2>1, <2>2, Starts
  <2>3. CASE resetRPCClient /\ connectFails(writer) /\ UNCHANGED connected
    BY <2>1, <2>3, Resets DEF connectFails
  <2>4. QED
    BY <1>restartMonitors, <2>2, <2>3 DEF restartMonitors
<1>notifyStop. ASSUME NEW n \in Slot, notifyStop(n) PROVE ConnectionInv'
  BY <1>notifyStop
  DEF notifyStop, open, ConnectionInv, Shape, Attempts, Connections, Active
<1>handleDisconnect. ASSUME NEW n \in Slot, handleDisconnect(n)
                     PROVE  ConnectionInv'
  <2> USE DEF ConnectionInv, Shape, Attempts, Connections, Active, Idle
  <2>1. handler[n] = "stopped" /\ rpcClient = n /\ link[n] = NoConn
    BY <1>handleDisconnect DEF handleDisconnect
  <2>2. PICK next \in {"retry", "cleanup"} :
            handler' = [handler EXCEPT ![n] = next]
    BY <1>handleDisconnect, Zenon DEF handleDisconnect
  <2>3. /\ writer = Nobody /\ rpcClient' = NoConn
        /\ UNCHANGED <<endpoints, link, connected, writer, attempt>>
    BY <1>handleDisconnect DEF handleDisconnect, canWrite
  <2>4. QED
    BY <2>1, <2>2, <2>3
<1>retry. ASSUME NEW n \in Slot, retry(n) PROVE ConnectionInv'
  BY <1>retry, Takes DEF retry
<1>clearDatabases. ASSUME NEW n \in Slot, clearDatabases(n)
                   PROVE  ConnectionInv'
  BY <1>clearDatabases
  DEF clearDatabases, ConnectionInv, Shape, Attempts, Connections, Active
<1>notifyUser. ASSUME NEW n \in Slot, notifyUser(n) PROVE ConnectionInv'
  BY <1>notifyUser
  DEF notifyUser, ConnectionInv, Shape, Attempts, Connections, Active
<1>probing. ASSUME NEW n \in Slot, probing(n) PROVE ConnectionInv'
  <2>1. CASE handleInactivityProbes(n) \/ EchoReturns(n)
    BY <2>1, Stutter DEF handleInactivityProbes, EchoReturns
  <2>2. CASE probeDisconnects(n)
    BY <1>list, <2>2, Disconnects DEF probeDisconnects, canWrite, EndpointList
  <2>3. QED
    BY <1>probing, <2>1, <2>2 DEF probing
<1>leaderLost. ASSUME NEW e \in Endpoint, leaderLost(e) PROVE ConnectionInv'
  BY <1>leaderLost, Stutter DEF leaderLost
<1>leaderUpdate. CASE leaderUpdate
  <2> USE DEF ConnectionInv, Shape, Attempts, Connections, Active, Idle
  <2>1. 1 \in DOMAIN endpoints
    BY DEF EndpointList
  <2>2. CASE endpoints' = moveEndpointLast(endpoints, 1) /\ _disconnect
    <3>1. EndpointList(endpoints)'
      BY <2>1, <2>2, MoveLast DEF EndpointList
    <3>2. QED
      BY <1>leaderUpdate, <2>2, <3>1, Disconnects DEF leaderUpdate, canWrite
  <2>3. CASE UNCHANGED <<endpoints, connected, link, watched, notices>>
    BY <1>leaderUpdate, <2>3, Stutter DEF leaderUpdate
  <2>4. QED
    BY <1>leaderUpdate, <2>2, <2>3 DEF leaderUpdate
<1>transacting. CASE Transact \/ transacting
  BY <1>transacting, Stutter DEF transacting, Transact, TransactWaits, transact
<1>Connect. CASE Connect
  BY <1>Connect, Takes DEF Connect
<1>watchForLeaderChange. CASE watchForLeaderChange
  BY <1>watchForLeaderChange, Stutter DEF watchForLeaderChange
<1>Disconnect. CASE Disconnect
  BY <1>list, <1>Disconnect, Disconnects DEF Disconnect, canWrite, EndpointList
<1>Close. CASE Close
  BY <1>list, <1>Close, Disconnects DEF Close, canWrite, EndpointList
<1>UpdateEndpoints. CASE UpdateEndpoints
  <2> USE DEF ConnectionInv, Shape, Attempts, Connections, Active, Idle
  <2>1. PICK eps \in EndpointLists :
            /\ endpoints' = IF endpoints[1] \in Range(eps)
                            THEN moveEndpointFirst(eps, indexOf(eps, endpoints[1]))
                            ELSE eps
            /\ IF endpoints[1] \in Range(eps)
               THEN UNCHANGED <<connected, link, watched, notices>>
               ELSE _disconnect
    BY <1>UpdateEndpoints DEF UpdateEndpoints
  <2>2. EndpointList(eps)
    BY DEF EndpointList, distinct
  <2>3. CASE endpoints[1] \in Range(eps)
    <3>1. /\ indexOf(eps, endpoints[1]) \in DOMAIN eps
          /\ eps[indexOf(eps, endpoints[1])] = endpoints[1]
      BY <2>3 DEF indexOf, Range
    <3>2. EndpointList(endpoints)' /\ endpoints'[1] = endpoints[1]
      BY <2>1, <2>2, <2>3, <3>1, MoveFirst DEF EndpointList
    <3>3. UNCHANGED <<rpcClient, connected, link, writer, attempt, handler>>
      BY <1>UpdateEndpoints, <2>1, <2>3 DEF UpdateEndpoints
    <3>4. writer = Nobody
      BY <1>UpdateEndpoints DEF UpdateEndpoints, canWrite
    <3>5. QED
      BY <3>2, <3>3, <3>4
  <2>4. CASE endpoints[1] \notin Range(eps)
    BY <1>UpdateEndpoints, <2>1, <2>2, <2>4, Disconnects
    DEF UpdateEndpoints, canWrite
  <2>5. QED
    BY <2>3, <2>4
<1>stutter. CASE UNCHANGED vars
  BY <1>stutter, Stutter DEF vars
<1>qed. QED
  BY <1>ServerDown, <1>ServerUp, <1>Drop, <1>LeaderChange, <1>dial, <1>check,
     <1>restartMonitors, <1>notifyStop, <1>handleDisconnect, <1>retry,
     <1>clearDatabases, <1>notifyUser, <1>probing, <1>leaderLost,
     <1>leaderUpdate, <1>transacting, <1>Connect, <1>watchForLeaderChange,
     <1>Disconnect, <1>Close, <1>UpdateEndpoints, <1>stutter
  DEF Next, Servers, Calls, connecting, watching, handleDisconnectNotification

\* The inductive invariant holds in every state of the client.
LEMMA ConnectionInvariant == Spec => []ConnectionInv
<1>1. Init => ConnectionInv
  BY DEF Init, EndpointList, distinct, ConnectionInv, Shape, Attempts,
         Connections, Active, Idle
<1>2. QED
  BY <1>1, ConnectionStep, PTL DEF Spec

-----------------------------------------------------------------------------
\* "the first element is the active endpoint if connected=true", however
\* connect, UpdateEndpoints and the leader watch reorder the endpoints.
THEOREM ActiveEndpointIsFirst == Spec => []ActiveEndpointFirst
<1>1. ConnectionInv => ActiveEndpointFirst
  BY DEF ActiveEndpointFirst, open, ConnectionInv, Shape, Attempts, Active
<1>2. QED
  BY <1>1, ConnectionInvariant, PTL

\* No attempt, failure, Close or reconnection leaves a second connection or
\* one whose end nobody waits for.
THEOREM ConnectionsAreWatched == Spec => []ConnectionsWatched
<1>1. ConnectionInv => ConnectionsWatched
  BY DEF ConnectionsWatched, open, ConnectionInv, Shape, Attempts, Connections
<1>2. QED
  BY <1>1, ConnectionInvariant, PTL

-----------------------------------------------------------------------------
(* The types.  A call of the leader watch keeps rpcMutex for reading, so    *)
(* that the connection it uses stays.                                      *)

Flags ==
    /\ reconnect \in BOOLEAN /\ connected \in BOOLEAN /\ shutdown \in BOOLEAN
    /\ cache \in BOOLEAN /\ monitoring \in BOOLEAN /\ closed \in BOOLEAN

Lists == distinct(endpoints) /\ endpoints # <<>> /\ serverID \subseteq Endpoint

Cluster ==
    /\ up \subseteq Endpoint /\ leader \in Endpoint /\ notices \subseteq Endpoint
    /\ watched \subseteq Slot /\ watcher \in Endpoint \union {NoConn}

Routines ==
    /\ probe \in [Slot -> {"none", "timer", "echo", "disconnect"}]
    /\ tx \in {"idle", "waiting", "calling"}
    /\ user \in {"idle", "connecting", "leader", "locked", "calling", "panic"}
    /\ user = "calling" => writer = Nobody /\ rpcClient # NoConn

\* A list from which one element was taken and put in front, or behind the
\* others, has no element twice if the list had none.
LEMMA MoveDistinct ==
    ASSUME NEW eps, distinct(eps), NEW i \in DOMAIN eps
    PROVE  /\ distinct(moveEndpointFirst(eps, i)) /\ moveEndpointFirst(eps, i) # <<>>
           /\ distinct(moveEndpointLast(eps, i)) /\ moveEndpointLast(eps, i) # <<>>
<1> DEFINE rest == othereps(eps, i)
           first == <<eps[i]>> \o rest
           last == Append(rest, eps[i])
<1>1. eps \in Seq(Endpoint) /\ i \in 1..Len(eps) /\ Len(eps) \in Nat /\ eps[i] \in Endpoint
  BY DEF distinct
<1>2. /\ rest \in Seq(Endpoint) /\ Len(rest) = Len(eps) - 1
      /\ \A k \in 1..Len(rest) : rest[k] = IF k < i THEN eps[k] ELSE eps[k + 1]
  <2> DEFINE a == SubSeq(eps, 1, i - 1)
             b == SubSeq(eps, i + 1, Len(eps))
  <2>1. a \in Seq(Endpoint) /\ Len(a) = i - 1 /\ \A k \in 1..(i - 1) : a[k] = eps[k]
    BY <1>1
  <2>2. b \in Seq(Endpoint) /\ Len(b) = Len(eps) - i
        /\ \A k \in 1..(Len(eps) - i) : b[k] = eps[i + k]
    BY <1>1
  <2> HIDE DEF a, b
  <2>3. rest = a \o b
    BY DEF othereps, a, b
  <2> QED
    BY <1>1, <2>1, <2>2, <2>3
<1> HIDE DEF rest
<1>3. \A k \in 1..Len(rest) :
          \E n \in 1..Len(eps) : n = (IF k < i THEN k ELSE k + 1) /\ rest[k] = eps[n]
  BY <1>1, <1>2
<1>4. \A m, n \in 1..Len(eps) : eps[m] = eps[n] => m = n
  BY <1>1 DEF distinct
<1>5. \A k \in 1..Len(rest) : rest[k] # eps[i]
  BY <1>1, <1>2, <1>3, <1>4
<1>6. ASSUME NEW j \in 1..Len(rest), NEW k \in 1..Len(rest), rest[j] = rest[k] PROVE j = k
  <2>1. PICK m \in 1..Len(eps) : m = (IF j < i THEN j ELSE j + 1) /\ rest[j] = eps[m]
    BY <1>3
  <2>2. PICK n \in 1..Len(eps) : n = (IF k < i THEN k ELSE k + 1) /\ rest[k] = eps[n]
    BY <1>3
  <2>3. m = n
    BY <1>4, <1>6, <2>1, <2>2, Zenon
  <2>4. j \in Nat /\ k \in Nat /\ i \in Nat
    BY <1>1
  <2> QED
    BY <2>1, <2>2, <2>3, <2>4
<1>7. distinct(first) /\ first # <<>>
  <2>1. first \in Seq(Endpoint) /\ Len(first) = Len(rest) + 1 /\ first[1] = eps[i]
        /\ \A k \in 2..Len(first) : first[k] = rest[k - 1] /\ k - 1 \in 1..Len(rest)
    BY <1>1, <1>2
  <2> HIDE DEF first
  <2>0. \A k \in 1..Len(first) : k = 1 \/ (k \in 2..Len(first) /\ first[k] # first[1])
    <3>1. \A k \in 1..Len(first) : k = 1 \/ k \in 2..Len(first)
      BY <1>2, <2>1
    <3>2. \A k \in 2..Len(first) : first[k] # first[1]
      BY <1>5, <2>1, Zenon
    <3> QED
      BY <3>1, <3>2, Zenon
  <2>2. ASSUME NEW j \in 1..Len(first), NEW k \in 1..Len(first), first[j] = first[k] PROVE j = k
    <3>1. CASE j = 1 \/ k = 1
      BY <2>0, <2>2, <3>1
    <3>2. CASE j # 1 /\ k # 1
      <4>1. j \in 2..Len(first) /\ k \in 2..Len(first)
        BY <3>2
      <4>2. j - 1 \in 1..Len(rest) /\ k - 1 \in 1..Len(rest) /\ rest[j - 1] = rest[k - 1]
        BY <2>1, <2>2, <4>1
      <4>3. j - 1 = k - 1
        BY <1>6, <4>2
      <4> QED
        BY <4>1, <4>3
    <3> QED
      BY <3>1, <3>2
  <2> QED
    BY <1>2, <2>1, <2>2 DEF distinct
<1>8. distinct(last) /\ last # <<>>
  <2>1. last \in Seq(Endpoint) /\ Len(last) = Len(rest) + 1 /\ last[Len(last)] = eps[i]
        /\ \A k \in 1..Len(rest) : last[k] = rest[k]
    BY <1>1, <1>2
  <2> HIDE DEF last
  <2>2. \A k \in 1..Len(last) : k = Len(last) \/ k \in 1..Len(rest)
    BY <1>2, <2>1
  <2>3. ASSUME NEW j \in 1..Len(last), NEW k \in 1..Len(last), last[j] = last[k] PROVE j = k
    BY <1>5, <1>6, <2>1, <2>2, <2>3
  <2> QED
    BY <1>2, <2>1, <2>3 DEF distinct
<1> QED
  BY <1>7, <1>8 DEF moveEndpointFirst, moveEndpointLast, rest, first, last

\* The types of the variables that ConnectionInv does not speak of.
TypeInv == Flags /\ Lists /\ Cluster /\ Routines

\* What _disconnect does to them when rpcMutex is free.
LEMMA DisconnectsTyped ==
    ASSUME ConnectionInv, Flags, Cluster, Routines, canWrite, _disconnect
    PROVE  /\ connected' \in BOOLEAN /\ notices' \subseteq Endpoint /\ watched' \subseteq Slot
           /\ user # "calling"
<1>1. user # "calling" /\ connected' = FALSE
  BY DEF canWrite, _disconnect
<1>2. notices' \subseteq Endpoint /\ watched' \subseteq Slot
  BY DEF _disconnect, close, Cluster
<1> QED
  BY <1>1, <1>2, Zenon

\* connect with a free rpcMutex.
LEMMA TakesTyped ==
    ASSUME TypeInv, NEW w \in Slot \union {User}, connect(w), closed' \in BOOLEAN
    PROVE  TypeInv'
<1>1. user # "calling"
      /\ UNCHANGED <<reconnect, list, connected, shutdown, data, server, probe, tx, watcher>>
      /\ (user' = user \/ user' \in {"idle", "connecting"})
  BY DEF connect, canWrite, connectFails
<1>2. Flags' /\ Lists'
  BY <1>1 DEF TypeInv, Flags, Lists, list, data
<1>3. Cluster' /\ Routines'
  BY <1>1 DEF TypeInv, Cluster, Routines, data, server
<1> QED
  BY <1>2, <1>3 DEF TypeInv

\* The attempt that has its connection succeeds.
LEMMA StartsTyped ==
    ASSUME ConnectionInv, Routines, attempt.stage \in {"check", "monitors"}, started
    PROVE  Routines' /\ connected' = TRUE /\ watcher' = watcher
<1>1. user # "calling" /\ rpcClient \in Slot
  BY DEF ConnectionInv, Attempts, Shape, Routines
<1>2. probe' \in [Slot -> {"none", "timer", "echo", "disconnect"}]
  BY <1>1 DEF started, Routines
<1>3. user' \in {"idle", "connecting", "leader", "locked", "panic"} /\ tx' = tx
  BY <1>1 DEF started, Routines
<1> QED
  BY <1>2, <1>3 DEF started, Routines

\* Every step keeps the types.
LEMMA TypeStep == ConnectionInv /\ TypeInv /\ [Next]_vars => TypeInv'
<1> SUFFICES ASSUME ConnectionInv, TypeInv, [Next]_vars PROVE TypeInv'
  OBVIOUS
<1> USE DEF list, conn, pcs, data, server
<1>inv. Flags /\ Lists /\ Cluster /\ Routines
  BY DEF TypeInv
<1>ServerDown. CASE ServerDown
  BY <1>inv, <1>ServerDown DEF ServerDown, TypeInv, Flags, Lists, Cluster, Routines
<1>ServerUp. CASE ServerUp
  BY <1>inv, <1>ServerUp DEF ServerUp, TypeInv, Flags, Lists, Cluster, Routines
<1>Drop. CASE Drop
  BY <1>inv, <1>Drop DEF Drop, close, TypeInv, Flags, Lists, Cluster, Routines
<1>LeaderChange. CASE LeaderChange
  BY <1>inv, <1>LeaderChange DEF LeaderChange, TypeInv, Flags, Lists, Cluster, Routines
<1>dial. CASE dial
  <2>1. user # "calling"
    BY <1>inv, <1>dial DEF dial, ConnectionInv, Attempts, Routines
  <2>2. UNCHANGED <<reconnect, list, connected, shutdown, data, server, closed, probe, tx, watcher>>
        /\ (user' = user \/ user' = "idle")
    BY <1>dial DEF dial, connectFails
  <2> QED
    BY <1>inv, <2>1, <2>2 DEF TypeInv, Flags, Lists, Cluster, Routines
<1>check. CASE check
  <2>1. attempt.stage = "check" /\ user # "calling"
        /\ UNCHANGED <<reconnect, shutdown, monitoring, server, closed>>
        /\ attempt.i \in DOMAIN endpoints
    BY <1>inv, <1>check DEF check, ConnectionInv, Attempts, Active, Routines
  <2>2. cache' \in BOOLEAN
    BY <1>check DEF check, cacheAfterCheck, Zenon
  <2>3. CASE /\ resetRPCClient
             /\ UNCHANGED <<list, connected, writer, pcs>>
    <3>1. notices' \subseteq Endpoint /\ watched' \subseteq Slot
      BY <1>inv, <2>3 DEF resetRPCClient, close, Cluster
    <3> QED
      BY <1>inv, <2>1, <2>2, <2>3, <3>1 DEF TypeInv, Flags, Lists, Cluster, Routines
  <2>4. CASE /\ serverID' = serverID \union {endpoints[attempt.i]}
             /\ endpoints' = moveEndpointFirst(endpoints, attempt.i)
             /\ \/ writer = User /\ started
                \/ UNCHANGED <<connected, writer, pcs>>
             /\ UNCHANGED <<conn, watched, notices>>
    <3>1. distinct(endpoints') /\ endpoints' # <<>>
      BY <1>inv, <2>1, <2>4, MoveDistinct DEF Lists
    <3>2. serverID' \subseteq Endpoint
      BY <1>inv, <2>1, <2>4 DEF Lists, distinct
    <3>3. Routines' /\ connected' \in BOOLEAN /\ watcher' = watcher
      BY <1>inv, <2>1, <2>4, StartsTyped, Zenon DEF Flags, Routines
    <3> QED
      BY <1>inv, <2>1, <2>2, <2>4, <3>1, <3>2, <3>3 DEF TypeInv, Flags, Lists, Cluster
  <2> QED
    BY <1>check, <2>3, <2>4 DEF check
<1>restartMonitors. CASE restartMonitors
  <2>1. attempt.stage = "monitors" /\ user # "calling" /\ rpcClient \in Slot
        /\ UNCHANGED <<reconnect, list, shutdown, cache, monitoring, server, closed>>
    BY <1>inv, <1>restartMonitors
    DEF restartMonitors, ConnectionInv, Shape, Attempts, Routines
  <2>2. CASE /\ watched' = IF monitoring THEN watched \union {rpcClient} ELSE watched
             /\ started
             /\ UNCHANGED <<conn, notices>>
    <3>1. Routines' /\ connected' \in BOOLEAN /\ watcher' = watcher
      BY <1>inv, <2>1, <2>2, StartsTyped
    <3> QED
      BY <1>inv, <2>1, <2>2, <3>1 DEF TypeInv, Flags, Lists, Cluster
  <2>3. CASE resetRPCClient /\ connectFails(writer) /\ UNCHANGED connected
    <3>1. notices' \subseteq Endpoint /\ watched' \subseteq Slot
      BY <1>inv, <2>3 DEF resetRPCClient, close, Cluster
    <3>2. UNCHANGED <<probe, tx, watcher>> /\ (user' = user \/ user' = "idle")
      BY <2>3 DEF connectFails
    <3> QED
      BY <1>inv, <2>1, <2>3, <3>1, <3>2 DEF TypeInv, Flags, Lists, Cluster, Routines
  <2> QED
    BY <1>restartMonitors, <2>2, <2>3 DEF restartMonitors
<1>notifyStop. ASSUME NEW n \in Slot, notifyStop(n) PROVE TypeInv'
  BY <1>inv, <1>notifyStop DEF notifyStop, TypeInv, Flags, Lists, Cluster, Routines
<1>handleDisconnect. ASSUME NEW n \in Slot, handleDisconnect(n) PROVE TypeInv'
  BY <1>inv, <1>handleDisconnect
  DEF handleDisconnect, canWrite, TypeInv, Flags, Lists, Cluster, Routines
<1>retry. ASSUME NEW n \in Slot, retry(n) PROVE TypeInv'
  BY <1>inv, <1>retry, TakesTyped DEF retry, Flags
<1>clearDatabases. ASSUME NEW n \in Slot, clearDatabases(n) PROVE TypeInv'
  BY <1>inv, <1>clearDatabases, Zenon DEF clearDatabases, TypeInv, Flags, Lists, Cluster, Routines
<1>notifyUser. ASSUME NEW n \in Slot, notifyUser(n) PROVE TypeInv'
  BY <1>inv, <1>notifyUser, Zenon DEF notifyUser, TypeInv, Flags, Lists, Cluster, Routines
<1>handleInactivityProbes. ASSUME NEW n \in Slot, handleInactivityProbes(n) PROVE TypeInv'
  BY <1>inv, <1>handleInactivityProbes
  DEF handleInactivityProbes, TypeInv, Flags, Lists, Cluster, Routines
<1>EchoReturns. ASSUME NEW n \in Slot, EchoReturns(n) PROVE TypeInv'
  BY <1>inv, <1>EchoReturns DEF EchoReturns, TypeInv, Flags, Lists, Cluster, Routines
<1>probeDisconnects. ASSUME NEW n \in Slot, probeDisconnects(n) PROVE TypeInv'
  <2>1. canWrite /\ _disconnect
    BY <1>probeDisconnects DEF probeDisconnects
  <2> QED
    BY <1>inv, <1>probeDisconnects, <2>1, DisconnectsTyped
    DEF probeDisconnects, TypeInv, Flags, Lists, Cluster, Routines
<1>leaderLost. ASSUME NEW e \in Endpoint, leaderLost(e) PROVE TypeInv'
  BY <1>inv, <1>leaderLost DEF leaderLost, TypeInv, Flags, Lists, Cluster, Routines
<1>leaderUpdate. CASE leaderUpdate
  <2>1. 1 \in DOMAIN endpoints
    BY <1>inv DEF Lists, distinct
  <2>2. canWrite /\ watcher' = NoConn
        /\ UNCHANGED <<reconnect, serverID, rpcClient, shutdown, writer, attempt,
                       handler, probe, tx, user, cache, monitoring, server, closed>>
    BY <1>leaderUpdate DEF leaderUpdate
  <2>3. CASE endpoints' = moveEndpointLast(endpoints, 1) /\ _disconnect
    <3>1. Lists'
      BY <1>inv, <2>1, <2>2, <2>3, MoveDistinct DEF Lists
    <3> QED
      BY <1>inv, <2>2, <2>3, <3>1, DisconnectsTyped DEF TypeInv, Flags, Cluster, Routines
  <2>4. CASE UNCHANGED <<endpoints, connected, link, watched, notices>>
    BY <1>inv, <2>2, <2>4 DEF TypeInv, Flags, Lists, Cluster, Routines
  <2> QED
    BY <1>leaderUpdate, <2>3, <2>4 DEF leaderUpdate
<1>Transact. CASE Transact
  BY <1>inv, <1>Transact DEF Transact, TypeInv, Flags, Lists, Cluster, Routines
<1>TransactWaits. CASE TransactWaits
  BY <1>inv, <1>TransactWaits DEF TransactWaits, TypeInv, Flags, Lists, Cluster, Routines
<1>transact. CASE transact
  BY <1>inv, <1>transact DEF transact, TypeInv, Flags, Lists, Cluster, Routines
<1>Connect. CASE Connect
  <2>1. connect(User) /\ closed' \in BOOLEAN
    BY <1>Connect, Zenon DEF Connect
  <2> QED
    BY <1>inv, <2>1, TakesTyped
<1>watchForLeaderChange. CASE watchForLeaderChange
  <2>1. UNCHANGED <<reconnect, list, conn, connected, shutdown, writer, attempt, handler,
                    probe, tx, watcher, cache, notices, server, closed>>
    BY <1>watchForLeaderChange DEF watchForLeaderChange
  <2>2. monitoring' \in BOOLEAN /\ watched' \subseteq Slot
    <3>1. user = "calling" => rpcClient \in Slot
      BY <1>inv DEF Routines, ConnectionInv, Shape
    <3> QED
      BY <1>inv, <3>1, <1>watchForLeaderChange, Zenon DEF watchForLeaderChange, Flags, Cluster
  <2>3. user' \in {"idle", "locked", "calling", "panic"}
        /\ (user' = "calling" => writer = Nobody /\ rpcClient # NoConn)
    BY <1>watchForLeaderChange DEF watchForLeaderChange, canRead
  <2> QED
    BY <1>inv, <2>1, <2>2, <2>3 DEF TypeInv, Flags, Lists, Cluster, Routines
<1>Disconnect. CASE Disconnect
  <2>1. canWrite /\ _disconnect
    BY <1>Disconnect DEF Disconnect
  <2> QED
    BY <1>inv, <1>Disconnect, <2>1, DisconnectsTyped
    DEF Disconnect, TypeInv, Flags, Lists, Cluster, Routines
<1>Close. CASE Close
  <2>1. canWrite /\ _disconnect
    BY <1>Close DEF Close
  <2>2. shutdown' \in BOOLEAN /\ closed' \in BOOLEAN
    BY <1>Close DEF Close, Zenon
  <2> QED
    BY <1>inv, <1>Close, <2>1, <2>2, DisconnectsTyped
    DEF Close, TypeInv, Flags, Lists, Cluster, Routines
<1>UpdateEndpoints. CASE UpdateEndpoints
  <2>1. PICK eps \in EndpointLists :
            /\ endpoints' = IF endpoints[1] \in Range(eps)
                            THEN moveEndpointFirst(eps, indexOf(eps, endpoints[1]))
                            ELSE eps
            /\ serverID' = keptServerIDs(eps)
            /\ IF endpoints[1] \in Range(eps)
               THEN UNCHANGED <<connected, link, watched, notices>>
               ELSE _disconnect
    BY <1>UpdateEndpoints DEF UpdateEndpoints
  <2>2. distinct(eps) /\ eps # <<>>
    OBVIOUS
  <2>3. distinct(endpoints') /\ endpoints' # <<>>
    <3>1. CASE endpoints[1] \in Range(eps)
      <4>1. indexOf(eps, endpoints[1]) \in DOMAIN eps
        BY <3>1 DEF indexOf, Range
      <4> QED
        BY <2>1, <2>2, <3>1, <4>1, MoveDistinct
    <3> QED
      BY <2>1, <2>2, <3>1
  <2>4. serverID' \subseteq Endpoint
    BY <1>inv, <2>1 DEF keptServerIDs, Lists
  <2>5. canWrite /\ UNCHANGED <<reconnect, rpcClient, shutdown, writer, attempt,
                                pcs, cache, monitoring, server, closed>>
    BY <1>UpdateEndpoints DEF UpdateEndpoints
  <2>6. connected' \in BOOLEAN /\ notices' \subseteq Endpoint /\ watched' \subseteq Slot
    BY <1>inv, <2>1, <2>5, DisconnectsTyped DEF Flags, Cluster
  <2> QED
    BY <1>inv, <2>3, <2>4, <2>5, <2>6 DEF TypeInv, Flags, Lists, Cluster, Routines
<1>stutter. CASE UNCHANGED vars
  BY <1>inv, <1>stutter DEF vars, TypeInv, Flags, Lists, Cluster, Routines
<1> QED
  BY <1>ServerDown, <1>ServerUp, <1>Drop, <1>LeaderChange, <1>dial, <1>check,
     <1>restartMonitors, <1>notifyStop, <1>handleDisconnect, <1>retry,
     <1>clearDatabases, <1>notifyUser, <1>handleInactivityProbes, <1>EchoReturns,
     <1>probeDisconnects, <1>leaderLost, <1>leaderUpdate, <1>Transact,
     <1>TransactWaits, <1>transact, <1>Connect, <1>watchForLeaderChange,
     <1>Disconnect, <1>Close, <1>UpdateEndpoints, <1>stutter
  DEF Next, Servers, Calls, connecting, watching, transacting,
      handleDisconnectNotification, probing

\* The variables of the client and of its goroutines have their types; a list of
\* endpoints never has one of them twice, however it is reordered.
THEOREM ClientTypeCorrect == Spec => []TypeOK
<1>1. Init => TypeInv
  <2>1. ASSUME Init PROVE Flags /\ Lists
    BY <2>1, Zenon DEF Init, Flags, Lists
  <2>2. ASSUME Init PROVE Cluster /\ Routines
    BY <2>2 DEF Init, Cluster, Routines, distinct
  <2> QED
    BY <2>1, <2>2 DEF TypeInv
<1>2. ConnectionInv /\ TypeInv => TypeOK
  BY DEF ConnectionInv, Shape, TypeInv, Flags, Lists, Cluster, Routines, TypeOK
<1> QED
  BY <1>1, <1>2, TypeStep, ConnectionInvariant, PTL DEF Spec

-----------------------------------------------------------------------------
(* A user that calls Connect only after the disconnect notification.       *)

\* There is one handler, and none while such a user connects.
OneHandler ==
    /\ \A m, n \in Slot : handler[m] # "none" /\ handler[n] # "none" => m = n
    /\ writer = User => \A n \in Slot : handler[n] = "none"

\* An endpoint that was accepted has answered.
HasCache == rpcClient # NoConn /\ attempt.stage \in {"none", "monitors"} => cache

\* After Close nothing connects, and the client stays shut down to the end of
\* its connection.
Closing ==
    closed => /\ attempt.stage = "none"
              /\ \A n \in Slot : handler[n] # "retry"
              /\ rpcClient # NoConn => shutdown

PatientInv == OneHandler /\ HasCache /\ Closing

\* A step that takes no attempt further, and of the handlers at most one from
\* one state of its own to another, keeps the invariant if it keeps what the
\* cache and the flags of Close rest on.
LEMMA PatientKept ==
    ASSUME ConnectionInv, PatientInv, UNCHANGED <<writer, attempt>>,
           \/ handler' = handler
           \/ \E n \in Slot, s \in {"none", "stopped", "cleanup", "reset", "retry"} :
                /\ handler[n] # "none" /\ handler' = [handler EXCEPT ![n] = s]
                /\ s = "retry" => ~closed /\ ~closed',
           rpcClient' \in {rpcClient, NoConn},
           rpcClient' # NoConn => /\ cache => cache'
                                  /\ shutdown => shutdown',
           closed' => closed \/ (/\ attempt.stage = "none" /\ shutdown'
                                 /\ \A n \in Slot : handler'[n] # "retry")
    PROVE  PatientInv'
<1>1. handler \in [Slot -> {"none", "watch", "stopped", "retry", "cleanup", "reset"}]
  BY DEF ConnectionInv, Shape
<1>2. OneHandler'
  BY <1>1 DEF PatientInv, OneHandler
<1>3. HasCache'
  BY DEF PatientInv, HasCache
<1>4. Closing'
  BY <1>1 DEF PatientInv, Closing
<1> QED
  BY <1>2, <1>3, <1>4 DEF PatientInv

\* The other goroutines leave all of that alone.
LEMMA PatientUntouched ==
    ASSUME ConnectionInv, PatientInv,
           UNCHANGED <<writer, attempt, handler, rpcClient, cache, shutdown, closed>>
    PROVE  PatientInv'
  BY PatientKept

\* Next to the handler of a connection in use there is no other.
LEMMA NoOther ==
    ASSUME ConnectionInv, PatientInv, NEW n \in Slot,
           handler[n] \notin {"none", "watch", "stopped"},
           attempt.stage \in {"none", "monitors"}, rpcClient # NoConn
    PROVE  attempt.stage = "monitors" /\ handler[n] = "retry"
<1>1. rpcClient \in Slot /\ writer \in Slot \union {User, Nobody}
  BY DEF ConnectionInv, Shape
<1>2. CASE attempt.stage = "none"
  BY <1>1, <1>2 DEF ConnectionInv, Connections, PatientInv, OneHandler
<1>3. CASE attempt.stage = "monitors"
  BY <1>1, <1>3 DEF ConnectionInv, Attempts, PatientInv, OneHandler
<1> QED
  BY <1>2, <1>3

\* The attempt that has its connection succeeds.
LEMMA StartsPatient ==
    ASSUME ConnectionInv, PatientInv, attempt.stage \in {"check", "monitors"}, started,
           UNCHANGED <<conn, closed>>, cache'
    PROVE  PatientInv'
<1>1. /\ handler \in [Slot -> {"none", "watch", "stopped", "retry", "cleanup", "reset"}]
      /\ rpcClient \in Slot /\ writer \in Slot \union {User} /\ writer \notin {Nobody, rpcClient}
      /\ writer \in Slot => handler[writer] = "retry"
      /\ Nobody # User /\ User \notin Slot
  BY DEF ConnectionInv, Shape, Attempts
<1>2. \A n \in Slot : handler'[n] # "none" => n = rpcClient
  BY <1>1 DEF PatientInv, OneHandler, started
<1>3. OneHandler'
  BY <1>1, <1>2 DEF OneHandler, started
<1>4. ~closed'
  BY DEF PatientInv, Closing
<1> QED
  BY <1>3, <1>4 DEF PatientInv, HasCache, Closing

\* Every step keeps the invariant.
LEMMA PatientStep ==
    ASSUME Patient PROVE ConnectionInv /\ PatientInv /\ [Next]_vars => PatientInv'
<1> SUFFICES ASSUME ConnectionInv, PatientInv, [Next]_vars PROVE PatientInv'
  OBVIOUS
<1> USE DEF list, conn, pcs, data, server
<1>Servers. CASE Servers
  BY <1>Servers, PatientKept DEF Servers, ServerDown, ServerUp, Drop, LeaderChange
<1>dial. CASE dial
  <2>1. attempt.stage = "dial" /\ ~closed
    BY <1>dial DEF dial, PatientInv, Closing
  <2>2. UNCHANGED <<handler, closed, cache>> /\ writer' \in {writer, Nobody} /\ Nobody # User
    BY <1>dial DEF dial, connectFails
  <2>3. HasCache'
    BY <1>dial, <2>1 DEF dial, connectFails, Idle, HasCache, ConnectionInv, Shape, Attempts
  <2> QED
    BY <2>1, <2>2, <2>3 DEF PatientInv, OneHandler, Closing
<1>check. CASE check
  <2>1. attempt.stage = "check" /\ ~closed /\ closed' = closed
    BY <1>check DEF check, PatientInv, Closing
  <2>2. CASE /\ resetRPCClient
             /\ attempt' = [stage |-> "dial", i |-> attempt.i + 1]
             /\ UNCHANGED <<list, connected, writer, pcs>>
    BY <2>1, <2>2 DEF PatientInv, OneHandler, HasCache, Closing
  <2>3. CASE /\ isEndpointLeader(rpcClient)
             /\ \/ writer = User /\ started
                \/ /\ attempt' = [attempt EXCEPT !.stage = "monitors"]
                   /\ UNCHANGED <<connected, writer, pcs>>
             /\ UNCHANGED <<conn, watched, notices>>
    <3>1. cache'
      BY <1>check, <2>3, Zenon DEF check, cacheAfterCheck, isEndpointLeader
    <3>2. CASE started
      BY <2>1, <2>3, <3>1, <3>2, StartsPatient
    <3>3. CASE UNCHANGED <<connected, writer, pcs>>
      BY <2>1, <2>3, <3>1, <3>3 DEF PatientInv, OneHandler, HasCache, Closing
    <3> QED
      BY <2>3, <3>2, <3>3
  <2> QED
    BY <1>check, <2>2, <2>3 DEF check
<1>restartMonitors. CASE restartMonitors
  <2>1. attempt.stage = "monitors" /\ ~closed /\ UNCHANGED <<closed, cache>> /\ rpcClient # NoConn
    BY <1>restartMonitors DEF restartMonitors, PatientInv, Closing, ConnectionInv, Attempts
  <2>2. CASE started /\ UNCHANGED <<conn, notices>>
    BY <2>1, <2>2, StartsPatient DEF PatientInv, HasCache
  <2>3. CASE resetRPCClient /\ connectFails(writer)
    BY <2>1, <2>3
    DEF resetRPCClient, connectFails, PatientInv, OneHandler, HasCache, Closing
  <2> QED
    BY <1>restartMonitors, <2>2, <2>3 DEF restartMonitors
<1>notifyStop. ASSUME NEW n \in Slot, notifyStop(n) PROVE PatientInv'
  BY <1>notifyStop, PatientKept, Zenon DEF notifyStop
<1>handleDisconnect. ASSUME NEW n \in Slot, handleDisconnect(n) PROVE PatientInv'
  <2>1. reconnects => ~closed
    BY <1>handleDisconnect
    DEF handleDisconnect, reconnects, PatientInv, Closing, ConnectionInv, Connections
  <2> QED
    BY <1>handleDisconnect, <2>1, PatientKept, Zenon DEF handleDisconnect
<1>connect. ASSUME NEW w \in Slot \union {User}, connect(w), ~closed',
                   w = User => \A n \in Slot : handler[n] = "none"
            PROVE  PatientInv'
  <2>1. /\ UNCHANGED <<handler, rpcClient, cache>>
        /\ \/ rpcClient # NoConn /\ writer' = Nobody /\ attempt' = Idle /\ attempt.stage = "none"
           \/ rpcClient = NoConn /\ writer' = w
    BY <1>connect DEF connect, connectFails, canWrite, ConnectionInv, Attempts
  <2> QED
    BY <1>connect, <2>1 DEF PatientInv, OneHandler, HasCache, Closing, Idle
<1>retry. ASSUME NEW n \in Slot, retry(n) PROVE PatientInv'
  BY <1>connect, <1>retry DEF retry, PatientInv, Closing
<1>clearDatabases. ASSUME NEW n \in Slot, clearDatabases(n) PROVE PatientInv'
  <2>1. ~(rpcClient # NoConn /\ attempt.stage \in {"none", "monitors"})
    BY <1>clearDatabases, NoOther DEF clearDatabases
  <2> QED
    BY <1>clearDatabases, <2>1
    DEF clearDatabases, PatientInv, OneHandler, HasCache, Closing, ConnectionInv, Shape
<1>notifyUser. ASSUME NEW n \in Slot, notifyUser(n) PROVE PatientInv'
  <2>1. ~(rpcClient # NoConn /\ attempt.stage = "none")
    BY <1>notifyUser, NoOther DEF notifyUser
  <2> QED
    BY <1>notifyUser, <2>1
    DEF notifyUser, PatientInv, OneHandler, HasCache, Closing, ConnectionInv, Shape
<1>probing. ASSUME NEW n \in Slot, probing(n) PROVE PatientInv'
  BY <1>probing, PatientKept
  DEF probing, handleInactivityProbes, EchoReturns, probeDisconnects
<1>watching. CASE watching \/ watchForLeaderChange
  <2>1. UNCHANGED <<writer, attempt, handler, rpcClient, cache, shutdown, closed>>
    BY <1>watching, Zenon DEF watching, leaderUpdate, leaderLost, watchForLeaderChange, list, conn
  <2> QED
    BY <2>1, PatientUntouched
<1>transacting. CASE Transact \/ transacting
  <2>1. UNCHANGED <<writer, attempt, handler, rpcClient, cache, shutdown, closed>>
    BY <1>transacting, Zenon DEF transacting, Transact, TransactWaits, transact, list, conn, data
  <2> QED
    BY <2>1, PatientUntouched
<1>Connect. CASE Connect
  BY <1>connect, <1>Connect DEF Connect, mayConnect
<1>Disconnect. CASE Disconnect \/ UpdateEndpoints
  <2>1. UNCHANGED <<writer, attempt, handler, rpcClient, cache, shutdown, closed>>
    BY <1>Disconnect, Zenon DEF Disconnect, UpdateEndpoints, list, pcs
  <2> QED
    BY <2>1, PatientUntouched
<1>Close. CASE Close
  <2>1. attempt.stage = "none"
    BY <1>Close DEF Close, canWrite, ConnectionInv, Attempts
  <2>2. ASSUME rpcClient # NoConn, NEW n \in Slot PROVE handler[n] # "retry"
    BY <2>1, <2>2, NoOther
  <2> QED
    BY <1>Close, <2>1, <2>2, PatientKept, Zenon DEF Close
<1>stutter. CASE UNCHANGED vars
  BY <1>stutter, PatientKept DEF vars
<1> QED
  BY <1>Servers, <1>dial, <1>check, <1>restartMonitors, <1>notifyStop,
     <1>handleDisconnect, <1>retry, <1>clearDatabases, <1>notifyUser, <1>probing,
     <1>watching, <1>transacting, <1>Connect, <1>Disconnect, <1>Close, <1>stutter
  DEF Next, Calls, connecting, handleDisconnectNotification

\* The invariant of a patient user.
LEMMA PatientInvariant == ASSUME Patient PROVE Spec => []PatientInv
<1>1. Init => PatientInv
  BY DEF Init, Idle, PatientInv, OneHandler, HasCache, Closing
<1> QED
  BY <1>1, PatientStep, ConnectionInvariant, PTL DEF Spec

\* If the user waits for the disconnect notification before it connects again,
\* what handleDisconnectNotification clears late is never the cache of a new
\* connection: a client that looks connected has one.
THEOREM ConnectedHasItsCache == ASSUME Patient PROVE Spec => []ConnectedHasCache
<1>1. ConnectionInv /\ PatientInv => ConnectedHasCache
  BY DEF ConnectedHasCache, ConnectionInv, Attempts, PatientInv, HasCache
<1> QED
  BY <1>1, ConnectionInvariant, PatientInvariant, PTL

\* With such a user a Close that found a connection is not followed by another
\* connection before the next Connect: the goroutines of the client do not
\* reconnect.
THEOREM CloseIsFinal == ASSUME Patient PROVE Spec => ClosedStaysClosed
<1>1. ConnectionInv /\ PatientInv /\ [Next]_vars
        => [closed /\ closed' => rpcClient' \in {rpcClient, NoConn}]_vars
  <2> SUFFICES ASSUME ConnectionInv, PatientInv, Next, closed
               PROVE  rpcClient' \in {rpcClient, NoConn}
    BY DEF vars
  <2>1. attempt.stage = "none"
    BY DEF PatientInv, Closing
  <2> USE DEF conn
  <2>2. ~dial /\ ~check /\ ~restartMonitors
    BY <2>1 DEF dial, check, restartMonitors
  <2>3. CASE Servers
    BY <2>3, Zenon DEF Servers, ServerDown, ServerUp, Drop, LeaderChange
  <2>4. CASE Calls
    BY <2>4, Zenon DEF Calls, Connect, connect, Disconnect, Close, UpdateEndpoints, Transact
  <2>5. CASE watching \/ transacting \/ watchForLeaderChange
    BY <2>5, Zenon DEF watching, leaderUpdate, leaderLost, transacting, TransactWaits,
                transact, watchForLeaderChange
  <2>6. ASSUME NEW n \in Slot, handleDisconnectNotification(n)
        PROVE  rpcClient' \in {rpcClient, NoConn}
    BY <2>6, Zenon DEF handleDisconnectNotification, notifyStop, handleDisconnect, retry,
                connect, clearDatabases, notifyUser
  <2>7. ASSUME NEW n \in Slot, probing(n) PROVE rpcClient' = rpcClient
    BY <2>7, Zenon DEF probing, handleInactivityProbes, EchoReturns, probeDisconnects
  <2> QED
    BY <2>2, <2>3, <2>4, <2>5, <2>6, <2>7 DEF Next, connecting
<1> QED
  BY <1>1, ConnectionInvariant, PatientInvariant, PTL DEF Spec, ClosedStaysClosed

=============================================================================

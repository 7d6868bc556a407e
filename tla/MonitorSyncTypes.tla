-------------------------- MODULE MonitorSyncTypes --------------------------
(***************************************************************************)
(* The types of the client's monitors: every step keeps them, for any      *)
(* number of monitors, endpoints and rows, with and without timeouts.      *)
(***************************************************************************)
EXTENDS MonitorSync, TLAPS

\* What the steps need of the number of monitors in a set.  MonitorSyncProofs
\* shows that it holds for every finite set of monitors.
Sizes ==
  /\ Cardinality({}) = 0
  /\ \A m \in Cookie : Cardinality({m}) = 1
  /\ \A S \in SUBSET Cookie : Cardinality(S) \in Nat

-----------------------------------------------------------------------------
(* Types.  Messages, deferred updates and the client name transactions by  *)
(* their position; all of them are positions of the log.                   *)

Positions == 1..Len(log)

RowUpdateOps == {"insert", "delete", "replace", "modify"}

\* The updates of some of the rows.
RowUpdates == UNION {[S -> [op : RowUpdateOps, data : Content]] : S \in SUBSET Row}

Requests ==
  [method : {Since, Cond, Plain, "monitor_cancel"}, cookie : Cookie, since : Nat]

Notifications(P) == [kind : {"update"}, cookie : Cookie, last : P, updates : RowUpdates]

Replies(P) ==
  [kind : {"reply"}, cookie : Cookie, found : BOOLEAN, last : P, updates : RowUpdates]
    \cup [kind : {"unknown_method", "cancelled"}, cookie : Cookie]

Messages(P) == Notifications(P) \cup Replies(P)

DeferredUpdates(P) == [updates : RowUpdates, at : P, last : P \cup {0}]

LogTypes ==
  /\ log \in Seq(Rows) /\ Len(log) > 0
  /\ known \in [Endpoint -> SUBSET Positions]
  /\ supported \in Servers

ConnectionTypes ==
  /\ subscribed \subseteq Cookie
  /\ link \in Endpoint \cup {None}
  /\ requests \in Seq(Requests) /\ wire \in Seq(Messages(Positions))
  /\ link = None => subscribed = {} /\ requests = <<>> /\ wire = <<>>

DatabaseTypes ==
  /\ cache \in Rows /\ synced \in Positions \cup {0}
  /\ monitors \subseteq Cookie
  /\ method \in [Cookie -> {Since, Cond, Plain}]
  /\ LastTransactionID \in [Cookie -> Positions \cup {0}]
  /\ deferUpdates \in BOOLEAN

DeferredTypes ==
  /\ deferredUpdates \in Seq(DeferredUpdates(Positions))
  /\ drained \in 0..Len(deferredUpdates)
  /\ caller # "draining" => drained = 0

CallerTypes ==
  /\ mode \in {"up", "down", "restart"}
  /\ restarting \subseteq Cookie /\ used \subseteq Cookie
  /\ caller \in {"idle", "calling", "cancelling", "replied", "draining"}
  /\ callerCookie \in Cookie \cup {None}
  /\ caller # "idle" => callerCookie \in Cookie
  /\ caller = "replied" => callerReply \in Replies(Positions)

ReaderTypes ==
  /\ reader \in {"idle", "update3", "error"} /\ oldError \in BOOLEAN
  /\ reader = "update3" => readerUpdate \in Notifications(Positions)
  /\ errorHandler \in {"idle", "taken", "reset"}

TypeInv ==
  /\ LogTypes /\ ConnectionTypes /\ DatabaseTypes
  /\ DeferredTypes /\ CallerTypes /\ ReaderTypes

\* A step that leaves the variables of one of these alone keeps it.
LEMMA Stable ==
  /\ LogTypes /\ UNCHANGED <<log, known, supported>> => LogTypes'
  /\ ConnectionTypes /\ UNCHANGED <<log, subscribed, link, requests, wire>> => ConnectionTypes'
  /\ DatabaseTypes /\ UNCHANGED <<log, cache, synced, monitors, method, LastTransactionID,
                                  deferUpdates>> => DatabaseTypes'
  /\ DeferredTypes /\ UNCHANGED <<log, deferredUpdates, drained, caller>> => DeferredTypes'
  /\ CallerTypes /\ UNCHANGED <<log, mode, restarting, used, caller, callerCookie, callerReply>>
       => CallerTypes'
  /\ ReaderTypes /\ UNCHANGED <<log, reader, readerUpdate, oldError, errorHandler>> => ReaderTypes'
<1>1. LogTypes /\ UNCHANGED <<log, known, supported>> => LogTypes'
  BY Zenon DEF LogTypes, Positions
<1>2. ConnectionTypes /\ UNCHANGED <<log, subscribed, link, requests, wire>> => ConnectionTypes'
  BY Zenon DEF ConnectionTypes, Positions
<1>3. DatabaseTypes /\ UNCHANGED <<log, cache, synced, monitors, method, LastTransactionID,
                                   deferUpdates>> => DatabaseTypes'
  BY Zenon DEF DatabaseTypes, Positions
<1>4. DeferredTypes /\ UNCHANGED <<log, deferredUpdates, drained, caller>> => DeferredTypes'
  BY Zenon DEF DeferredTypes, Positions
<1>5. CallerTypes /\ UNCHANGED <<log, mode, restarting, used, caller, callerCookie, callerReply>>
        => CallerTypes'
  BY Zenon DEF CallerTypes, Positions
<1>6. ReaderTypes /\ UNCHANGED <<log, reader, readerUpdate, oldError, errorHandler>>
        => ReaderTypes'
  BY Zenon DEF ReaderTypes, Positions
<1> QED
  BY <1>1, <1>2, <1>3, <1>4, <1>5, <1>6, Zenon

\* Updates between two states are typed updates.
LEMMA UpdatesType ==
  ASSUME NEW m \in Cookie, NEW from \in Rows, NEW to \in Rows
  PROVE  Updates(m, from, to) \in RowUpdates
<1> DEFINE S == {x \in Watched[m] : from[x] # to[x]}
<1>1. S \in SUBSET Row
  BY WatchedAssumption, Zenon
<1>2. ASSUME NEW r \in S PROVE RowUpdate(method[m], from[r], to[r]) \in [op : RowUpdateOps, data : Content]
  <2>1. r \in Row /\ from[r] # to[r] /\ from[r] \in Content \cup {NoRow} /\ to[r] \in Content \cup {NoRow}
    BY <1>1, Zenon DEF Rows
  <2>2. from[r] # NoRow /\ to[r] # NoRow => SymmetricDifference(from[r], to[r]) \in Content
    BY <2>1, Zenon DEF Content, SymmetricDifference
  <2>3. {} \in Content
    BY Zenon DEF Content
  <2> HIDE DEF S
  <2>4. QED
    BY <2>1, <2>2, <2>3, Zenon DEF RowUpdate, RowUpdateOps
<1>3. Updates(m, from, to) = [r \in S |-> RowUpdate(method[m], from[r], to[r])]
  BY Zenon DEF Updates
<1> HIDE DEF S
<1>4. Updates(m, from, to) \in [S -> [op : RowUpdateOps, data : Content]]
  BY <1>2, <1>3, Zenon
<1> QED
  BY <1>1, <1>4, Zenon DEF RowUpdates

\* Whatever Populate2 leaves behind has the type of the cache.
LEMMA PopulatedType ==
  ASSUME NEW rows \in Rows, NEW updates \in RowUpdates, NEW new \in Populated(rows, updates)
  PROVE  new \in Rows
<1>1. PICK S : S \subseteq DOMAIN updates /\ new = AppliedTo(rows, updates, S)
                /\ \A r \in S : Applicable(rows, updates, r)
  BY Zenon DEF Populated, PopulateFails
<1>2. PICK T \in SUBSET Row : updates \in [T -> [op : RowUpdateOps, data : Content]]
  BY Zenon DEF RowUpdates
<1>3. ASSUME NEW r \in S PROVE Applied(rows, updates, r) \in Content \cup {NoRow}
  <2>1. r \in Row /\ updates[r].op \in RowUpdateOps /\ updates[r].data \in Content
    BY <1>1, <1>2, Zenon
  <2>2. rows[r] \in Content \cup {NoRow} /\ (updates[r].op # "insert" => rows[r] # NoRow)
    BY <1>1, <2>1, Zenon DEF Rows, Applicable
  <2>3. updates[r].op # "insert" => SymmetricDifference(rows[r], updates[r].data) \in Content
    BY <2>1, <2>2, Zenon DEF SymmetricDifference, Content
  <2>4. QED
    BY <2>1, <2>2, <2>3, Zenon DEF Applied, RowUpdateOps
<1>4. \A r \in Row : rows[r] \in Content \cup {NoRow}
  BY Zenon DEF Rows
<1>5. QED
  BY <1>1, <1>3, <1>4, Zenon DEF AppliedTo, Rows

\* The parts of a message that the client reads.
LEMMA MessageParts ==
  ASSUME NEW P, NEW msg \in Messages(P)
  PROVE  /\ msg.cookie \in Cookie
         /\ msg.kind \in {"update", "reply", "unknown_method", "cancelled"}
         /\ msg.kind = "update" => msg \in Notifications(P)
         /\ msg.kind # "update" => msg \in Replies(P)
         /\ msg.kind \in {"update", "reply"} => msg.last \in P /\ msg.updates \in RowUpdates
BY Zenon DEF Messages, Notifications, Replies

\* When the log grows, what was typed stays typed.
LEMMA Monotonic ==
  ASSUME NEW P, NEW Q, P \subseteq Q
  PROVE  /\ Notifications(P) \subseteq Notifications(Q) /\ Replies(P) \subseteq Replies(Q)
         /\ Messages(P) \subseteq Messages(Q) /\ DeferredUpdates(P) \subseteq DeferredUpdates(Q)
<1>1. Notifications(P) \subseteq Notifications(Q)
  BY Zenon DEF Notifications
<1>2. Replies(P) \subseteq Replies(Q)
  BY Zenon DEF Replies
<1>3. DeferredUpdates(P) \subseteq DeferredUpdates(Q)
  BY Zenon DEF DeferredUpdates
<1> QED
  BY <1>1, <1>2, <1>3, Zenon DEF Messages

\* A request of monitor() is one the server understands.
LEMMA RequestType ==
  ASSUME TypeInv, NEW m \in Cookie, NEW meth \in {Since, Cond, Plain}, NEW b \in BOOLEAN
  PROVE  request(m, meth, b) \in Requests
<1>1. LastTransactionID[m] \in Nat
  BY DEF TypeInv, DatabaseTypes, LogTypes, Positions
<1> QED
  BY <1>1, Zenon DEF request, Requests

\* The first message of a sequence of messages and the ones behind it.
LEMMA FirstOf ==
  ASSUME NEW S, NEW s \in Seq(S), s # <<>>
  PROVE  /\ Head(s) = s[1] /\ s[1] \in S /\ Tail(s) \in Seq(S)
         /\ Len(s) \in Nat \ {0} /\ Len(Tail(s)) = Len(s) - 1
         /\ \A n \in 1..Len(Tail(s)) : Tail(s)[n] = s[n + 1] /\ n + 1 \in 1..Len(s)
OBVIOUS

\* A sequence with one message more.
LEMMA AddedTo ==
  ASSUME NEW S, NEW s \in Seq(S), NEW x \in S
  PROVE  /\ Append(s, x) \in Seq(S) /\ Append(s, x) # <<>>
         /\ Len(s) \in Nat /\ Len(Append(s, x)) = Len(s) + 1
         /\ \A n \in 1..Len(s) : Append(s, x)[n] = s[n]
         /\ Append(s, x)[Len(s) + 1] = x
OBVIOUS

\* No message at all.
LEMMA NoneOf ==
  ASSUME NEW S
  PROVE  /\ <<>> \in Seq(S) /\ Len(<<>>) = 0
         /\ \A s \in Seq(S) : s # <<>> => Len(s) \in Nat \ {0}
OBVIOUS

\* The messages of a sequence.
LEMMA AllOf ==
  ASSUME NEW S, NEW s \in Seq(S)
  PROVE  Len(s) \in Nat /\ s \in [1..Len(s) -> S] /\ DOMAIN s = 1..Len(s)
OBVIOUS

\* A sequence of messages is one of more kinds of messages.
LEMMA MoreOf == ASSUME NEW S, NEW T, S \subseteq T, NEW s \in Seq(S) PROVE s \in Seq(T)
BY AllOf

-----------------------------------------------------------------------------
(* Every step keeps the types.                                             *)

\* A transaction is committed: the log grows and with it the set of positions.
LEMMA TypeCommit == ASSUME Sizes, TypeInv, NEW rows \in Rows, Commit(rows) PROVE TypeInv'
<1> USE DEF TypeInv
<1> DEFINE seen == {m \in subscribed : DOMAIN Updates(m, latest, rows) # {}}
           message(m) == [kind |-> "update", cookie |-> m, last |-> Len(log) + 1,
                          updates |-> Updates(m, latest, rows)]
<1>1. PICK order \in Bijection(1..Cardinality(seen), seen) :
        wire' = wire \o [n \in DOMAIN order |-> message(order[n])]
  BY Zenon DEF Commit
<1> DEFINE more == [n \in DOMAIN order |-> message(order[n])]
<1>2. /\ log' = Append(log, rows) /\ log' \in Seq(Rows)
      /\ Len(log) \in Nat \ {0} /\ Len(log') = Len(log) + 1
  BY AddedTo DEF Commit, LogTypes
<1>3. /\ Positions \subseteq Positions' /\ Len(log) + 1 \in Positions'
      /\ UNCHANGED <<supported, subscribed, link, requests>>
      /\ UNCHANGED database /\ UNCHANGED callerVars /\ UNCHANGED readerVars /\ UNCHANGED bounds
  BY <1>2 DEF Positions, Commit
<1>4. \A m \in seen : message(m) \in Messages(Positions')
  <2>1. latest \in Rows
    BY DEF latest, LogTypes
  <2> QED
    BY <1>3, <2>1, UpdatesType, Zenon DEF Messages, Notifications, ConnectionTypes
<1>5. Cardinality(seen) \in Nat
  BY Zenon DEF ConnectionTypes, Sizes
<1> HIDE DEF seen, message
<1>6. DOMAIN order = 1..Cardinality(seen) /\ \A n \in 1..Cardinality(seen) : order[n] \in seen
  BY Zenon DEF Bijection, Injection
<1>7. more \in Seq(Messages(Positions')) /\ Len(more) = Cardinality(seen)
  BY <1>4, <1>5, <1>6
<1>8. LogTypes'
  <2>1. known' = [s \in Endpoint |-> known[s] \cup {Len(log) + 1}]
    BY Zenon DEF Commit
  <2> QED
    BY <1>2, <1>3, <2>1 DEF LogTypes
<1>9. ConnectionTypes'
  <2>1. wire \in Seq(Messages(Positions'))
    <3>1. Messages(Positions) \subseteq Messages(Positions')
      BY <1>3, Monotonic, Zenon
    <3> QED
      BY <3>1, MoreOf, Zenon DEF ConnectionTypes
  <2>2. wire' \in Seq(Messages(Positions'))
    BY <1>1, <1>7, <2>1 DEF more
  <2>3. link = None => seen = {}
    BY Zenon DEF ConnectionTypes, seen
  <2>4. link = None => wire' = <<>>
    BY <1>1, <1>5, <1>6, <1>7, <2>3 DEF ConnectionTypes, more
  <2> QED
    BY <1>3, <2>2, <2>4, Zenon DEF ConnectionTypes
<1>10. DatabaseTypes'
  BY <1>3, Zenon DEF DatabaseTypes, database
<1>11. DeferredTypes'
  <2>1. deferredUpdates \in Seq(DeferredUpdates(Positions'))
    <3>1. DeferredUpdates(Positions) \subseteq DeferredUpdates(Positions')
      BY <1>3, Monotonic, Zenon
    <3> QED
      BY <3>1, MoreOf, Zenon DEF DeferredTypes
  <2> QED
    BY <1>3, <2>1, Zenon DEF DeferredTypes, database, callerVars
<1>12. CallerTypes'
  BY <1>3, Monotonic, Zenon DEF CallerTypes, callerVars, bounds
<1>13. ReaderTypes'
  BY <1>3, Monotonic, Zenon DEF ReaderTypes, readerVars
<1> QED
  BY <1>8, <1>9, <1>10, <1>11, <1>12, <1>13, Zenon

\* The server answers a call.
LEMMA TypeServeMonitor == ASSUME TypeInv, ServeMonitor PROVE TypeInv'
<1> USE DEF TypeInv
<1> DEFINE rq == Head(requests)
           m == rq.cookie
           found == rq.method = Since /\ rq.since \in known[link]
           base == IF found THEN log[rq.since] ELSE noRows
           reply == [kind |-> "reply", cookie |-> m, found |-> found, last |-> Len(log),
                     updates |-> Updates(m, base, latest)]
<1>1. requests # <<>> /\ requests \in Seq(Requests)
  BY Zenon DEF ServeMonitor, ConnectionTypes
<1>2. rq \in Requests /\ Tail(requests) \in Seq(Requests)
  BY <1>1, FirstOf, Zenon
<1>3. m \in Cookie /\ link \in Endpoint
  BY <1>1, <1>2, Zenon DEF Requests, ConnectionTypes
<1>4. reply \in Messages(Positions)
  <2>1. base \in Rows /\ latest \in Rows /\ Len(log) \in Positions
    BY <1>3 DEF LogTypes, latest, noRows, Rows, Positions
  <2>2. Updates(m, base, latest) \in RowUpdates
    BY <1>3, <2>1, UpdatesType, Zenon
  <2> QED
    BY <1>3, <2>1, <2>2, Zenon DEF Messages, Replies
<1>5. \A k \in {"unknown_method", "cancelled"} : [kind |-> k, cookie |-> m] \in Messages(Positions)
  BY <1>3, Zenon DEF Messages, Replies
<1>6. \/ wire' = Append(wire, reply) /\ subscribed' = subscribed \cup {m}
      \/ wire' = Append(wire, [kind |-> "unknown_method", cookie |-> m]) /\ subscribed' = subscribed
      \/ wire' = Append(wire, [kind |-> "cancelled", cookie |-> m]) /\ subscribed' = subscribed \ {m}
  BY Zenon DEF ServeMonitor
<1> HIDE DEF reply, m, rq
<1>7. PICK msg \in Messages(Positions) :
        wire' = Append(wire, msg) /\ subscribed' \subseteq subscribed \cup {m}
  BY <1>4, <1>5, <1>6, Zenon
<1>8. wire' \in Seq(Messages(Positions))
  BY <1>7, AddedTo, Zenon DEF ConnectionTypes
<1>9. /\ requests' = Tail(requests) /\ UNCHANGED <<log, known, supported, link>>
      /\ UNCHANGED database /\ UNCHANGED callerVars /\ UNCHANGED readerVars /\ UNCHANGED bounds
  BY Zenon DEF ServeMonitor
<1>10. ConnectionTypes'
  BY <1>2, <1>3, <1>7, <1>8, <1>9, NoneAssumption, Zenon DEF ConnectionTypes, Positions
<1> QED
  BY <1>9, <1>10, Stable, Zenon DEF database, callerVars, readerVars, bounds

\* The rest of the server.
LEMMA TypeServer ==
  ASSUME TypeInv, (\E s \in Endpoint : Forget(s)) \/ LinkLost
  PROVE  TypeInv'
<1> USE DEF TypeInv, connection, database, callerVars, readerVars, bounds
<1>1. ASSUME NEW s \in Endpoint, Forget(s) PROVE TypeInv'
  <2>1. LogTypes'
    BY <1>1, Zenon DEF LogTypes, Forget, Positions
  <2> QED
    BY <1>1, <2>1, Stable, Zenon DEF Forget
<1>2. CASE LinkLost
  <2>1. ConnectionTypes'
    BY <1>2, NoneOf, Zenon DEF ConnectionTypes, LinkLost, cut
  <2> QED
    BY <1>2, <2>1, Stable, Zenon DEF LinkLost
<1> QED
  BY <1>1, <1>2, Zenon

\* The caller sends a request.
LEMMA TypeRequest ==
  ASSUME TypeInv, NEW rq \in Requests, requests' = Append(requests, rq), link # None,
         UNCHANGED <<log, subscribed, link, wire>>
  PROVE  ConnectionTypes'
<1>1. requests' \in Seq(Requests)
  BY AddedTo, Zenon DEF TypeInv, ConnectionTypes
<1> QED
  BY <1>1, Zenon DEF TypeInv, ConnectionTypes, Positions

LEMMA TypeCall ==
  ASSUME TypeInv, NEW m \in Cookie, caller = "idle", link # None,
         (mode = "up" /\ (Monitor(m) \/ MonitorCancel(m))) \/ RestartMonitor(m)
  PROVE  TypeInv'
<1> USE DEF TypeInv, server, connection, database, callerVars, readerVars, bounds
<1>1. /\ caller' \in {"calling", "cancelling"} /\ callerCookie' = m
      /\ restarting' \subseteq restarting /\ used' \subseteq used \cup {m}
      /\ UNCHANGED server /\ UNCHANGED database /\ UNCHANGED readerVars
      /\ UNCHANGED <<link, wire, mode, callerReply, drained>>
  BY Zenon DEF Monitor, MonitorCancel, RestartMonitor, call
<1>2. ConnectionTypes'
  <2>1. \E rq \in Requests : requests' = Append(requests, rq)
    <3>1. \A b \in BOOLEAN : request(m, method[m], b) \in Requests
      BY RequestType, Zenon DEF DatabaseTypes
    <3>2. [method |-> "monitor_cancel", cookie |-> m, since |-> 0] \in Requests
      BY Zenon DEF Requests
    <3> QED
      BY <3>1, <3>2, Zenon DEF Monitor, MonitorCancel, RestartMonitor, call
  <2> QED
    BY <1>1, <2>1, TypeRequest, Zenon
<1>3. CallerTypes'
  BY <1>1, Zenon DEF CallerTypes
<1>4. DeferredTypes'
  BY <1>1, Zenon DEF DeferredTypes, Positions
<1> QED
  BY <1>1, <1>2, <1>3, <1>4, Stable, Zenon

LEMMA TypeFallback == ASSUME TypeInv, Fallback PROVE TypeInv'
<1> USE DEF TypeInv, server, connection, database, callerVars, readerVars, bounds
<1>1. /\ caller = "replied" /\ caller' = "calling" /\ callerCookie \in Cookie
      /\ \E meth \in {Cond, Plain} : /\ method' = [method EXCEPT ![callerCookie] = meth]
                                     /\ requests' = IF link = None THEN requests ELSE
                                          Append(requests, request(callerCookie, meth, mode = "restart"))
      /\ UNCHANGED server /\ UNCHANGED readerVars /\ UNCHANGED bounds
      /\ UNCHANGED <<link, wire, cache, synced, monitors, LastTransactionID, deferUpdates,
                     deferredUpdates, mode, restarting, callerCookie, drained>>
  BY Zenon DEF Fallback, CallerTypes
<1>2. ConnectionTypes'
  <2>1. \A meth \in {Cond, Plain} : request(callerCookie, meth, mode = "restart") \in Requests
    BY <1>1, RequestType, Zenon
  <2>2. CASE link = None
    BY <1>1, <2>2, Stable, Zenon
  <2>3. CASE link # None
    BY <1>1, <2>1, <2>3, TypeRequest, Zenon
  <2> QED
    BY <2>2, <2>3, Zenon
<1>3. DatabaseTypes'
  BY <1>1, Zenon DEF DatabaseTypes, Positions
<1>4. CallerTypes' /\ DeferredTypes'
  BY <1>1, Zenon DEF CallerTypes, DeferredTypes, Positions
<1> QED
  BY <1>1, <1>2, <1>3, <1>4, Stable, Zenon

\* monitor() returns an error.
LEMMA TypeReturnError ==
  ASSUME TypeInv, returnError, DatabaseTypes'
  PROVE  TypeInv'
<1> USE DEF TypeInv, connection, readerVars
<1>1. /\ caller' = "idle" /\ callerCookie' = None /\ drained' = 0
      /\ UNCHANGED <<log, known, supported, used>> /\ UNCHANGED readerVars
  BY Zenon DEF returnError, forget
<1>2. CASE mode = "restart"
  <2>1. mode' = "down" /\ restarting' = {} /\ cut /\ deferredUpdates' = <<>>
    BY <1>2, Zenon DEF returnError
  <2>2. ConnectionTypes'
    BY <2>1, NoneOf, Zenon DEF ConnectionTypes, cut
  <2>3. CallerTypes' /\ DeferredTypes'
    BY <1>1, <2>1, NoneOf DEF CallerTypes, DeferredTypes
  <2> QED
    BY <1>1, <2>2, <2>3, Stable, Zenon
<1>3. CASE mode # "restart"
  <2>1. UNCHANGED <<mode, restarting, subscribed, connection, deferredUpdates>>
    BY <1>3, Zenon DEF returnError
  <2>2. CallerTypes' /\ DeferredTypes'
    BY <1>1, <2>1 DEF CallerTypes, DeferredTypes, Positions
  <2> QED
    BY <1>1, <2>1, <2>2, Stable, Zenon
<1> QED
  BY <1>2, <1>3, Zenon

LEMMA TypePopulateReply == ASSUME TypeInv, PopulateReply PROVE TypeInv'
<1> USE DEF TypeInv, server, connection, database, callerVars, readerVars, bounds
<1> DEFINE before == IF purge THEN noRows ELSE cache
<1>1. /\ callerReply \in Replies(Positions) /\ callerReply.kind = "reply"
      /\ callerCookie \in Cookie /\ before \in Rows
  BY Zenon DEF PopulateReply, CallerTypes, DatabaseTypes, noRows, Rows
<1>2. callerReply.last \in Positions /\ callerReply.updates \in RowUpdates
  BY <1>1, MessageParts, Zenon DEF Messages
<1>3. cache' \in Rows
  BY <1>1, <1>2, PopulatedType, Zenon DEF PopulateReply
<1>4. /\ synced' = callerReply.last /\ monitors' = monitors \cup {callerCookie}
      /\ LastTransactionID' \in {LastTransactionID,
                                 [LastTransactionID EXCEPT ![callerCookie] = callerReply.last]}
      /\ method' = method /\ deferUpdates' \in BOOLEAN /\ log' = log
  BY Zenon DEF PopulateReply, returnError, DatabaseTypes
<1>5. DatabaseTypes'
  BY <1>1, <1>2, <1>3, <1>4, Zenon DEF DatabaseTypes, Positions
<1>6. CASE returnError
  BY <1>5, <1>6, TypeReturnError, Zenon
<1>7. CASE ~returnError
  <2>1. /\ caller' = "draining"
        /\ UNCHANGED server /\ UNCHANGED connection /\ UNCHANGED readerVars
        /\ UNCHANGED <<deferredUpdates, mode, restarting, callerCookie, drained, used>>
    BY <1>7, Zenon DEF PopulateReply
  <2>2. CallerTypes' /\ DeferredTypes'
    BY <1>1, <2>1, Zenon DEF CallerTypes, DeferredTypes, Positions
  <2> QED
    BY <1>5, <2>1, <2>2, Stable, Zenon
<1> QED
  BY <1>6, <1>7, Zenon

LEMMA TypePopulateDeferred == ASSUME TypeInv, PopulateDeferred PROVE TypeInv'
<1> USE DEF TypeInv, server, connection, database, callerVars, readerVars, bounds
<1> DEFINE update == deferredUpdates[drained + 1]
<1>1. /\ caller = "draining" /\ drained < Len(deferredUpdates) /\ drained \in Nat
      /\ drained + 1 \in 1..Len(deferredUpdates) /\ callerCookie \in Cookie
  BY DEF PopulateDeferred, CallerTypes, DeferredTypes
<1>2. update \in DeferredUpdates(Positions)
  BY <1>1 DEF DeferredTypes
<1>3. update.updates \in RowUpdates /\ update.at \in Positions /\ update.last \in Positions \cup {0}
  BY <1>2, Zenon DEF DeferredUpdates
<1>4. cache' \in Rows
  BY <1>3, PopulatedType, Zenon DEF PopulateDeferred, DatabaseTypes
<1>5. /\ synced' = update.at /\ monitors' = monitors
      /\ LastTransactionID' \in {LastTransactionID,
                                 [LastTransactionID EXCEPT ![callerCookie] = update.last]}
      /\ method' = method /\ deferUpdates' \in BOOLEAN /\ log' = log
  BY Zenon DEF PopulateDeferred, returnError, DatabaseTypes
<1>6. DatabaseTypes'
  BY <1>1, <1>3, <1>4, <1>5, Zenon DEF DatabaseTypes, Positions
<1>7. CASE returnError
  BY <1>6, <1>7, TypeReturnError, Zenon
<1>8. CASE ~returnError
  <2>1. /\ drained' = drained + 1 /\ UNCHANGED server /\ UNCHANGED connection /\ UNCHANGED readerVars
        /\ UNCHANGED <<deferredUpdates, mode, restarting, caller, callerCookie, callerReply, used>>
    BY <1>8, Zenon DEF PopulateDeferred
  <2>2. DeferredTypes'
    BY <1>1, <2>1 DEF DeferredTypes, Positions
  <2> QED
    BY <1>6, <2>1, <2>2, Stable, Zenon
<1> QED
  BY <1>7, <1>8, Zenon

\* The rest of the caller.
LEMMA TypeCaller ==
  ASSUME TypeInv, CallFails \/ RestartFails \/ MonitorReturns \/ MonitorCancelled
  PROVE  TypeInv'
<1> USE DEF TypeInv, server, connection, database, callerVars, readerVars, bounds
<1>1. CASE CallFails \/ RestartFails
  <2>1. /\ returnError /\ UNCHANGED <<cache, synced, monitors, LastTransactionID, method, log>>
        /\ deferUpdates' \in BOOLEAN
    BY <1>1, Zenon DEF CallFails, RestartFails, returnError, DatabaseTypes
  <2>2. DatabaseTypes'
    BY <2>1, Zenon DEF DatabaseTypes, Positions
  <2> QED
    BY <2>1, <2>2, TypeReturnError, Zenon
<1>2. CASE MonitorReturns
  <2>1. CallerTypes' /\ DeferredTypes'
    BY <1>2, NoneOf DEF CallerTypes, DeferredTypes, MonitorReturns, forget
  <2> QED
    BY <1>2, <2>1, Stable, Zenon DEF MonitorReturns
<1>3. CASE MonitorCancelled
  <2>1. CallerTypes' /\ DeferredTypes' /\ DatabaseTypes'
    BY <1>3, Zenon DEF CallerTypes, DeferredTypes, DatabaseTypes, MonitorCancelled, forget, Positions
  <2> QED
    BY <1>3, <2>1, Stable, Zenon DEF MonitorCancelled
<1> QED
  BY <1>1, <1>2, <1>3, Zenon

\* What the reader takes from the connection.
LEMMA TypeMessage ==
  ASSUME TypeInv, wire # <<>>, wire' = Tail(wire), UNCHANGED <<log, subscribed, link, requests>>
  PROVE  ConnectionTypes' /\ Head(wire) \in Messages(Positions)
<1>1. wire \in Seq(Messages(Positions)) /\ link # None
  BY Zenon DEF TypeInv, ConnectionTypes
<1>2. Head(wire) \in Messages(Positions) /\ Tail(wire) \in Seq(Messages(Positions))
  BY <1>1, FirstOf, Zenon
<1> QED
  BY <1>1, <1>2, Zenon DEF TypeInv, ConnectionTypes, Positions

LEMMA TypeDeliverReply == ASSUME TypeInv, DeliverReply PROVE TypeInv'
<1> USE DEF TypeInv, server, connection, database, callerVars, readerVars, bounds
<1>1. /\ wire # <<>> /\ wire' = Tail(wire) /\ Head(wire).kind # "update"
      /\ UNCHANGED server /\ UNCHANGED <<link, requests>>
      /\ UNCHANGED database /\ UNCHANGED readerVars /\ UNCHANGED bounds
      /\ UNCHANGED <<mode, restarting, callerCookie, drained>>
      /\ \/ /\ caller \in {"calling", "cancelling"} /\ caller' = "replied"
            /\ callerReply' = Head(wire)
         \/ UNCHANGED <<caller, callerReply>>
  BY Zenon DEF DeliverReply
<1>2. ConnectionTypes' /\ Head(wire) \in Messages(Positions)
  BY <1>1, TypeMessage, Zenon
<1>3. Head(wire) \in Replies(Positions)
  BY <1>1, <1>2, MessageParts, Zenon
<1>4. CallerTypes' /\ DeferredTypes'
  BY <1>1, <1>3, Zenon DEF CallerTypes, DeferredTypes, Positions
<1> QED
  BY <1>1, <1>2, <1>4, Stable, Zenon

LEMMA TypeUpdate == ASSUME TypeInv, DeferUpdate \/ update3 \/ update2 PROVE TypeInv'
<1> USE DEF TypeInv, server, connection, database, callerVars, readerVars, bounds
<1> DEFINE msg == Head(wire)
<1>1. /\ wire # <<>> /\ wire' = Tail(wire) /\ msg.kind = "update"
      /\ UNCHANGED server /\ UNCHANGED <<link, requests>>
      /\ UNCHANGED <<monitors, method, LastTransactionID, deferUpdates>>
      /\ UNCHANGED callerVars /\ UNCHANGED <<oldError, errorHandler>> /\ UNCHANGED bounds
  BY DEF DeferUpdate, update3, update2, receive
<1>2. ConnectionTypes' /\ msg \in Messages(Positions)
  BY <1>1, TypeMessage, Zenon
<1>3. /\ msg \in Notifications(Positions) /\ msg.cookie \in Cookie
      /\ msg.last \in Positions /\ msg.updates \in RowUpdates
  BY <1>1, <1>2, MessageParts, Zenon
<1> HIDE DEF msg
<1>4. CASE DeferUpdate
  <2> DEFINE entry == [updates |-> msg.updates, at |-> msg.last,
                       last |-> IF method[msg.cookie] = Since THEN msg.last ELSE 0]
  <2>1. /\ deferredUpdates' = Append(deferredUpdates, entry)
        /\ UNCHANGED <<cache, synced, reader, readerUpdate>>
    BY <1>4, Zenon DEF DeferUpdate, msg
  <2>2. entry \in DeferredUpdates(Positions)
    BY <1>3, Zenon DEF DeferredUpdates
  <2> HIDE DEF entry
  <2>3. /\ deferredUpdates' \in Seq(DeferredUpdates(Positions)) /\ Len(deferredUpdates) \in Nat
        /\ Len(deferredUpdates') = Len(deferredUpdates) + 1
    BY <2>1, <2>2, AddedTo, Zenon DEF DeferredTypes
  <2>4. DeferredTypes'
    BY <1>1, <2>3 DEF DeferredTypes, Positions
  <2> QED
    BY <1>1, <1>2, <2>1, <2>4, Stable, Zenon
<1>5. CASE update3 \/ update2
  <2>1. /\ cache' \in Populated(cache, msg.updates) /\ synced' = msg.last
        /\ reader' \in {"idle", "update3", "error"}
        /\ reader' = "update3" => readerUpdate' = msg \/ (reader = "update3" /\ UNCHANGED readerUpdate)
        /\ UNCHANGED deferredUpdates
    BY <1>5, Zenon DEF update3, update2, msg, receive, ReaderTypes
  <2>2. cache' \in Rows
    BY <1>3, <2>1, PopulatedType, Zenon DEF DatabaseTypes
  <2>3. DatabaseTypes'
    BY <1>1, <1>3, <2>1, <2>2, Zenon DEF DatabaseTypes, Positions
  <2>4. ReaderTypes'
    BY <1>1, <1>3, <2>1, Zenon DEF ReaderTypes, Positions
  <2> QED
    BY <1>1, <1>2, <2>1, <2>3, <2>4, Stable, Zenon
<1> QED
  BY <1>4, <1>5, Zenon

LEMMA TypeUpdateLastTransactionID == ASSUME TypeInv, UpdateLastTransactionID PROVE TypeInv'
<1> USE DEF TypeInv, server, connection, database, callerVars, readerVars, bounds
<1>1. reader = "update3" /\ readerUpdate \in Notifications(Positions)
  BY Zenon DEF UpdateLastTransactionID, ReaderTypes
<1>2. readerUpdate.last \in Positions
  BY <1>1, Zenon DEF Notifications
<1>3. DatabaseTypes'
  BY <1>2, Zenon DEF DatabaseTypes, UpdateLastTransactionID, Positions
<1>4. ReaderTypes'
  BY Zenon DEF ReaderTypes, UpdateLastTransactionID
<1> QED
  BY <1>3, <1>4, Stable, Zenon DEF UpdateLastTransactionID

\* Errors and reconnections.
LEMMA TypeConnection == ASSUME TypeInv, ConnectionSteps PROVE TypeInv'
<1> USE DEF TypeInv, server, connection, database, callerVars, readerVars, bounds
<1>1. CASE TakeError
  <2>1. ReaderTypes'
    BY <1>1, Zenon DEF ReaderTypes, TakeError, Positions
  <2> QED
    BY <1>1, <2>1, Stable, Zenon DEF TakeError
<1>2. CASE ResetTransactionIDs
  <2>1. DatabaseTypes' /\ ReaderTypes'
    BY <1>2, Zenon DEF DatabaseTypes, ReaderTypes, ResetTransactionIDs, Positions
  <2> QED
    BY <1>2, <2>1, Stable, Zenon DEF ResetTransactionIDs
<1>3. CASE Disconnect
  <2>1. ConnectionTypes'
    BY <1>3, NoneOf, Zenon DEF ConnectionTypes, Disconnect, cut
  <2>2. ReaderTypes'
    BY <1>3, Zenon DEF ReaderTypes, Disconnect, Positions
  <2> QED
    BY <1>3, <2>1, <2>2, Stable, Zenon DEF Disconnect
<1>4. CASE HandleDisconnect
  <2>1. DatabaseTypes'
    BY <1>4, Zenon DEF DatabaseTypes, HandleDisconnect, Positions
  <2>2. DeferredTypes' /\ CallerTypes'
    BY <1>4, NoneOf DEF DeferredTypes, CallerTypes, HandleDisconnect
  <2> QED
    BY <1>4, <2>1, <2>2, Stable, Zenon DEF HandleDisconnect
<1>5. ASSUME NEW s \in Endpoint, Connect(s) PROVE TypeInv'
  <2>1. /\ link' = s /\ reader' = "idle" /\ oldError' \in BOOLEAN
        /\ mode' \in {"up", "restart"} /\ restarting' \in {restarting, monitors}
        /\ cache' \in {cache, noRows} /\ synced' \in {synced, 0}
        /\ UNCHANGED server /\ UNCHANGED bounds
        /\ UNCHANGED <<requests, wire, monitors, method, LastTransactionID, deferUpdates,
                       deferredUpdates, caller, callerCookie, callerReply, drained, errorHandler>>
    BY <1>5, Zenon DEF Connect
  <2>2. DatabaseTypes'
    <3>1. noRows \in Rows
      BY Zenon DEF noRows, Rows
    <3> QED
      BY <2>1, <3>1, Zenon DEF DatabaseTypes, Positions
  <2>3. ConnectionTypes'
    BY <1>5, <2>1, NoneAssumption, Zenon DEF ConnectionTypes, Positions
  <2>4. CallerTypes' /\ ReaderTypes'
    BY <2>1, Zenon DEF CallerTypes, ReaderTypes, DatabaseTypes, Positions
  <2> QED
    BY <2>1, <2>2, <2>3, <2>4, Stable, Zenon
<1> QED
  BY <1>1, <1>2, <1>3, <1>4, <1>5, Zenon DEF ConnectionSteps

LEMMA TypeStep == Sizes /\ TypeInv /\ [Next]_vars => TypeInv'
<1> SUFFICES ASSUME Sizes, TypeInv, [Next]_vars PROVE TypeInv'
  BY Zenon
<1>1. CASE Environment
  <2>1. ASSUME NEW m \in Cookie, Monitor(m) \/ MonitorCancel(m) PROVE TypeInv'
    BY <2>1, TypeCall, Zenon DEF Monitor, MonitorCancel
  <2> QED
    BY <1>1, <2>1, TypeCommit, TypeServer, Zenon DEF Environment
<1>2. CASE CallerSteps
  <2>1. ASSUME NEW m \in Cookie, RestartMonitor(m) PROVE TypeInv'
    BY <2>1, TypeCall, Zenon DEF RestartMonitor
  <2> QED
    BY <1>2, <2>1, TypeCaller, TypeFallback, TypePopulateReply, TypePopulateDeferred, Zenon DEF CallerSteps
<1>3. CASE ReaderSteps
  BY <1>3, TypeDeliverReply, TypeUpdate, TypeUpdateLastTransactionID, Zenon DEF ReaderSteps
<1>4. CASE UNCHANGED vars
  BY <1>4, Stable, Zenon DEF TypeInv, vars, server, connection, database, callerVars, readerVars, bounds
<1> QED
  BY <1>1, <1>2, <1>3, <1>4, TypeServeMonitor, TypeConnection, Zenon DEF Next

\* The types hold when the client has made its first connection.
LEMMA TypeInit == Init => TypeInv
<1> SUFFICES ASSUME Init PROVE TypeInv
  BY Zenon
<1>1. LogTypes
  <2>1. log \in [1..1 -> Rows]
    BY Zenon DEF Init
  <2>2. log \in Seq(Rows)
    BY <2>1
  <2>3. Len(log) = 1
    BY <2>1, <2>2, AllOf
  <2> QED
    BY <2>2, <2>3 DEF Init, LogTypes, Positions
<1>2. ConnectionTypes
  BY NoneOf, NoneAssumption, Zenon DEF Init, ConnectionTypes
<1>3. DatabaseTypes
  <2>1. noRows \in Rows
    BY Zenon DEF noRows, Rows
  <2> QED
    BY <2>1, Zenon DEF Init, DatabaseTypes
<1>4. DeferredTypes
  BY NoneOf DEF Init, DeferredTypes
<1>5. CallerTypes
  BY Zenon DEF Init, CallerTypes
<1>6. ReaderTypes
  BY Zenon DEF Init, ReaderTypes
<1> QED
  BY <1>1, <1>2, <1>3, <1>4, <1>5, <1>6, Zenon DEF TypeInv

\* The types that are proved include those that the runs check.
LEMMA TypeInvImplies == TypeInv => TypeOK
<1> SUFFICES ASSUME TypeInv PROVE TypeOK
  BY Zenon
<1> USE DEF TypeInv
<1>1. DOMAIN log = Positions /\ (\A n \in DOMAIN log : log[n] \in Rows) /\ Positions \cup {0} = 0..Len(log)
  BY DEF LogTypes, Positions
<1>2. \A n \in DOMAIN wire : [kind |-> wire[n].kind, cookie |-> wire[n].cookie] \in Message
  <2>1. \A n \in DOMAIN wire : wire[n] \in Messages(Positions)
    BY DEF ConnectionTypes
  <2> QED
    BY <2>1, MessageParts, Zenon DEF Message
<1> QED
  BY <1>1, <1>2, Zenon DEF TypeOK, LogTypes, ConnectionTypes, DatabaseTypes, DeferredTypes, CallerTypes,
                    ReaderTypes

=============================================================================

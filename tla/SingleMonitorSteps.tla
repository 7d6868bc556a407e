------------------------- MODULE SingleMonitorSteps -------------------------
(***************************************************************************)
(* A client with one monitor, of any set of rows, on a server that has one *)
(* endpoint and any of the monitor methods: the invariant by which the     *)
(* cache follows the server through fallbacks, deferred updates, lost      *)
(* connections, forgotten transactions and cancellation, and the proof     *)
(* that every step keeps it, for any rows and any number of transactions,  *)
(* losses and restarts that time out.                                      *)
(***************************************************************************)
EXTENDS MonitorSyncTypes

only == CHOOSE m \in Cookie : TRUE
home == CHOOSE s \in Endpoint : TRUE

\* One cookie and one endpoint, and Monitor() waits for its answer.  Each of the
\* three is needed: the other configurations of the model have counterexamples.
SingleMonitor == Cookie = {only} /\ Endpoint = {home} /\ ~Timeouts

-----------------------------------------------------------------------------
(* The inductive invariant.                                                *)

\* monitor() runs and its reply has not been applied.
Asking == caller = "calling" \/ (caller = "replied" /\ callerReply.kind # "cancelled")

\* It holds the reply with the rows.
Answered == caller = "replied" /\ callerReply.kind = "reply"

\* MonitorCancel() runs.
Cancelling == caller = "cancelling" \/ (caller = "replied" /\ callerReply.kind = "cancelled")

\* Where the client is.
Phases ==
  /\ reader # "error" /\ errorHandler = "idle" /\ ~oldError
  /\ mode = "down" => link = None /\ caller = "idle"
  /\ mode = "restart" => only \in monitors /\ ~Cancelling /\ (caller = "idle" <=> only \in restarting)
  /\ mode # "restart" => only \notin restarting
  /\ only \notin used => caller = "idle" /\ synced = 0 /\ LastTransactionID[only] = 0
                         /\ only \notin monitors /\ only \notin subscribed
  /\ Cancelling \/ caller = "draining" \/ reader = "update3" => only \in monitors
  /\ only \in monitors => synced # 0
  /\ reader = "update3" => /\ mode = "up" /\ caller \in {"idle", "cancelling"}
                           /\ readerUpdate.last = synced

\* A first call of monitor() starts from nothing, and updates are deferred from
\* the loss of a connection to the reply.
Deferring ==
  /\ mode = "up" /\ Asking =>
       only \notin monitors /\ synced = 0 /\ LastTransactionID[only] = 0 /\ reader = "idle"
  /\ mode = "down" \/ Asking \/ (mode = "restart" /\ caller = "idle") \/ only \notin used
       => deferUpdates
  /\ caller = "draining" \/ (mode = "up" /\ only \in monitors) => ~deferUpdates
  /\ deferredUpdates # <<>> => caller = "draining" \/ Answered

\* At most one call is outstanding; its reply is the first message of the
\* connection, or the last one if it ends the monitor.
Calls ==
  /\ requests # <<>> =>
       /\ Len(requests) = 1 /\ caller \in {"calling", "cancelling"}
       /\ \A n \in 1..Len(wire) : wire[n].kind = "update"
       /\ caller = "cancelling" => requests[1].method = "monitor_cancel"
       /\ caller = "calling" =>
            /\ requests[1].method = method[only]
            /\ requests[1].since = IF method[only] = Since /\ mode = "restart"
                                     THEN LastTransactionID[only] ELSE 0
            /\ wire = <<>> /\ only \notin subscribed
  /\ \A n \in 1..Len(wire) :
       /\ wire[n].kind = "reply" => n = 1 /\ caller = "calling" /\ only \in subscribed
       /\ wire[n].kind = "unknown_method" => n = Len(wire) /\ n = 1 /\ caller = "calling"
       /\ wire[n].kind = "cancelled" => n = Len(wire) /\ caller = "cancelling"
  /\ caller = "replied" /\ callerReply.kind # "reply" => wire = <<>> /\ only \notin subscribed
  /\ mode = "restart" /\ caller = "idle" => wire = <<>> /\ only \notin subscribed
  /\ caller = "calling" /\ wire # <<>> => wire[1].kind # "update"

\* The server has the monitor exactly while it should.
Subscription ==
  /\ only \in subscribed =>
       IF deferUpdates THEN Answered \/ (caller = "calling" /\ wire # <<>>) ELSE only \in monitors
  /\ wire # <<>> => (only \in subscribed <=> wire[Len(wire)].kind \in {"update", "reply"})
  /\ link # None /\ only \in monitors /\ only \notin subscribed =>
       Cancelling \/ (mode = "restart" /\ (caller = "idle" \/ Asking))
  /\ link # None /\ Answered => only \in subscribed

\* The method that the monitor has settled on, and its transaction ID: if the
\* server knows it, it is that of the state the cache holds.
Identification ==
  /\ method[only] # Since => LastTransactionID[only] = 0 /\ reader # "update3"
  /\ only \in monitors \/ only \in subscribed \/ Answered => method[only] \in supported
  /\ caller = "replied" /\ callerReply.kind = "unknown_method" => method[only] \notin supported
  /\ \A n \in 1..Len(wire) : wire[n].kind = "unknown_method" => method[only] \notin supported
  /\ only \in monitors /\ LastTransactionID[only] \in known[home] =>
       LastTransactionID[only] = synced \/ reader = "update3"

\* The same rows of the monitor in two states of a log.
SameRows(lg, i, j) == \A r \in Watched[only] : lg[i][r] = lg[j][r]

\* The updates of the monitor that a server sends with a method.
UpdatesBy(meth, from, to) ==
  [r \in {x \in Watched[only] : from[x] # to[x]} |-> RowUpdate(meth, from[r], to[r])]

\* An update is the next one after position p that changes rows of the monitor.
Follows(lg, meth, p, at, updates) ==
  /\ p \in 1..Len(lg) /\ at \in 1..Len(lg) /\ p < at
  /\ SameRows(lg, p, at - 1)
  /\ updates = UpdatesBy(meth, lg[at - 1], lg[at])

\* A reply leads from what the cache holds, or from nothing, to its position.
Answer(reply) ==
  /\ synced <= reply.last
  /\ reply.found => /\ mode = "restart" /\ LastTransactionID[only] = synced
                    /\ reply.updates = UpdatesBy(method[only], log[synced], log[reply.last])
  /\ ~reply.found => /\ LastTransactionID[only] \notin known[home]
                     /\ reply.updates = UpdatesBy(method[only], noRows, log[reply.last])

Answers ==
  /\ Answered => Answer(callerReply)
  /\ wire # <<>> /\ wire[1].kind = "reply" => Answer(wire[1])

\* The positions that the first deferred update, the first message of the
\* connection and the next notification continue.
front == IF Answered THEN callerReply.last ELSE synced
tip == IF deferredUpdates = <<>> THEN front ELSE deferredUpdates[Len(deferredUpdates)].at
end == IF wire = <<>> THEN tip ELSE wire[Len(wire)].last

\* The deferred updates that are left continue each other.
DeferredStream ==
  /\ drained > 0 => deferredUpdates[drained].at = synced
  /\ \A n \in 1..Len(deferredUpdates) : n > drained =>
       /\ Follows(log, method[only], IF n = drained + 1 THEN front ELSE deferredUpdates[n - 1].at,
                  deferredUpdates[n].at, deferredUpdates[n].updates)
       /\ deferredUpdates[n].last = IF method[only] = Since THEN deferredUpdates[n].at ELSE 0

\* So do the notifications of the connection, and nothing is missing at its end.
WireStream ==
  /\ \A n \in 1..Len(wire) : wire[n].kind = "update" =>
       Follows(log, method[only], IF n = 1 THEN tip ELSE wire[n - 1].last,
               wire[n].last, wire[n].updates)
  /\ only \in subscribed => SameRows(log, end, Len(log))

\* The rows of the monitor in the state of a position.
View(lg, n) == IF n = 0 THEN noRows
               ELSE [r \in Row |-> IF r \in Watched[only] THEN lg[n][r] ELSE NoRow]

\* The cache is the state of the position that was applied last.
CacheFollows == cache = View(log, synced)

SingleInv ==
  /\ Phases /\ Deferring /\ Calls /\ Subscription /\ Identification
  /\ Answers /\ DeferredStream /\ WireStream /\ CacheFollows

-----------------------------------------------------------------------------
(* Rows and updates.                                                       *)

\* What SingleMonitor makes of the types.
LEMMA Singles ==
  ASSUME SingleMonitor, TypeInv
  PROVE  /\ only \in Cookie /\ home \in Endpoint /\ home # None /\ only # None
         /\ monitors \subseteq {only} /\ subscribed \subseteq {only}
         /\ restarting \subseteq {only} /\ used \subseteq {only}
         /\ link \in {home, None} /\ (caller # "idle" => callerCookie = only)
         /\ Watched[only] \subseteq Row
BY NoneAssumption, WatchedAssumption, Zenon
   DEF SingleMonitor, TypeInv, ConnectionTypes, DatabaseTypes, CallerTypes

\* Rows that agree in what the monitor watches, and rows in which that is replaced.
Agree(a, b) == \A r \in Watched[only] : a[r] = b[r]
Overwritten(rows, to) == [r \in Row |-> IF r \in Watched[only] THEN to[r] ELSE rows[r]]

\* Populate2 accepts the updates, which take the rows to the new ones.
Takes(rows, updates, new) == ~PopulateFails(rows, updates) /\ Populated(rows, updates) = {new}

\* The updates between two states are never refused by rows that agree with the
\* first, and give the second: applied to the rows, whatever the method.
LEMMA UpdatesApply ==
  ASSUME only \in Cookie, NEW meth, NEW rows \in Rows, NEW from \in Rows, NEW to \in Rows,
         Agree(rows, from)
  PROVE  Takes(rows, UpdatesBy(meth, from, to), Overwritten(rows, to))
<1> DEFINE u == UpdatesBy(meth, from, to)
           S == {x \in Watched[only] : from[x] # to[x]}
<1>1. Watched[only] \subseteq Row /\ S \subseteq Watched[only]
  BY WatchedAssumption, Zenon
<1>2. DOMAIN u = S /\ \A r \in S : u[r] = RowUpdate(meth, from[r], to[r])
  BY Zenon DEF UpdatesBy
<1>3. \A r \in S : rows[r] = from[r] /\ from[r] # to[r]
  BY Zenon DEF Agree
<1>4. \A r \in Row \ S : r \in Watched[only] => rows[r] = to[r]
  BY Zenon DEF Agree
<1> HIDE DEF u, S
<1>5. ASSUME NEW r \in S PROVE Applicable(rows, u, r) /\ Applied(rows, u, r) = to[r]
  <2>1. r \in Row /\ from[r] \in Content \cup {NoRow} /\ to[r] \in Content \cup {NoRow}
    BY <1>1, Zenon DEF Rows
  <2>2. u[r] = RowUpdate(meth, from[r], to[r]) /\ rows[r] = from[r] /\ from[r] # to[r]
    BY <1>2, <1>3, Zenon
  <2>3. CASE from[r] = NoRow
    BY <2>2, <2>3 DEF RowUpdate, Applicable, Applied
  <2>4. CASE from[r] # NoRow /\ to[r] = NoRow
    BY <2>2, <2>4 DEF RowUpdate, Applicable, Applied
  <2>5. CASE from[r] # NoRow /\ to[r] # NoRow /\ meth = Plain
    BY <2>2, <2>5 DEF RowUpdate, Applicable, Applied
  <2>6. CASE from[r] # NoRow /\ to[r] # NoRow /\ meth # Plain
    <3>1. u[r] = [op |-> "modify", data |-> SymmetricDifference(from[r], to[r])]
      BY <2>2, <2>6, Zenon DEF RowUpdate
    <3>2. SymmetricDifference(from[r], SymmetricDifference(from[r], to[r])) = to[r]
      BY <2>1, <2>6, Zenon DEF SymmetricDifference, Content
    <3> QED
      BY <2>2, <2>6, <3>1, <3>2 DEF Applicable, Applied
  <2> QED
    BY <2>3, <2>4, <2>5, <2>6, Zenon
<1>6. ~PopulateFails(rows, u)
  BY <1>2, <1>5, Zenon DEF PopulateFails
<1>7. Populated(rows, u) = {AppliedTo(rows, u, S)}
  BY <1>2, <1>6, Zenon DEF Populated
<1>8. AppliedTo(rows, u, S) = Overwritten(rows, to)
  BY <1>1, <1>4, <1>5, Zenon DEF AppliedTo, Overwritten
<1> QED
  BY <1>6, <1>7, <1>8, Zenon DEF u, Takes

\* The next update takes the view of the cache to its position.
LEMMA FollowingApplies ==
  ASSUME only \in Cookie, NEW lg \in Seq(Rows), NEW meth, NEW p, NEW at, NEW updates,
         Follows(lg, meth, p, at, updates)
  PROVE  Takes(View(lg, p), updates, View(lg, at))
<1>1. p \in 1..Len(lg) /\ at \in 1..Len(lg) /\ at - 1 \in 1..Len(lg) /\ p # 0 /\ at # 0
  BY DEF Follows
<1>2. lg[p] \in Rows /\ lg[at - 1] \in Rows /\ lg[at] \in Rows
  BY <1>1
<1>3. View(lg, p) \in Rows
  BY <1>1, <1>2, Zenon DEF View, Rows
<1>4. Watched[only] \subseteq Row
  BY WatchedAssumption, Zenon
<1>5. Agree(View(lg, p), lg[at - 1])
  BY <1>1, <1>4, Zenon DEF View, Follows, SameRows, Agree
<1>6. updates = UpdatesBy(meth, lg[at - 1], lg[at])
  BY Zenon DEF Follows
<1>7. Overwritten(View(lg, p), lg[at]) = View(lg, at)
  BY <1>1, Zenon DEF View, Overwritten
<1>8. Takes(View(lg, p), UpdatesBy(meth, lg[at - 1], lg[at]), Overwritten(View(lg, p), lg[at]))
  BY <1>2, <1>3, <1>5, UpdatesApply, Zenon
<1> QED
  BY <1>6, <1>7, <1>8, Zenon

\* Updates from a state take its view to that of the second.
LEMMA FoundApplies ==
  ASSUME only \in Cookie, NEW lg \in Seq(Rows), NEW meth, NEW p \in 1..Len(lg), NEW at \in 1..Len(lg)
  PROVE  Takes(View(lg, p), UpdatesBy(meth, lg[p], lg[at]), View(lg, at))
<1>1. lg[p] \in Rows /\ lg[at] \in Rows /\ at # 0 /\ p # 0
  OBVIOUS
<1>2. View(lg, p) \in Rows
  BY <1>1, Zenon DEF View, Rows
<1>3. Watched[only] \subseteq Row
  BY WatchedAssumption, Zenon
<1>4. Agree(View(lg, p), lg[p])
  BY <1>1, <1>3, Zenon DEF View, Agree
<1>5. Overwritten(View(lg, p), lg[at]) = View(lg, at)
  BY <1>1, Zenon DEF View, Overwritten
<1> QED
  BY <1>1, <1>2, <1>4, <1>5, UpdatesApply, Zenon

\* So do updates from nothing.
LEMMA AllApplies ==
  ASSUME only \in Cookie, NEW lg \in Seq(Rows), NEW meth, NEW at \in 1..Len(lg)
  PROVE  Takes(noRows, UpdatesBy(meth, noRows, lg[at]), View(lg, at))
<1>1. noRows \in Rows /\ lg[at] \in Rows /\ at # 0
  BY DEF noRows, Rows
<1>2. Agree(noRows, noRows)
  BY Zenon DEF Agree
<1>3. Overwritten(noRows, lg[at]) = View(lg, at)
  BY <1>1, Zenon DEF noRows, View, Overwritten
<1> QED
  BY <1>1, <1>2, <1>3, UpdatesApply, Zenon

\* A log that grows keeps what was said of its positions.
LEMMA LogGrows ==
  ASSUME NEW lg \in Seq(Rows), NEW rows \in Rows
  PROVE  LET new == Append(lg, rows)
         IN  /\ Len(new) = Len(lg) + 1 /\ new[Len(new)] = rows
             /\ \A i \in 1..Len(lg) : new[i] = lg[i]
             /\ \A i, j \in 1..Len(lg) : SameRows(lg, i, j) => SameRows(new, i, j)
             /\ \A n \in 0..Len(lg) : View(new, n) = View(lg, n)
             /\ \A meth, p, at, updates :
                  Follows(lg, meth, p, at, updates) => Follows(new, meth, p, at, updates)
<1> DEFINE new == Append(lg, rows)
<1>1. Len(lg) \in Nat /\ Len(new) = Len(lg) + 1 /\ new[Len(new)] = rows /\ \A i \in 1..Len(lg) : new[i] = lg[i]
  BY AddedTo
<1> HIDE DEF new
<1>2. \A i, j \in 1..Len(lg) : SameRows(lg, i, j) => SameRows(new, i, j)
  BY <1>1, Zenon DEF SameRows
<1>3. \A n \in 0..Len(lg) : View(new, n) = View(lg, n)
  BY <1>1 DEF View
<1>4. ASSUME NEW meth, NEW p, NEW at, NEW updates, Follows(lg, meth, p, at, updates)
      PROVE  Follows(new, meth, p, at, updates)
  <2>1. p \in 1..Len(lg) /\ at \in 1..Len(lg) /\ at - 1 \in 1..Len(lg) /\ p < at
    BY <1>1, <1>4 DEF Follows
  <2>2. SameRows(new, p, at - 1) /\ new[at - 1] = lg[at - 1] /\ new[at] = lg[at]
    BY <1>1, <1>2, <1>4, <2>1, Zenon DEF Follows
  <2>3. p \in 1..Len(new) /\ at \in 1..Len(new)
    BY <1>1, <2>1
  <2> QED
    BY <1>4, <2>1, <2>2, <2>3, Zenon DEF Follows
<1> QED
  BY <1>1, <1>2, <1>3, <1>4, Zenon DEF new

-----------------------------------------------------------------------------
(* Every step keeps the invariant.                                         *)

\* A step that leaves the variables of a part of the invariant alone keeps it;
\* of the caller the streams depend on the reply that it holds.
LEMMA Kept ==
  /\ Phases /\ UNCHANGED <<reader, errorHandler, oldError, mode, link, caller,
                 callerReply, monitors, restarting, used, synced, LastTransactionID,
                 subscribed, readerUpdate>> => Phases'
  /\ Deferring /\ UNCHANGED <<mode, caller, callerReply, monitors, synced,
                    LastTransactionID, reader, used, deferUpdates, deferredUpdates>> => Deferring'
  /\ Calls /\ UNCHANGED <<requests, caller, wire, method, mode, LastTransactionID,
                subscribed, callerReply>> => Calls'
  /\ Subscription /\ UNCHANGED <<subscribed, deferUpdates, caller, callerReply, wire, link,
                       monitors, mode>> => Subscription'
  /\ Identification /\ UNCHANGED <<method, LastTransactionID, monitors, subscribed, caller,
                         callerReply, supported, wire, known, synced, reader>> => Identification'
  /\ Answers /\ UNCHANGED <<caller, callerReply, wire, synced, mode, LastTransactionID,
                  method, log, known>> => Answers'
  /\ CacheFollows /\ UNCHANGED <<cache, synced, log>> => CacheFollows'
  /\ DeferredStream /\ UNCHANGED <<drained, deferredUpdates, synced, method, log>> /\ front' = front
       => DeferredStream'
  /\ WireStream /\ UNCHANGED <<wire, log, method, subscribed>> /\ tip' = tip
       => WireStream'
<1>1. Phases /\ UNCHANGED <<reader, errorHandler, oldError, mode, link, caller,
               callerReply, monitors, restarting, used, synced, LastTransactionID,
               subscribed, readerUpdate>> => Phases'
  BY DEF Phases, Asking, Answered, Cancelling
<1>2. Deferring /\ UNCHANGED <<mode, caller, callerReply, monitors, synced,
                  LastTransactionID, reader, used, deferUpdates, deferredUpdates>> => Deferring'
  BY DEF Deferring, Asking, Answered, Cancelling
<1>3. Calls /\ UNCHANGED <<requests, caller, wire, method, mode, LastTransactionID,
              subscribed, callerReply>> => Calls'
  BY Zenon DEF Calls
<1>4. Subscription /\ UNCHANGED <<subscribed, deferUpdates, caller, callerReply, wire, link,
                     monitors, mode>> => Subscription'
  BY DEF Subscription, Asking, Answered, Cancelling
<1>5. Identification /\ UNCHANGED <<method, LastTransactionID, monitors, subscribed, caller,
                       callerReply, supported, wire, known, synced, reader>> => Identification'
  BY Zenon DEF Identification, Asking, Answered, Cancelling
<1>6. Answers /\ UNCHANGED <<caller, callerReply, wire, synced, mode, LastTransactionID,
                method, log, known>> => Answers'
  BY Zenon DEF Answers, Answered, Answer
<1>7. CacheFollows /\ UNCHANGED <<cache, synced, log>> => CacheFollows'
  BY Zenon DEF CacheFollows
<1>8. DeferredStream /\ UNCHANGED <<drained, deferredUpdates, synced, method, log>> /\ front' = front
       => DeferredStream'
  BY Zenon DEF DeferredStream
<1>9. WireStream /\ UNCHANGED <<wire, log, method, subscribed>> /\ tip' = tip
       => WireStream'
  BY Zenon DEF WireStream, end
<1> QED
  BY <1>1, <1>2, <1>3, <1>4, <1>5, <1>6, <1>7, <1>8, <1>9, Zenon

\* The connection is closed: nothing is on its way.
LEMMA CutOff == cut => Calls' /\ Subscription' /\ WireStream'
BY NoneOf DEF cut, Calls, Subscription, WireStream

\* The messages of the connection, by their parts.
LEMMA OnTheWire ==
  ASSUME SingleMonitor, TypeInv
  PROVE  /\ wire \in Seq(Messages(Positions)) /\ Len(wire) \in Nat /\ (wire # <<>> => Len(wire) > 0)
         /\ \A n \in 1..Len(wire) :
              /\ wire[n].kind \in {"update", "reply", "unknown_method", "cancelled"}
              /\ wire[n].kind \in {"update", "reply"} =>
                   wire[n].last \in Positions /\ wire[n].updates \in RowUpdates
              /\ wire[n].cookie = only
<1>1. wire \in Seq(Messages(Positions))
  BY Zenon DEF TypeInv, ConnectionTypes
<1>2. \A n \in 1..Len(wire) : wire[n] \in Messages(Positions)
  BY <1>1
<1>3. Len(wire) \in Nat /\ (wire # <<>> => Len(wire) > 0)
  BY <1>1, NoneOf, AllOf
<1> QED
  BY <1>1, <1>2, <1>3, MessageParts, Zenon DEF SingleMonitor

\* A first message, and none.
LEMMA FirstOnTheWire == ASSUME SingleMonitor, TypeInv, wire # <<>> PROVE 1 \in 1..Len(wire)
BY OnTheWire

LEMMA Nothing == 1..0 = {} /\ ~(0 > 0)
OBVIOUS

\* The end of the stream is a position once the server has the monitor.
LEMMA EndPosition ==
  ASSUME SingleMonitor, TypeInv, Phases, Subscription, only \in subscribed
  PROVE  end \in Positions
<1>1. CASE wire # <<>>
  BY <1>1, OnTheWire DEF end, Subscription
<1>2. CASE wire = <<>> /\ deferredUpdates # <<>>
  <2>1. deferredUpdates \in Seq(DeferredUpdates(Positions))
    BY Zenon DEF TypeInv, DeferredTypes
  <2>2. deferredUpdates[Len(deferredUpdates)] \in DeferredUpdates(Positions)
    BY <1>2, <2>1, NoneOf, AllOf
  <2> QED
    BY <1>2, <2>2, Zenon DEF end, tip, DeferredUpdates
<1>3. CASE wire = <<>> /\ deferredUpdates = <<>> /\ Answered
  <2>1. callerReply \in Messages(Positions) /\ callerReply.kind = "reply"
    BY <1>3, Zenon DEF Answered, TypeInv, CallerTypes, Messages
  <2> QED
    BY <1>3, <2>1, MessageParts, Zenon DEF end, tip, front
<1>4. CASE wire = <<>> /\ deferredUpdates = <<>> /\ ~Answered
  BY <1>4, Zenon DEF end, tip, front, Subscription, Phases, TypeInv, DatabaseTypes
<1> QED
  BY <1>1, <1>2, <1>3, <1>4, Zenon

\* The server forgets transactions: no ID becomes known.
LEMMA SingleForget ==
  ASSUME SingleMonitor, TypeInv, SingleInv, NEW s \in Endpoint, Forget(s)
  PROVE  SingleInv'
<1>1. s = home /\ home \in Endpoint /\ known \in [Endpoint -> SUBSET Positions]
  BY Zenon DEF SingleMonitor, TypeInv, LogTypes
<1>2. known'[home] = {}
  BY <1>1, Zenon DEF Forget
<1>3. Identification' /\ Answers'
  BY <1>2, Zenon DEF SingleInv, Identification, Answers, Answer, Answered, Forget, server, connection, database,
              callerVars, readerVars
<1> QED
  BY <1>3, Kept, Zenon DEF SingleInv, tip, front, Answered, Forget, connection, database, callerVars, readerVars, bounds

\* The connection is lost with what is on it.
LEMMA SingleLinkLost ==
  ASSUME SingleMonitor, TypeInv, SingleInv, LinkLost
  PROVE  SingleInv'
<1> USE DEF LinkLost, connection, database, callerVars, readerVars
<1>1. Calls' /\ Subscription' /\ WireStream'
  BY CutOff, Zenon
<1>2. Phases' /\ Identification' /\ Answers'
  BY NoneOf DEF SingleInv, cut, Phases, Identification, Answers, Answer, Asking, Answered, Cancelling
<1> QED
  BY <1>1, <1>2, Kept, Zenon DEF SingleInv, tip, front, Answered

\* A transaction is committed and, if it changes rows of the monitor, notified.
LEMMA SingleCommit ==
  ASSUME Sizes, SingleMonitor, TypeInv, SingleInv, NEW rows \in Rows, Commit(rows)
  PROVE  SingleInv'
<1> DEFINE updates == UpdatesBy(method[only], latest, rows)
           msg == [kind |-> "update", cookie |-> only, last |-> Len(log) + 1, updates |-> updates]
           quiet == wire' = wire /\ (only \in subscribed => SameRows(log', Len(log), Len(log) + 1))
           told == only \in subscribed /\ wire' = Append(wire, msg)
<1>1. /\ log \in Seq(Rows) /\ Len(log) \in Nat \ {0} /\ wire \in Seq(Messages(Positions)) /\ Len(wire) \in Nat
      /\ log' = Append(log, rows) /\ latest = log[Len(log)]
      /\ known' = [s \in Endpoint |-> known[s] \cup {Len(log) + 1}]
      /\ UNCHANGED <<supported, subscribed, link, requests, database, callerVars, readerVars, bounds>>
  BY DEF TypeInv, LogTypes, ConnectionTypes, Commit, latest
<1>2. /\ Len(log') = Len(log) + 1 /\ log'[Len(log) + 1] = rows
      /\ \A i \in 1..Len(log) : log'[i] = log[i]
      /\ \A i, j \in 1..Len(log) : SameRows(log, i, j) => SameRows(log', i, j)
      /\ \A n \in 0..Len(log) : View(log', n) = View(log, n)
      /\ \A meth, p, at, u : Follows(log, meth, p, at, u) => Follows(log', meth, p, at, u)
  BY <1>1, LogGrows
<1>3. quiet \/ told
  <2> DEFINE notified == {m \in subscribed : DOMAIN Updates(m, latest, rows) # {}}
             message(m) == [kind |-> "update", cookie |-> m, last |-> Len(log) + 1,
                            updates |-> Updates(m, latest, rows)]
  <2>1. PICK order \in Bijection(1..Cardinality(notified), notified) :
          wire' = wire \o [n \in DOMAIN order |-> message(order[n])]
    BY Zenon DEF Commit
  <2>2. Updates(only, latest, rows) = updates /\ message(only) = msg
    BY Zenon DEF Updates, UpdatesBy
  <2>3. CASE only \in subscribed /\ DOMAIN updates # {}
    <3>1. notified = {only}
      BY <2>2, <2>3, Singles, Zenon
    <3>2. Cardinality(notified) = 1
      BY <3>1, Singles, Zenon DEF Sizes
    <3> HIDE DEF notified
    <3>3. order \in [1..1 -> {only}]
      BY <3>1, <3>2, Zenon DEF Bijection, Injection
    <3>4. [n \in DOMAIN order |-> message(order[n])] = <<msg>>
      BY <2>2, <3>3
    <3> HIDE DEF message, msg
    <3>5. wire' = Append(wire, msg)
      BY <1>1, <2>1, <3>4
    <3> QED
      BY <2>3, <3>5, Zenon
  <2>4. CASE ~(only \in subscribed /\ DOMAIN updates # {})
    <3>1. notified = {}
      BY <2>2, <2>4, Singles, Zenon
    <3>2. Cardinality(notified) = 0
      BY <3>1, Zenon DEF Sizes
    <3> HIDE DEF notified
    <3>3. DOMAIN order = {}
      BY <3>1, <3>2, Zenon DEF Bijection, Injection
    <3>4. [n \in DOMAIN order |-> message(order[n])] = <<>>
      BY <3>3
    <3> HIDE DEF message
    <3>5. wire' = wire
      BY <1>1, <2>1, <3>4
    <3>6. ASSUME only \in subscribed PROVE SameRows(log', Len(log), Len(log) + 1)
      BY <1>1, <1>2, <2>4, <3>6 DEF SameRows, UpdatesBy
    <3> QED
      BY <3>5, <3>6, Zenon
  <2> QED
    BY <2>3, <2>4, Zenon
<1>4. only \in subscribed => end \in Positions
  BY EndPosition, Zenon DEF SingleInv
<1> HIDE DEF updates, msg
<1>5. Phases' /\ Deferring'
  BY <1>1, Kept, Zenon DEF SingleInv, database, callerVars, readerVars, bounds
<1>6. CacheFollows'
  <2>1. synced \in 0..Len(log)
    BY DEF TypeInv, DatabaseTypes, Positions, LogTypes
  <2> QED
    BY <1>1, <1>2, <2>1, Zenon DEF SingleInv, CacheFollows, database
<1>7. DeferredStream'
  BY <1>1, <1>2, Zenon DEF SingleInv, DeferredStream, front, Answered, database, callerVars
<1>8. home \in Endpoint /\ known'[home] = known[home] \cup {Len(log) + 1}
      /\ LastTransactionID[only] \in 0..Len(log) /\ synced \in 0..Len(log)
  BY <1>1, Singles DEF TypeInv, DatabaseTypes, LogTypes, Positions
<1>9. \A n \in 1..Len(wire) : wire'[n] = wire[n]
  BY <1>1, <1>3, AddedTo DEF msg
<1>10. told => Len(wire') = Len(wire) + 1 /\ wire'[Len(wire')] = msg /\ wire' # <<>>
  BY <1>1, AddedTo
<1>11. Identification'
  <2>1. UNCHANGED <<method, LastTransactionID, monitors, subscribed, supported, synced, reader>>
        /\ Answered' = Answered /\ caller' = caller /\ callerReply' = callerReply
    BY <1>1, Zenon DEF database, callerVars, readerVars, Answered
  <2>2. LastTransactionID[only] \in known'[home] => LastTransactionID[only] \in known[home]
    BY <1>1, <1>8
  <2>3. \A n \in 1..Len(wire') : wire'[n].kind = "unknown_method" => method[only] \notin supported
    <3>1. CASE quiet
      BY <3>1, Zenon DEF SingleInv, Identification
    <3>2. CASE told
      BY <3>2, <1>1, <1>9, <1>10 DEF SingleInv, Identification, msg
    <3> QED
      BY <1>3, <3>1, <3>2, Zenon
  <2> QED
    BY <2>1, <2>2, <2>3, Zenon DEF SingleInv, Identification
<1>12. Answers'
  <2>1. ASSUME NEW r, Answer(r), r.last \in 1..Len(log) PROVE Answer(r)'
    <3>1. log'[r.last] = log[r.last]
      BY <1>2, <2>1, Zenon
    <3>2. mode = "restart" => log'[synced] = log[synced]
      BY <1>2, <1>8 DEF SingleInv, Phases
    <3>3. LastTransactionID[only] # Len(log) + 1
      BY <1>1, <1>8
    <3> QED
      BY <1>1, <1>8, <2>1, <3>1, <3>2, <3>3, Zenon DEF Answer, database, callerVars
  <2>2. ASSUME Answered' PROVE Answer(callerReply)'
    <3>1. Answered /\ callerReply' = callerReply
      BY <1>1, <2>2, Zenon DEF callerVars, Answered
    <3>2. callerReply.last \in 1..Len(log)
      BY <3>1, MessageParts, Zenon DEF Answered, TypeInv, CallerTypes, Messages, Positions
    <3>3. PICK r : r = callerReply
      BY Zenon
    <3>4. Answer(r)'
      BY <2>1, <3>1, <3>2, <3>3, Zenon DEF SingleInv, Answers
    <3> QED
      BY <3>1, <3>3, <3>4, Zenon DEF Answer
  <2>3. ASSUME wire' # <<>>, wire'[1].kind = "reply"
        PROVE  wire # <<>> /\ wire'[1] = wire[1]
    <3>1. CASE quiet
      BY <3>1, <2>3, Zenon
    <3>2. CASE told /\ wire = <<>>
      BY <3>2, <2>3, <1>10, NoneOf DEF msg
    <3>3. CASE told /\ wire # <<>>
      BY <3>3, <1>9, OnTheWire
    <3> QED
      BY <1>3, <3>1, <3>2, <3>3, Zenon
  <2>4. ASSUME wire # <<>>, wire[1].kind = "reply"
        PROVE  Answer(wire[1]) /\ wire[1].last \in 1..Len(log)
    BY <2>4, OnTheWire DEF SingleInv, Answers, Positions
  <2>5. ASSUME wire' # <<>>, wire'[1].kind = "reply" PROVE Answer(wire[1])'
    <3>1. PICK r : r = wire[1]
      BY Zenon
    <3>2. Answer(r)' /\ wire'[1] = r
      BY <2>1, <2>3, <2>4, <2>5, <3>1, Zenon
    <3> QED
      BY <3>2, Zenon DEF Answer
  <2> QED
    BY <2>2, <2>5, Zenon DEF Answers
<1>13. WireStream'
  <2>1. method' = method /\ subscribed' = subscribed /\ tip' = tip
    BY <1>1, Zenon DEF database, callerVars, tip, front, Answered
  <2>2. only \in subscribed => SameRows(log', end, Len(log))
    BY <1>1, <1>2, <1>4 DEF SingleInv, WireStream, Positions
  <2>3. \A n \in 1..Len(wire) : wire[n].kind = "update" =>
          Follows(log', method[only], IF n = 1 THEN tip ELSE wire[n - 1].last,
                  wire[n].last, wire[n].updates)
    BY <1>2, Zenon DEF SingleInv, WireStream
  <2>4. CASE quiet
    <3>1. end' = end
      BY <2>1, <2>4, Zenon DEF end
    <3>2. only \in subscribed => SameRows(log', end, Len(log'))
      BY <1>2, <2>2, <2>4, Zenon DEF SameRows
    <3> QED
      BY <2>1, <2>3, <2>4, <3>1, <3>2, Zenon DEF WireStream
  <2>5. CASE told
    <3>1. Len(log) + 1 = end' /\ end' = Len(log')
      BY <1>2, <1>10, <2>5, SMTT(30) DEF end, msg
    <3>2. Follows(log', method[only], end, Len(log) + 1, updates)
      <4>1. updates = UpdatesBy(method[only], log'[Len(log)], log'[Len(log) + 1])
        BY <1>1, <1>2 DEF updates
      <4> QED
        BY <1>1, <1>2, <1>4, <2>2, <2>5, <4>1 DEF Follows, Positions
    <3>3. wire'[Len(wire) + 1].last = Len(log) + 1 /\ wire'[Len(wire) + 1].updates = updates
      BY <1>10, <2>5 DEF msg
    <3>4. end = IF Len(wire) + 1 = 1 THEN tip ELSE wire'[Len(wire)].last
      BY <1>1, <1>9, OnTheWire, NoneOf DEF end
    <3>5. ASSUME NEW n \in 1..Len(wire'), wire'[n].kind = "update"
          PROVE  Follows(log', method[only], IF n = 1 THEN tip ELSE wire'[n - 1].last,
                         wire'[n].last, wire'[n].updates)
      <4>1. CASE n = Len(wire) + 1
        BY <1>1, <3>2, <3>3, <3>4, <4>1
      <4>2. CASE n # Len(wire) + 1
        <5>1. n \in 1..Len(wire) /\ (n # 1 => n - 1 \in 1..Len(wire))
          BY <1>1, <1>10, <2>5, <4>2
        <5> QED
          BY <1>9, <2>3, <3>5, <5>1, Zenon
      <4> QED
        BY <4>1, <4>2, Zenon
    <3>6. SameRows(log', end', Len(log'))
      BY <3>1, Zenon DEF SameRows
    <3> QED
      BY <2>1, <3>5, <3>6, Zenon DEF WireStream
  <2> QED
    BY <1>3, <2>4, <2>5, Zenon
<1>14. CASE quiet
  <2>1. Calls' /\ Subscription'
    BY <1>1, <1>14, Kept, Zenon DEF SingleInv, database, callerVars
  <2> QED
    BY <2>1, <1>5, <1>6, <1>7, <1>11, <1>12, <1>13, Zenon DEF SingleInv
<1>15. CASE told
  <2>1. UNCHANGED <<requests, caller, method, mode, LastTransactionID, subscribed, callerReply,
                    deferUpdates, link, monitors>>
    BY <1>1, Zenon DEF database, callerVars
  <2>2. msg.kind = "update"
    BY Zenon DEF msg
  <2>3. /\ caller = "calling" => wire # <<>>
        /\ wire # <<>> => wire[Len(wire)].kind \in {"update", "reply"}
    BY <1>15, Zenon DEF SingleInv, Subscription, Calls, Deferring, Asking, Answered
  <2>4. \A n \in 1..Len(wire') : wire'[n].kind # "update" =>
          n \in 1..Len(wire) /\ wire'[n] = wire[n] /\ wire[n].kind # "update"
    BY <1>1, <1>9, <1>10, <1>15, <2>2
  <2>5. wire # <<>> => wire'[1] = wire[1]
    BY <1>9, OnTheWire
  <2>6. Calls'
    <3>1. requests = <<>> \/ \A n \in 1..Len(wire') : wire'[n].kind = "update"
      BY <2>4, Zenon DEF SingleInv, Calls
    <3>2. \A n \in 1..Len(wire') :
            /\ wire'[n].kind = "reply" => n = 1 /\ caller = "calling" /\ only \in subscribed
            /\ wire'[n].kind \notin {"unknown_method", "cancelled"}
      BY <2>3, <2>4 DEF SingleInv, Calls
    <3>3. caller = "calling" => wire'[1].kind # "update" /\ requests = <<>>
      BY <1>15, <2>3, <2>5, Zenon DEF SingleInv, Calls
    <3>4. requests # <<>> => Len(requests) = 1 /\ caller = "cancelling"
                             /\ requests[1].method = "monitor_cancel"
      BY <3>3, Zenon DEF SingleInv, Calls
    <3>5. ~(caller = "replied" /\ callerReply.kind # "reply") /\ ~(mode = "restart" /\ caller = "idle")
      BY <1>15, Zenon DEF SingleInv, Calls
    <3> QED
      BY <2>1, <3>1, <3>2, <3>3, <3>4, <3>5, Zenon DEF Calls
  <2>7. Subscription'
    BY <1>10, <1>15, <2>1, <2>2, Zenon DEF SingleInv, Subscription, Asking, Answered, Cancelling
  <2> QED
    BY <2>6, <2>7, <1>5, <1>6, <1>7, <1>11, <1>12, <1>13, Zenon DEF SingleInv
<1> QED
  BY <1>3, <1>14, <1>15, Zenon

\* A message that goes on the connection behind the others.
LEMMA Posted ==
  ASSUME SingleMonitor, TypeInv, NEW msg, wire' = Append(wire, msg)
  PROVE  /\ Len(wire') = Len(wire) + 1 /\ wire' # <<>> /\ wire'[Len(wire')] = msg
         /\ wire'[Len(wire) + 1] = msg
         /\ \A n \in 1..Len(wire) : wire'[n] = wire[n]
         /\ wire = <<>> => Len(wire') = 1 /\ wire'[1] = msg
<1> DEFINE S == Messages(Positions) \cup {msg}
<1>1. wire \in Seq(S)
  BY OnTheWire
<1>2. Len(<<>>) = 0
  BY NoneOf, Zenon
<1> HIDE DEF S
<1>3. msg \in S
  BY Zenon DEF S
<1> QED
  BY <1>1, <1>2, <1>3, AddedTo

\* The server ends the monitor, refuses the method, or sends what the client lacks.
LEMMA SingleServeMonitor ==
  ASSUME SingleMonitor, TypeInv, SingleInv, ServeMonitor
  PROVE  SingleInv'
<1> DEFINE asked == requests[1]
<1>1. /\ Len(requests) = 1 /\ caller \in {"calling", "cancelling"} /\ link = home
      /\ \A n \in 1..Len(wire) : wire[n].kind = "update"
      /\ caller = "cancelling" => asked.method = "monitor_cancel"
      /\ caller = "calling" =>
            /\ asked.method = method[only]
            /\ asked.since = IF method[only] = Since /\ mode = "restart"
                              THEN LastTransactionID[only] ELSE 0
            /\ wire = <<>> /\ only \notin subscribed
  BY Singles, Zenon DEF SingleInv, Calls, ServeMonitor, TypeInv, ConnectionTypes
<1>2. requests # <<>> /\ requests \in Seq(Requests)
  BY Zenon DEF ServeMonitor, TypeInv, ConnectionTypes
<1>3. Head(requests) = asked /\ asked \in Requests /\ Len(requests') = 0 /\ requests' \in Seq(Requests)
  BY <1>1, <1>2, FirstOf DEF ServeMonitor
<1>4. requests' = <<>> /\ asked.cookie = only
  BY <1>3, NoneOf, Zenon DEF Requests, SingleMonitor
<1>5. UNCHANGED <<log, known, supported, link, database, callerVars, readerVars, bounds>>
  BY Zenon DEF ServeMonitor
<1>6. method[only] \in {Since, Cond, Plain} /\ supported \subseteq {Since, Cond, Plain}
  BY Singles, MethodAssumption, Zenon DEF TypeInv, DatabaseTypes, LogTypes
<1> DEFINE found == asked.method = Since /\ asked.since \in known[home]
           base == IF found THEN log[asked.since] ELSE noRows
           reply == [kind |-> "reply", cookie |-> only, found |-> found,
                     last |-> Len(log), updates |-> Updates(only, base, latest)]
           ended == /\ asked.method = "monitor_cancel" /\ subscribed' = subscribed \ {only}
                    /\ wire' = Append(wire, [kind |-> "cancelled", cookie |-> only])
           refused == /\ asked.method \in {Since, Cond, Plain} \ supported /\ subscribed' = subscribed
                      /\ wire' = Append(wire, [kind |-> "unknown_method", cookie |-> only])
           served == /\ asked.method \in supported /\ subscribed' = subscribed \cup {only}
                     /\ wire' = Append(wire, reply)
<1>7. ended \/ refused \/ served
  BY <1>1, <1>3, <1>4, Zenon DEF ServeMonitor
<1>8. Deferring' /\ DeferredStream' /\ CacheFollows' /\ front' = front /\ tip' = tip
  BY <1>5, Kept, Zenon DEF SingleInv, database, callerVars, readerVars, bounds, front, tip, Answered
<1> HIDE DEF asked, found, base, reply
<1>9. CASE ended
  <2>1. caller = "cancelling" /\ only \notin subscribed'
    BY <1>1, <1>6, <1>9, Zenon DEF Since, Cond, Plain
  <2>2. /\ wire'[Len(wire')].kind = "cancelled" /\ wire' # <<>> /\ Len(wire') = Len(wire) + 1
        /\ \A n \in 1..Len(wire) : wire'[n] = wire[n] /\ wire'[n].kind = "update"
    BY <1>1, <1>9, Posted
  <2>3. \A n \in 1..Len(wire') : n = Len(wire') \/ n \in 1..Len(wire)
    BY <2>2, OnTheWire
  <2>4. Phases'
    BY <1>5, <2>1, Zenon DEF SingleInv, Phases, Cancelling, database, callerVars, readerVars, bounds
  <2>5. Calls'
    BY <1>4, <1>5, <2>1, <2>2, <2>3, Zenon DEF Calls, callerVars
  <2>6. Subscription'
    BY <1>5, <2>1, <2>2, Zenon DEF Subscription, Cancelling, Answered, callerVars
  <2>7. Identification'
    BY <1>5, <2>1, <2>2, <2>3, Zenon DEF SingleInv, Identification, Answered, database, callerVars, readerVars
  <2>8. Answers'
    BY <1>5, <2>1, <2>2, <2>3, OnTheWire DEF Answers, Answered, callerVars
  <2>9. WireStream'
    <3>1. \A n \in 1..Len(wire') : wire'[n].kind = "update" => n \in 1..Len(wire)
      BY <2>2, <2>3, Zenon
    <3>2. \A n \in 1..Len(wire) : n # 1 => n - 1 \in 1..Len(wire)
      BY OnTheWire
    <3> QED
      BY <1>5, <1>8, <2>1, <2>2, <3>1, <3>2, Zenon DEF SingleInv, WireStream, database
  <2> QED
    BY <1>8, <2>4, <2>5, <2>6, <2>7, <2>8, <2>9, Zenon DEF SingleInv
<1>10. CASE refused
  <2>1. caller = "calling" /\ only \notin subscribed' /\ method[only] \notin supported /\ wire = <<>>
    BY <1>1, <1>6, <1>10, Zenon DEF Since, Cond, Plain
  <2>2. Len(wire') = 1 /\ wire' # <<>> /\ wire'[1].kind = "unknown_method"
    BY <1>10, <2>1, Posted
  <2>3. Phases'
    BY <1>5, <2>1, Kept, <1>10, Zenon DEF SingleInv, database, callerVars, readerVars, bounds
  <2>4. Calls'
    BY <1>4, <1>5, <2>1, <2>2 DEF Calls, callerVars
  <2>5. Subscription'
    <3>1. only \in monitors => mode = "restart"
      BY <2>1, Zenon DEF SingleInv, Phases, Deferring, Asking, TypeInv, CallerTypes
    <3> QED
      BY <1>5, <2>1, <2>2, <3>1, Zenon DEF Subscription, Asking, Answered, database, callerVars
  <2>6. Identification'
    BY <1>5, <2>1, <2>2, Zenon DEF SingleInv, Identification, Answered, database, callerVars, readerVars
  <2>7. Answers' /\ WireStream'
    BY <1>5, <2>1, <2>2, SMTT(30) DEF Answers, Answered, WireStream, callerVars
  <2> QED
    BY <1>8, <2>3, <2>4, <2>5, <2>6, <2>7, Zenon DEF SingleInv
<1>11. CASE served
  <2>1. caller = "calling" /\ only \in subscribed' /\ method[only] \in supported /\ wire = <<>>
    BY <1>1, <1>6, <1>11, Zenon DEF Since, Cond, Plain
  <2>2. Len(wire') = 1 /\ wire' # <<>> /\ wire'[1] = reply /\ reply.kind = "reply"
        /\ reply.last = Len(log)
    BY <1>11, <2>1, Posted, Zenon DEF reply
  <2>3. Phases'
    BY <1>5, <2>1, Zenon DEF SingleInv, Phases, Cancelling, database, callerVars, readerVars, bounds
  <2>4. Calls'
    BY <1>4, <1>5, <2>1, <2>2 DEF Calls, callerVars
  <2>5. Subscription'
    BY <1>5, <2>1, <2>2, Zenon DEF SingleInv, Deferring, Subscription, Asking, database, callerVars
  <2>6. Identification'
    BY <1>5, <2>1, <2>2 DEF SingleInv, Identification, Answered, database, callerVars, readerVars
  <2>7. Answer(reply)
    <3>1. /\ known[home] \subseteq 1..Len(log) /\ synced \in 0..Len(log) /\ Len(log) \in Nat
          /\ LastTransactionID[only] \in 0..Len(log)
      BY Singles DEF TypeInv, LogTypes, DatabaseTypes, Positions
    <3>2. synced <= reply.last
      BY <2>2, <3>1
    <3>3. ASSUME found PROVE mode = "restart" /\ LastTransactionID[only] = synced /\ asked.since = synced
      BY <1>1, <2>1, <3>1, <3>3 DEF found, SingleInv, Phases, Identification
    <3>4. ASSUME LastTransactionID[only] \in known[home] PROVE found
      <4>1. LastTransactionID[only] # 0 /\ method[only] = Since
        BY <3>1, <3>4 DEF SingleInv, Identification
      <4>2. mode = "restart"
        BY <2>1, <4>1, Zenon DEF SingleInv, Deferring, Phases, Asking, TypeInv, CallerTypes
      <4> QED
        BY <1>1, <2>1, <3>4, <4>1, <4>2, Zenon DEF found
    <3>5. reply.updates = UpdatesBy(method[only], base, log[Len(log)]) /\ reply.found = found
      BY Zenon DEF reply, Updates, UpdatesBy, latest
    <3> QED
      BY <2>2, <3>2, <3>3, <3>4, <3>5, Zenon DEF Answer, base
  <2>8. Answers'
    BY <1>5, <2>1, <2>2, <2>7, Zenon DEF Answers, Answered, Answer, database, callerVars
  <2>9. WireStream'
    BY <1>5, <2>1, <2>2 DEF WireStream, end, SameRows
  <2> QED
    BY <1>8, <2>3, <2>4, <2>5, <2>6, <2>8, <2>9, Zenon DEF SingleInv
<1> QED
  BY <1>7, <1>9, <1>10, <1>11, Zenon

\* Between two calls: what the invariant says of an idle caller.
LEMMA Idle ==
  ASSUME SingleMonitor, TypeInv, SingleInv, caller = "idle"
  PROVE  /\ requests = <<>> /\ deferredUpdates = <<>> /\ drained = 0
         /\ ~Answered /\ ~Asking /\ ~Cancelling /\ front = synced /\ tip = synced
         /\ \A n \in 1..Len(wire) : wire[n].kind = "update"
         /\ wire # <<>> => only \in subscribed
<1>1. ~Answered /\ ~Asking /\ ~Cancelling /\ requests = <<>> /\ deferredUpdates = <<>> /\ drained = 0
  BY Zenon DEF Answered, Asking, Cancelling, SingleInv, Calls, Deferring, TypeInv, DeferredTypes
<1>2. \A n \in 1..Len(wire) : wire[n].kind = "update"
  BY OnTheWire, Zenon DEF SingleInv, Calls
<1>3. wire # <<>> => only \in subscribed
  BY <1>2, OnTheWire DEF SingleInv, Subscription
<1> QED
  BY <1>1, <1>2, <1>3, Zenon DEF front, tip

\* A request is sent, for a monitor that the server does not have.
LEMMA SingleCall ==
  ASSUME Sizes, SingleMonitor, TypeInv, SingleInv, call(only, mode = "restart"), mode' = mode,
         caller = "idle", wire = <<>>, only \notin subscribed, mode = "restart" => only \in monitors
  PROVE  /\ Calls' /\ Identification' /\ Answers' /\ DeferredStream' /\ WireStream' /\ CacheFollows'
         /\ caller' = "calling" /\ ~Answered' /\ ~Cancelling'
<1> DEFINE r == request(only, method[only], mode = "restart")
<1>1. /\ caller' = "calling" /\ requests' = Append(requests, r)
      /\ UNCHANGED <<server, link, wire, database, callerReply, drained, readerVars>>
  BY Zenon DEF call
<1>2. ~Answered' /\ ~Cancelling' /\ ~Answered
  BY <1>1, Zenon DEF Answered, Cancelling
<1>3. r.method = method[only] /\ r.since = IF method[only] = Since /\ mode = "restart"
                                             THEN LastTransactionID[only] ELSE 0
  <2>1. mode = "restart" => monitors = {only}
    BY Singles, Zenon
  <2>2. mode = "restart" => Cardinality(monitors) = 1
    BY <2>1, Singles, Zenon DEF Sizes
  <2> QED
    BY <2>2, Zenon DEF request
<1>4. r \in Requests
  BY RequestType, Singles, Zenon DEF TypeInv, DatabaseTypes
<1> HIDE DEF r
<1>5. Len(requests') = 1 /\ requests'[1] = r
  <2>1. requests \in Seq(Requests) /\ Len(requests) = 0
    BY Idle, NoneOf, Zenon
  <2> QED
    BY <1>1, <1>4, <2>1, AddedTo
<1>6. Len(wire) = 0
  BY NoneOf, Zenon
<1>7. Calls'
  BY <1>1, <1>3, <1>5, <1>6 DEF Calls, server, database
<1>8. Identification'
  BY <1>1, <1>2, <1>6, Zenon DEF SingleInv, Identification, server, database, readerVars
<1>9. Answers'
  BY <1>1, <1>2, Zenon DEF Answers
<1>10. front' = front /\ tip' = tip
  BY <1>1, <1>2, Zenon DEF front, tip, database
<1>11. DeferredStream' /\ WireStream' /\ CacheFollows'
  BY <1>1, <1>10, Kept, Zenon DEF SingleInv, server, database
<1> QED
  BY <1>1, <1>2, <1>7, <1>8, <1>9, <1>11, Zenon

\* Monitor() sends its first request.
LEMMA SingleMonitorCalled ==
  ASSUME Sizes, SingleMonitor, TypeInv, SingleInv, NEW m \in Cookie, Monitor(m)
  PROVE  SingleInv'
<1>1. /\ m = only /\ mode = "up" /\ caller = "idle" /\ only \notin used /\ used' = used \cup {only}
      /\ call(only, mode = "restart") /\ UNCHANGED <<mode, restarting>>
  BY Zenon DEF Monitor, SingleMonitor
<1>2. /\ synced = 0 /\ LastTransactionID[only] = 0 /\ only \notin monitors /\ only \notin subscribed
      /\ reader = "idle" /\ deferUpdates /\ only \notin restarting /\ deferredUpdates = <<>>
  BY <1>1, Idle, Zenon DEF SingleInv, Phases, Deferring, TypeInv, ReaderTypes
<1>3. wire = <<>>
  BY <1>1, <1>2, Idle, Zenon
<1>4. /\ Calls' /\ Identification' /\ Answers' /\ DeferredStream' /\ WireStream' /\ CacheFollows'
      /\ caller' = "calling" /\ ~Answered' /\ ~Cancelling'
  BY <1>1, <1>2, <1>3, SingleCall, Zenon
<1>5. UNCHANGED <<server, link, wire, database, readerVars>>
  BY <1>1, Zenon DEF call
<1>6. Phases'
  BY <1>1, <1>2, <1>4, <1>5, Zenon DEF SingleInv, Phases, server, database, readerVars
<1>7. Deferring'
  BY <1>1, <1>2, <1>4, <1>5, Zenon DEF Deferring, database, readerVars
<1>8. Subscription'
  BY <1>2, <1>3, <1>4, <1>5, Zenon DEF Subscription, server, database
<1> QED
  BY <1>4, <1>6, <1>7, <1>8, Zenon DEF SingleInv

\* connect() asks for the monitor again, from its last transaction if the
\* method allows.
LEMMA SingleRestartMonitor ==
  ASSUME Sizes, SingleMonitor, TypeInv, SingleInv, NEW m \in Cookie, RestartMonitor(m)
  PROVE  SingleInv'
<1>1. /\ m = only /\ mode = "restart" /\ caller = "idle" /\ only \notin restarting'
      /\ call(only, mode = "restart") /\ UNCHANGED <<mode, used>>
  BY Zenon DEF RestartMonitor, SingleMonitor
<1>2. /\ only \in monitors /\ wire = <<>> /\ only \notin subscribed
      /\ reader = "idle" /\ deferUpdates /\ deferredUpdates = <<>>
  BY <1>1, Idle, Zenon DEF SingleInv, Phases, Deferring, Calls, TypeInv, ReaderTypes
<1>3. /\ Calls' /\ Identification' /\ Answers' /\ DeferredStream' /\ WireStream' /\ CacheFollows'
      /\ caller' = "calling" /\ ~Answered' /\ ~Cancelling'
  BY <1>1, <1>2, SingleCall, Zenon
<1>4. UNCHANGED <<server, link, wire, database, readerVars>>
  BY <1>1, Zenon DEF call
<1>5. Phases'
  BY <1>1, <1>2, <1>3, <1>4, Zenon DEF SingleInv, Phases, server, database, readerVars
<1>6. Deferring'
  BY <1>1, <1>2, <1>3, <1>4, Zenon DEF Deferring, database, readerVars
<1>7. Subscription'
  BY <1>1, <1>2, <1>3, <1>4, Zenon DEF Subscription, Asking, server, database
<1> QED
  BY <1>3, <1>5, <1>6, <1>7, Zenon DEF SingleInv

\* monitor() returns an error before it has changed the cache: connect starts
\* over, or the connection is gone.
LEMMA SingleReturnError ==
  ASSUME SingleMonitor, TypeInv, SingleInv, returnError,
         UNCHANGED <<cache, synced, monitors, LastTransactionID>>,
         caller \in {"idle", "calling", "cancelling"}, mode = "restart" \/ (link = None /\ caller # "idle")
  PROVE  SingleInv'
<1> USE DEF SingleInv
<1>1. /\ caller' = "idle" /\ drained' = 0
      /\ UNCHANGED <<log, known, supported, method, readerVars, used>>
      /\ ~Answered /\ ~Answered' /\ ~Asking' /\ ~Cancelling'
  BY Zenon DEF returnError, forget, Answered, Asking, Cancelling
<1>2. deferredUpdates' = <<>> /\ deferredUpdates = <<>>
  <2>1. deferredUpdates = <<>>
    BY <1>1, Zenon DEF Deferring
  <2> QED
    BY <2>1, Zenon DEF returnError
<1>3. /\ link' = None /\ wire' = <<>> /\ requests' = <<>> /\ subscribed' = {}
      /\ mode' \in {"up", "down"} /\ (mode' = "up" => mode = "up" /\ deferUpdates' = deferUpdates)
      /\ (mode' = "down" => mode = "restart" /\ deferUpdates') /\ only \notin restarting'
  BY Zenon DEF returnError, cut, Phases, TypeInv, ConnectionTypes, CallerTypes, connection
<1>4. Calls' /\ Subscription' /\ WireStream'
  BY <1>3, CutOff, Zenon DEF cut
<1>5. Phases'
  BY <1>1, <1>3, Zenon DEF Phases, Cancelling, readerVars
<1>6. Deferring'
  BY <1>1, <1>2, <1>3, SMTT(30) DEF Deferring, Phases, readerVars
<1>7. Identification' /\ Answers'
  BY <1>1, <1>3, NoneOf, SMTT(30) DEF Identification, Answers, readerVars
<1>8. CacheFollows'
  BY <1>1, ZenonT(40) DEF CacheFollows
<1>9. DeferredStream'
  <2>1. Len(deferredUpdates') = 0
    BY <1>2, NoneOf, Zenon
  <2> QED
    BY <1>1, <2>1, SMTT(30) DEF DeferredStream
<1> QED
  BY <1>4, <1>5, <1>6, <1>7, <1>8, <1>9, Zenon

\* The call ends with the connection, or because the restart runs out of time.
LEMMA SingleCallFails ==
  ASSUME SingleMonitor, TypeInv, SingleInv, CallFails \/ RestartFails
  PROVE  SingleInv'
<1>1. returnError /\ UNCHANGED <<cache, synced, monitors, LastTransactionID>>
  BY Zenon DEF CallFails, RestartFails
<1>2. caller \in {"idle", "calling", "cancelling"} /\ (mode = "restart" \/ (link = None /\ caller # "idle"))
  BY Zenon DEF CallFails, RestartFails, SingleMonitor
<1> QED
  BY <1>1, <1>2, SingleReturnError, Zenon

\* No reply is on its way to a caller that does not wait for one.
LEMMA NotCalling ==
  ASSUME SingleMonitor, TypeInv, SingleInv, caller \in {"replied", "draining"}
  PROVE  requests = <<>> /\ \A n \in 1..Len(wire) : wire[n].kind = "update"
<1>1. requests = <<>>
  BY Zenon DEF SingleInv, Calls
<1>2. \A n \in 1..Len(wire) : wire[n].kind = "update"
  BY OnTheWire, Zenon DEF SingleInv, Calls
<1> QED
  BY <1>1, <1>2, Zenon

\* The server has refused the method of a first call; the next one is tried.
LEMMA SingleFallback ==
  ASSUME SingleMonitor, TypeInv, SingleInv, Fallback
  PROVE  SingleInv'
<1> USE DEF SingleInv
<1> DEFINE next == IF method[only] = Since THEN Cond ELSE Plain
           r == request(only, next, mode = "restart")
<1>1. /\ caller = "replied" /\ callerReply.kind = "unknown_method" /\ callerCookie = only
      /\ method' = [method EXCEPT ![only] = next] /\ caller' = "calling"
      /\ requests' = IF link = None THEN requests ELSE Append(requests, r)
      /\ UNCHANGED <<server, link, wire, cache, synced, monitors, LastTransactionID, deferUpdates,
                     deferredUpdates, mode, restarting, drained, readerVars, bounds>>
  BY Singles, Zenon DEF Fallback
<1>2. Asking /\ ~Answered /\ ~Cancelling /\ ~Answered' /\ ~Cancelling' /\ Asking'
  BY <1>1, Zenon DEF Asking, Answered, Cancelling
<1>3. only \notin monitors /\ method[only] \notin supported
  BY <1>1, Zenon DEF Identification
<1>4. mode = "up" /\ synced = 0 /\ LastTransactionID[only] = 0 /\ reader = "idle"
      /\ wire = <<>> /\ only \notin subscribed /\ requests = <<>> /\ deferredUpdates = <<>>
      /\ deferUpdates /\ only \in used
  <2>1. mode = "up"
    BY <1>1, <1>3, Zenon DEF Phases, TypeInv, CallerTypes
  <2> QED
    BY <1>1, <1>2, <2>1, Zenon DEF Phases, Deferring, Calls
<1>5. next \in {Since, Cond, Plain} /\ method'[only] = next
  BY <1>1, Singles, Zenon DEF TypeInv, DatabaseTypes
<1>6. r.method = next /\ r.since = 0 /\ r \in Requests
  BY <1>4, <1>5, Singles, RequestType, Zenon DEF request
<1> HIDE DEF r, next
<1>7. Len(wire) = 0 /\ Len(deferredUpdates) = 0 /\ Len(requests) = 0
  BY <1>4, NoneOf, Zenon
<1>8. requests' # <<>> => Len(requests') = 1 /\ requests'[1] = r
  <2>1. requests \in Seq(Requests)
    BY Zenon DEF TypeInv, ConnectionTypes
  <2>2. Len(Append(requests, r)) = 1 /\ Append(requests, r)[1] = r
    BY <1>6, <1>7, <2>1, AddedTo
  <2> QED
    BY <1>1, <1>4, <2>2, Zenon
<1>9. Phases'
  BY <1>1, <1>2, <1>3, <1>4, Zenon DEF Phases, server, readerVars, bounds
<1>10. Deferring'
  BY <1>1, <1>2, <1>3, <1>4, Zenon DEF Deferring, readerVars, bounds
<1>11. Calls'
  BY <1>1, <1>4, <1>5, <1>6, <1>7, <1>8, Nothing, Zenon DEF Calls, server
<1>12. Subscription'
  BY <1>1, <1>2, <1>3, <1>4, Zenon DEF Subscription, server
<1>13. Identification' /\ Answers'
  BY <1>1, <1>2, <1>3, <1>4, <1>7, Nothing, Zenon DEF Identification, Answers, server, readerVars
<1>14. DeferredStream'
  BY <1>1, <1>7, Nothing, Zenon DEF DeferredStream, TypeInv, DeferredTypes
<1>15. WireStream' /\ CacheFollows'
  BY <1>1, <1>4, <1>7, Nothing, Zenon DEF WireStream, CacheFollows, server
<1> QED
  BY <1>9, <1>10, <1>11, <1>12, <1>13, <1>14, <1>15, Zenon

\* The reply goes into the cache, which then holds the state it was sent in.
LEMMA SinglePopulateReply ==
  ASSUME Sizes, SingleMonitor, TypeInv, SingleInv, PopulateReply
  PROVE  SingleInv'
<1> USE DEF SingleInv
<1> DEFINE before == IF purge THEN noRows ELSE cache
           last == callerReply.last
<1>1. Answered /\ Asking /\ ~Cancelling /\ callerCookie = only /\ drained = 0
  BY Singles, ZenonT(40) DEF PopulateReply, Answered, Asking, Cancelling, TypeInv, DeferredTypes
<1>2. /\ last \in 1..Len(log) /\ synced \in 0..Len(log) /\ log \in Seq(Rows) /\ callerReply.found \in BOOLEAN
      /\ known[home] \subseteq 1..Len(log)
  <2>1. callerReply \in Replies(Positions) /\ callerReply.kind = "reply"
    BY <1>1, Zenon DEF Answered, TypeInv, CallerTypes
  <2>2. callerReply.last \in Positions /\ callerReply.found \in BOOLEAN
    BY <2>1, Zenon DEF Replies
  <2> QED
    BY <2>2, Singles, SMTT(30) DEF TypeInv, LogTypes, DatabaseTypes, Positions
<1>3. Answer(callerReply)
  BY <1>1, Zenon DEF Answers
<1>4. mode \in {"up", "restart"} /\ reader # "update3" /\ only \in used /\ deferUpdates
  BY <1>1, Zenon DEF Phases, Deferring, TypeInv, CallerTypes, Answered
<1>5. Takes(before, callerReply.updates, View(log, last))
  <2>1. CASE callerReply.found
    <3>1. mode = "restart" /\ synced # 0
      BY <1>3, <2>1, Zenon DEF Answer, Phases
    <3>2. ~purge
      <4>1. Cardinality(monitors) <= 1
        <5>1. monitors = {} \/ monitors = {only}
          BY Singles, Zenon
        <5>2. Cardinality({only}) = 1 /\ Cardinality({}) = 0
          BY Singles, Zenon DEF Sizes
        <5> QED
          BY <5>1, <5>2
      <4>2. Cardinality(monitors) \in Nat
        BY Zenon DEF Sizes, TypeInv, DatabaseTypes
      <4> QED
        BY <2>1, <4>1, <4>2 DEF purge
    <3>3. before = View(log, synced)
      BY <3>2, Zenon DEF CacheFollows
    <3>4. callerReply.updates = UpdatesBy(method[only], log[synced], log[last])
      BY <1>3, <2>1, ZenonT(40) DEF Answer
    <3> HIDE DEF before, last, SingleInv
    <3>5. synced \in 1..Len(log) /\ only \in Cookie
      BY <1>2, <3>1, Singles
    <3>6. Takes(View(log, synced), UpdatesBy(method[only], log[synced], log[last]), View(log, last))
      BY <1>2, <3>5, FoundApplies, Zenon
    <3> QED
      BY <3>3, <3>4, <3>6, Zenon
  <2>2. CASE ~callerReply.found
    <3>1. before = noRows
      BY <1>1, <1>4, <2>2, Zenon DEF purge, View, CacheFollows, Deferring
    <3>2. callerReply.updates = UpdatesBy(method[only], noRows, log[last])
      BY <1>3, <2>2, Zenon DEF Answer
    <3> HIDE DEF before, last, SingleInv
    <3>3. only \in Cookie
      BY Singles, Zenon
    <3>4. Takes(noRows, UpdatesBy(method[only], noRows, log[last]), View(log, last))
      BY <1>2, <3>3, AllApplies, Zenon
    <3> QED
      BY <3>1, <3>2, <3>4, Zenon
  <2> QED
    BY <2>1, <2>2, Zenon
<1>6. /\ monitors' = monitors \cup {only} /\ synced' = last /\ cache' = View(log, last)
      /\ LastTransactionID' = IF callerReply.found THEN [LastTransactionID EXCEPT ![only] = last]
                              ELSE LastTransactionID
      /\ caller' = "draining" /\ deferUpdates' = FALSE
      /\ UNCHANGED <<server, connection, method, deferredUpdates, mode, restarting,
                     drained, readerVars, used>>
  BY <1>1, <1>5, Zenon DEF PopulateReply, Takes
<1>7. ~Answered' /\ ~Asking' /\ ~Cancelling' /\ front' = front /\ tip' = tip
  BY <1>1, <1>6, Zenon DEF Answered, Asking, Cancelling, front, tip
<1> HIDE DEF before, last
<1>8. Phases'
  BY <1>1, <1>2, <1>4, <1>6, <1>7 DEF Phases, Answered, server, connection, readerVars
<1>9. Deferring'
  BY <1>4, <1>6, <1>7, Zenon DEF Deferring
<1>10. requests = <<>> /\ \A n \in 1..Len(wire) : wire[n].kind = "update"
  BY <1>1, NotCalling, Zenon DEF Answered
<1>11. Calls'
  BY <1>6, <1>10, Zenon DEF Calls, server, connection
<1>12. Subscription'
  BY <1>1, <1>6, <1>7, Zenon DEF Subscription, server, connection
<1>13. Identification'
  <2>1. /\ callerReply.found => LastTransactionID'[only] = last /\ method[only] = Since
        /\ ~callerReply.found => LastTransactionID'[only] = LastTransactionID[only]
                                 /\ LastTransactionID[only] \notin known[home]
    <3>1. callerReply.found => method[only] = Since
      BY <1>3, Zenon DEF Answer, Identification, Phases
    <3> QED
      BY <1>3, <1>6, <3>1, Singles, Zenon DEF Answer, TypeInv, DatabaseTypes
  <2>2. method'[only] # Since => LastTransactionID'[only] = 0 /\ reader' # "update3"
    BY <1>6, <2>1, Zenon DEF Identification, readerVars
  <2>3. method'[only] \in supported'
    BY <1>1, <1>6, Zenon DEF Identification, server
  <2>4. LastTransactionID'[only] \in known'[home] => LastTransactionID'[only] = synced'
    BY <1>2, <1>6, <2>1, Zenon DEF server
  <2>5. \A n \in 1..Len(wire') : wire'[n].kind # "unknown_method"
    BY <1>6, <1>10, Zenon DEF connection
  <2> QED
    BY <1>6, <2>2, <2>3, <2>4, <2>5, Zenon DEF Identification
<1>14. Answers'
  BY <1>6, <1>7, <1>10, FirstOnTheWire, Zenon DEF Answers, connection
<1>15. WireStream'
  BY <1>6, <1>7, Kept, Zenon DEF server, connection
<1>16. DeferredStream'
  BY <1>1, <1>6, <1>7, Nothing, Zenon DEF DeferredStream, server
<1>17. CacheFollows'
  BY <1>6, Zenon DEF CacheFollows, server
<1> QED
  BY <1>8, <1>9, <1>11, <1>12, <1>13, <1>14, <1>15, <1>16, <1>17, Zenon

\* The next deferred update goes into the cache.
LEMMA SinglePopulateDeferred ==
  ASSUME SingleMonitor, TypeInv, SingleInv, PopulateDeferred
  PROVE  SingleInv'
<1> DEFINE update == deferredUpdates[drained + 1]
<1>1. /\ caller = "draining" /\ callerCookie = only /\ drained \in Nat /\ drained < Len(deferredUpdates)
      /\ Len(deferredUpdates) \in Nat /\ drained + 1 \in 1..Len(deferredUpdates)
      /\ ~Answered /\ ~Asking /\ ~Cancelling /\ front = synced
  BY Singles, SMTT(30) DEF PopulateDeferred, Answered, Asking, Cancelling, front, TypeInv, DeferredTypes
<1>2. /\ Follows(log, method[only], synced, update.at, update.updates)
      /\ update.last = IF method[only] = Since THEN update.at ELSE 0
  BY <1>1 DEF SingleInv, DeferredStream
<1>3. log \in Seq(Rows) /\ only \in Cookie
  BY Singles, Zenon DEF TypeInv, LogTypes
<1>4. Takes(View(log, synced), update.updates, View(log, update.at))
  BY <1>2, <1>3, FollowingApplies, Zenon
<1>5. cache = View(log, synced)
  BY Zenon DEF SingleInv, CacheFollows
<1>6. /\ cache' = View(log, update.at) /\ synced' = update.at /\ drained' = drained + 1
      /\ LastTransactionID' = IF update.last > 0 THEN [LastTransactionID EXCEPT ![only] = update.last]
                              ELSE LastTransactionID
      /\ UNCHANGED <<server, connection, method, deferUpdates, deferredUpdates, mode, restarting,
                     caller, callerReply, readerVars, used, monitors>>
  BY <1>1, <1>4, <1>5, Zenon DEF PopulateDeferred, Takes
<1>7. /\ only \in monitors /\ only \in used /\ reader # "update3" /\ update.at \in Nat /\ update.at # 0
      /\ known[home] \subseteq 1..Len(log)
  <2>1. update.at \in 1..Len(log)
    BY <1>2, Zenon DEF Follows
  <2>2. Len(log) \in Nat
    BY <1>3
  <2>3. update.at \in Nat /\ update.at # 0
    BY <2>1, <2>2
  <2>4. known[home] \subseteq 1..Len(log)
    BY Singles, Zenon DEF TypeInv, LogTypes, Positions
  <2> QED
    BY <1>1, <2>3, <2>4, Zenon DEF SingleInv, Phases
<1>8. ~Answered' /\ ~Asking' /\ ~Cancelling' /\ front' = update.at /\ tip' = tip
  <2>1. deferredUpdates # <<>>
    BY <1>1, NoneOf
  <2> QED
    BY <1>1, <1>6, <2>1, Zenon DEF Answered, Asking, Cancelling, front, tip
<1> HIDE DEF update
<1>9. Phases'
  BY <1>1, <1>6, <1>7, <1>8, Zenon DEF SingleInv, Phases, server, connection, readerVars
<1>10. Deferring'
  BY <1>1, <1>6, <1>7, <1>8, Zenon DEF SingleInv, Deferring, readerVars
<1>11. requests = <<>> /\ \A n \in 1..Len(wire) : wire[n].kind = "update"
  BY <1>1, NotCalling, Zenon
<1>12. Calls'
  BY <1>1, <1>6, <1>11, Zenon DEF Calls, server, connection
<1>13. Subscription'
  BY <1>1, <1>6, <1>8, Zenon DEF SingleInv, Subscription, server, connection
<1>14. Identification'
  <2>1. LastTransactionID'[only] = IF method[only] = Since THEN update.at ELSE 0
    BY <1>2, <1>6, <1>7, Singles DEF SingleInv, Identification, TypeInv, DatabaseTypes
  <2>2. LastTransactionID'[only] \in known[home] => LastTransactionID'[only] = update.at
    BY <1>7, <2>1
  <2>3. method[only] \in supported
    BY <1>7, Zenon DEF SingleInv, Identification
  <2> QED
    BY <1>1, <1>6, <1>7, <1>8, <1>11, <2>1, <2>2, <2>3, ZenonT(40) DEF Identification, server, connection, readerVars
<1>15. Answers'
  BY <1>6, <1>8, <1>11, FirstOnTheWire, Zenon DEF Answers, connection
<1>16. WireStream'
  BY <1>6, <1>8, Kept, Zenon DEF SingleInv, server, connection
<1>17. DeferredStream'
  <2>1. deferredUpdates'[drained'].at = synced'
    BY <1>6, Zenon DEF update
  <2>2. ASSUME NEW n \in 1..Len(deferredUpdates), n > drained + 1
        PROVE  /\ n > drained /\ n # drained + 1
               /\ (IF n = drained' + 1 THEN front' ELSE deferredUpdates[n - 1].at)
                    = deferredUpdates[n - 1].at
    BY <1>1, <1>6, <1>8, <2>2 DEF update
  <2>3. ASSUME NEW n \in 1..Len(deferredUpdates), n > drained + 1
        PROVE  /\ Follows(log, method[only], deferredUpdates[n - 1].at, deferredUpdates[n].at,
                          deferredUpdates[n].updates)
               /\ deferredUpdates[n].last = IF method[only] = Since THEN deferredUpdates[n].at ELSE 0
    BY <2>2, <2>3, Zenon DEF SingleInv, DeferredStream
  <2> QED
    BY <1>6, <2>1, <2>2, <2>3, Zenon DEF DeferredStream, server
<1>18. CacheFollows'
  BY <1>6, Zenon DEF CacheFollows, server
<1> QED
  BY <1>9, <1>10, <1>12, <1>13, <1>14, <1>15, <1>16, <1>17, <1>18, ZenonT(40) DEF SingleInv

\* monitor() returns, and with it a connect that has restarted the monitor.
LEMMA SingleMonitorReturns ==
  ASSUME SingleMonitor, TypeInv, SingleInv, MonitorReturns
  PROVE  SingleInv'
<1>1. /\ caller = "draining" /\ drained = Len(deferredUpdates) /\ deferredUpdates' = <<>>
      /\ caller' = "idle" /\ drained' = 0
      /\ ~Answered /\ ~Asking /\ ~Cancelling /\ ~Answered' /\ ~Asking' /\ ~Cancelling'
      /\ UNCHANGED <<server, connection, cache, synced, monitors, method, LastTransactionID,
                     deferUpdates, restarting, readerVars, bounds>>
  BY Zenon DEF MonitorReturns, forget, Answered, Asking, Cancelling
<1>2. only \in monitors /\ only \in used /\ reader # "update3" /\ ~deferUpdates /\ only \notin restarting
  BY <1>1, Zenon DEF SingleInv, Phases, Deferring
<1>3. mode' = "up"
  <2>1. restarting = {}
    BY <1>2, Singles, Zenon
  <2> QED
    BY <2>1, Zenon DEF MonitorReturns
<1>4. tip' = tip
  <2>1. deferredUpdates \in Seq(DeferredUpdates(Positions))
    BY Zenon DEF TypeInv, DeferredTypes
  <2>2. deferredUpdates # <<>> => drained > 0
    BY <1>1, <2>1, NoneOf
  <2> QED
    BY <1>1, <2>2, Zenon DEF SingleInv, DeferredStream, tip, front
<1>5. Phases'
  BY <1>1, <1>2, <1>3, Zenon DEF SingleInv, Phases, server, connection, readerVars, bounds
<1>6. Deferring'
  BY <1>1, <1>2, <1>3, Zenon DEF Deferring, readerVars, bounds
<1>7. requests = <<>> /\ \A n \in 1..Len(wire) : wire[n].kind = "update"
  BY <1>1, NotCalling, Zenon
<1>8. Calls'
  BY <1>1, <1>3, <1>7, Zenon DEF Calls, server, connection
<1>9. Subscription'
  BY <1>1, <1>2, <1>3, Zenon DEF SingleInv, Subscription, server, connection
<1>10. Identification'
  BY <1>1, <1>2, <1>7, Zenon DEF SingleInv, Identification, server, connection, readerVars
<1>11. Answers'
  BY <1>1, <1>7, FirstOnTheWire, Zenon DEF Answers, connection
<1>12. WireStream' /\ CacheFollows'
  BY <1>1, <1>4, Kept, Zenon DEF SingleInv, server, connection
<1>13. DeferredStream'
  <2>1. Len(deferredUpdates') = 0
    BY <1>1, NoneOf, Zenon
  <2> QED
    BY <1>1, <2>1 DEF DeferredStream
<1> QED
  BY <1>5, <1>6, <1>8, <1>9, <1>10, <1>11, <1>12, <1>13, Zenon DEF SingleInv

\* The monitor is to be cancelled, and is once the server has answered.
LEMMA SingleMonitorCancel ==
  ASSUME SingleMonitor, TypeInv, SingleInv, NEW m \in Cookie, MonitorCancel(m)
  PROVE  SingleInv'
<1> DEFINE r == [method |-> "monitor_cancel", cookie |-> m, since |-> 0]
<1>1. /\ mode = "up" /\ caller = "idle" /\ only \in monitors /\ caller' = "cancelling"
      /\ requests' = Append(requests, r)
      /\ UNCHANGED <<server, link, wire, database, mode, restarting, drained, readerVars, used>>
  BY Zenon DEF MonitorCancel, SingleMonitor
<1>2. /\ ~Answered' /\ ~Asking' /\ Cancelling' /\ ~Answered
      /\ requests = <<>> /\ deferredUpdates = <<>> /\ \A n \in 1..Len(wire) : wire[n].kind = "update"
  BY <1>1, Idle, Zenon DEF Answered, Asking, Cancelling
<1>3. Len(requests') = 1 /\ requests'[1].method = "monitor_cancel"
  <2>1. r \in Requests /\ r.method = "monitor_cancel" /\ Len(requests) = 0
    BY <1>2, NoneOf, Zenon DEF Requests
  <2> HIDE DEF r
  <2> QED
    BY <1>1, <2>1, AddedTo DEF TypeInv, ConnectionTypes
<1>4. only \in used /\ ~deferUpdates
  BY <1>1, Zenon DEF SingleInv, Phases, Deferring
<1>5. Phases'
  BY <1>1, <1>2, <1>4, Zenon DEF SingleInv, Phases, server, database, readerVars
<1>6. Deferring'
  BY <1>1, <1>2, <1>4, Zenon DEF Deferring, database, readerVars
<1>7. Calls'
  BY <1>1, <1>2, <1>3, Zenon DEF SingleInv, Calls, server, database
<1>8. Subscription'
  BY <1>1, <1>2, <1>4, Zenon DEF SingleInv, Subscription, server, database
<1>9. Identification'
  BY <1>1, <1>2, Zenon DEF SingleInv, Identification, server, database, readerVars
<1>10. Answers'
  BY <1>1, <1>2, OnTheWire DEF Answers
<1>11. front' = front /\ tip' = tip
  BY <1>1, <1>2, Zenon DEF front, tip, database
<1>12. DeferredStream' /\ WireStream' /\ CacheFollows'
  BY <1>1, <1>11, Kept, Zenon DEF SingleInv, server, database
<1> QED
  BY <1>5, <1>6, <1>7, <1>8, <1>9, <1>10, <1>12, Zenon DEF SingleInv

\* MonitorCancel() returns and the monitor is gone.
LEMMA SingleMonitorCancelled ==
  ASSUME SingleMonitor, TypeInv, SingleInv, MonitorCancelled
  PROVE  SingleInv'
<1>1. /\ caller = "replied" /\ callerReply.kind = "cancelled" /\ Cancelling
      /\ callerCookie = only /\ caller' = "idle" /\ drained' = 0
      /\ ~Answered /\ ~Answered' /\ ~Asking' /\ ~Cancelling'
      /\ UNCHANGED <<server, connection, cache, synced, method, LastTransactionID, deferUpdates,
                     deferredUpdates, mode, restarting, readerVars, bounds>>
  BY Singles, Zenon DEF MonitorCancelled, forget, Answered, Asking, Cancelling
<1>2. only \notin monitors' /\ only \in monitors
  BY <1>1, Zenon DEF MonitorCancelled, SingleInv, Phases
<1>3. /\ mode = "up" /\ wire = <<>> /\ only \notin subscribed /\ requests = <<>> /\ deferredUpdates = <<>>
      /\ reader # "update3" /\ only \in used /\ drained = 0
  BY <1>1, Zenon DEF SingleInv, Phases, Calls, Deferring, TypeInv, CallerTypes, DeferredTypes
<1>4. Phases'
  BY <1>1, <1>2, <1>3, Zenon DEF SingleInv, Phases, server, connection, readerVars, bounds
<1>5. Deferring'
  BY <1>1, <1>2, <1>3, Zenon DEF Deferring, readerVars, bounds
<1>6. Len(wire) = 0
  BY <1>3, NoneOf, Zenon
<1>7. Calls'
  BY <1>1, <1>3, <1>6 DEF Calls, server, connection
<1>8. Subscription'
  BY <1>1, <1>2, <1>3, Zenon DEF Subscription, server, connection
<1>9. Identification'
  BY <1>1, <1>2, <1>3, <1>6, Zenon DEF SingleInv, Identification, server, connection, readerVars
<1>10. Answers'
  BY <1>1, <1>3, Zenon DEF Answers, connection
<1>11. front' = front /\ tip' = tip
  BY <1>1, Zenon DEF front, tip
<1>12. DeferredStream' /\ WireStream' /\ CacheFollows'
  BY <1>1, <1>3, <1>11, Kept, Zenon DEF SingleInv, server, connection
<1> QED
  BY <1>4, <1>5, <1>7, <1>8, <1>9, <1>10, <1>12, Zenon DEF SingleInv

\* The first message of the connection is taken off.
LEMMA Taken ==
  ASSUME SingleMonitor, TypeInv, wire # <<>>, wire' = Tail(wire)
  PROVE  /\ Head(wire) = wire[1] /\ 1 \in 1..Len(wire) /\ Len(wire) \in Nat \ {0}
         /\ Len(wire') = Len(wire) - 1 /\ (wire' = <<>> <=> Len(wire) = 1)
         /\ \A n \in 1..Len(wire') : wire'[n] = wire[n + 1] /\ n + 1 \in 1..Len(wire)
         /\ wire' # <<>> => wire'[Len(wire')] = wire[Len(wire)] /\ {1, Len(wire')} \subseteq 1..Len(wire')
<1>1. wire \in Seq(Messages(Positions))
  BY OnTheWire, Zenon
<1>2. /\ Head(wire) = wire[1] /\ Len(wire) \in Nat \ {0} /\ wire' \in Seq(Messages(Positions))
      /\ Len(wire') = Len(wire) - 1
      /\ \A n \in 1..Len(wire') : wire'[n] = wire[n + 1] /\ n + 1 \in 1..Len(wire)
  BY <1>1, FirstOf, Zenon
<1>3. wire' = <<>> <=> Len(wire') = 0
  BY <1>2, NoneOf, Zenon
<1> QED
  BY <1>2, <1>3

\* A reply reaches the call that waits for it.
LEMMA SingleDeliverReply ==
  ASSUME SingleMonitor, TypeInv, SingleInv, DeliverReply
  PROVE  SingleInv'
<1> DEFINE msg == wire[1]
<1>1. /\ reader = "idle" /\ wire # <<>> /\ wire' = Tail(wire) /\ msg.kind # "update"
      /\ Head(wire) = msg /\ 1 \in 1..Len(wire) /\ Len(wire) \in Nat \ {0} /\ Len(wire') = Len(wire) - 1
      /\ (wire' = <<>> <=> Len(wire) = 1)
      /\ \A n \in 1..Len(wire') : wire'[n] = wire[n + 1] /\ n + 1 \in 1..Len(wire)
      /\ wire' # <<>> => wire'[Len(wire')] = wire[Len(wire)] /\ {1, Len(wire')} \subseteq 1..Len(wire')
  BY Taken, Zenon DEF DeliverReply
<1>2. msg.kind \in {"reply", "unknown_method", "cancelled"} /\ msg.cookie = only
  BY <1>1, OnTheWire, Zenon
<1>3. /\ msg.kind # "cancelled" => caller = "calling"
      /\ msg.kind = "cancelled" => caller = "cancelling"
      /\ msg.kind # "reply" => Len(wire) = 1 /\ only \notin subscribed
      /\ msg.kind = "reply" => only \in subscribed
  <2>1. /\ msg.kind # "cancelled" => caller = "calling"
        /\ msg.kind = "cancelled" => caller = "cancelling"
        /\ msg.kind # "reply" => Len(wire) = 1
        /\ msg.kind = "reply" => only \in subscribed
    BY <1>1, <1>2, Zenon DEF SingleInv, Calls
  <2>2. Len(wire) = 1 /\ msg.kind # "reply" => only \notin subscribed
    BY <1>1, Zenon DEF SingleInv, Subscription
  <2> QED
    BY <2>1, <2>2, Zenon
<1>4. /\ caller \in {"calling", "cancelling"} /\ caller' = "replied" /\ callerReply' = msg
      /\ UNCHANGED <<server, link, requests, database, mode, restarting, drained, readerVars, bounds>>
  BY <1>1, <1>2, <1>3, Singles, Zenon DEF DeliverReply
<1>5. \A n \in 1..Len(wire') : wire'[n].kind = "update"
  <2>1. ASSUME NEW n \in 1..Len(wire') PROVE wire'[n].kind = "update"
    <3>1. wire'[n] = wire[n + 1] /\ n + 1 \in 1..Len(wire) /\ n + 1 # 1 /\ Len(wire) # 1
      BY <1>1
    <3>2. msg.kind = "reply" /\ caller = "calling"
      BY <1>2, <1>3, <3>1, Zenon
    <3> QED
      BY <3>1, <3>2, OnTheWire, Zenon DEF SingleInv, Calls
  <2> QED
    BY <2>1, Zenon
<1>6. requests = <<>> /\ deferredUpdates = <<>> /\ drained = 0
  BY <1>1, <1>4, Zenon DEF SingleInv, Calls, Deferring, Answered, TypeInv, DeferredTypes
<1>7. /\ ~Answered /\ (Answered' <=> msg.kind = "reply")
      /\ (Cancelling' <=> Cancelling) /\ (Asking' <=> Asking)
      /\ (Cancelling <=> caller = "cancelling") /\ (Asking <=> caller = "calling")
  BY <1>2, <1>3, <1>4, Zenon DEF Answered, Asking, Cancelling
<1> HIDE DEF msg
<1>8. Phases'
  BY <1>1, <1>4, <1>7, Zenon DEF SingleInv, Phases, server, database, readerVars, bounds
<1>9. Deferring'
  BY <1>4, <1>6, <1>7, Zenon DEF SingleInv, Deferring, database, readerVars, bounds
<1>10. Calls'
  BY <1>1, <1>3, <1>4, <1>5, <1>6, Zenon DEF Calls, server
<1>11. Subscription'
  <2>1. wire' # <<>> => wire'[Len(wire')].kind = "update" /\ only \in subscribed
    BY <1>1, <1>3, <1>5, Zenon
  <2> QED
    BY <1>3, <1>4, <1>7, <2>1, Zenon DEF SingleInv, Subscription, server, database
<1>12. Identification'
  <2>1. msg.kind = "unknown_method" => method[only] \notin supported
    BY <1>1, Zenon DEF SingleInv, Identification, msg
  <2>2. msg.kind = "reply" => method[only] \in supported
    BY <1>3, Zenon DEF SingleInv, Identification
  <2> QED
    BY <1>4, <1>5, <1>7, <2>1, <2>2, Zenon DEF SingleInv, Identification, server, database, readerVars
<1>13. Answers'
  <2>1. msg.kind = "reply" => Answer(msg)
    BY <1>1, Zenon DEF SingleInv, Answers, msg
  <2>2. wire' # <<>> => wire'[1].kind = "update"
    BY <1>1, <1>5, Zenon
  <2> QED
    BY <1>4, <1>7, <2>1, <2>2, Zenon DEF Answers, Answer, server, database
<1>14. DeferredStream'
  <2>1. Len(deferredUpdates) = 0
    BY <1>6, NoneOf, Zenon
  <2> QED
    BY <1>4, <1>6, <2>1 DEF DeferredStream, database
<1>15. WireStream'
  <2>1. CASE msg.kind = "reply"
    <3>1. tip' = msg.last
      BY <1>4, <1>6, <1>7, <2>1, Zenon DEF tip, front, database
    <3>2. end' = end
      BY <1>1, <3>1, Zenon DEF end, msg
    <3>3. ASSUME NEW n \in 1..Len(wire'), wire'[n].kind = "update"
          PROVE  Follows(log, method[only], IF n = 1 THEN tip' ELSE wire'[n - 1].last,
                         wire'[n].last, wire'[n].updates)
      <4>1. wire'[n] = wire[n + 1] /\ n + 1 \in 1..Len(wire) /\ n + 1 # 1 /\ (n + 1) - 1 = n
        BY <1>1
      <4>2. (IF n = 1 THEN tip' ELSE wire'[n - 1].last) = wire[n].last
        <5>1. n # 1 => n - 1 \in 1..Len(wire') /\ (n - 1) + 1 = n
          BY <1>1
        <5> QED
          BY <1>1, <3>1, <5>1, Zenon DEF msg
      <4>3. Follows(log, method[only], wire[(n + 1) - 1].last, wire[n + 1].last, wire[n + 1].updates)
        BY <3>3, <4>1, Zenon DEF SingleInv, WireStream
      <4> QED
        BY <4>1, <4>2, <4>3, Zenon
    <3> QED
      BY <1>4, <3>2, <3>3, Zenon DEF SingleInv, WireStream, server, database
  <2>2. CASE msg.kind # "reply"
    BY <1>1, <1>3, <1>4, <2>2 DEF WireStream, server
  <2> QED
    BY <2>1, <2>2, Zenon
<1>16. CacheFollows'
  BY <1>4, Kept, Zenon DEF SingleInv, server, database
<1> QED
  BY <1>8, <1>9, <1>10, <1>11, <1>12, <1>13, <1>14, <1>15, <1>16, Zenon DEF SingleInv

\* A notification is taken from the connection: the next one for the client,
\* which either holds the reply or follows the monitor.
LEMMA Received ==
  ASSUME SingleMonitor, TypeInv, SingleInv, receive
  PROVE  /\ Head(wire) = wire[1] /\ wire[1].cookie = only
         /\ Follows(log, method[only], tip, wire[1].last, wire[1].updates)
         /\ deferUpdates => Answered
         /\ ~deferUpdates => /\ mode = "up" /\ caller \in {"idle", "cancelling"} /\ ~Answered
                             /\ only \in monitors /\ deferredUpdates = <<>> /\ tip = synced
         /\ Calls' /\ (wire' # <<>> => wire'[1].kind # "reply")
         /\ \A n \in 1..Len(wire') : wire'[n].kind # "unknown_method"
         /\ deferUpdates' = deferUpdates => Subscription'
         /\ tip' = wire[1].last => WireStream'
<1> USE DEF SingleInv
<1>1. /\ reader = "idle" /\ caller # "draining" /\ wire # <<>> /\ wire[1].kind = "update" /\ wire' = Tail(wire)
      /\ Head(wire) = wire[1] /\ 1 \in 1..Len(wire) /\ Len(wire) \in Nat \ {0} /\ Len(wire') = Len(wire) - 1
      /\ (wire' = <<>> <=> Len(wire) = 1)
      /\ \A n \in 1..Len(wire') : wire'[n] = wire[n + 1] /\ n + 1 \in 1..Len(wire)
      /\ wire' # <<>> => wire'[Len(wire')] = wire[Len(wire)] /\ {1, Len(wire')} \subseteq 1..Len(wire')
      /\ UNCHANGED <<server, link, requests, monitors, method, LastTransactionID, callerVars>>
  BY Taken, Zenon DEF receive
<1>2. wire[1].cookie = only /\ Follows(log, method[only], tip, wire[1].last, wire[1].updates)
  BY <1>1, OnTheWire, Zenon DEF WireStream
<1>3. /\ caller # "calling" /\ Len(wire) \in 1..Len(wire)
      /\ wire[Len(wire)].kind \in {"update", "cancelled"}
      /\ wire[Len(wire)].kind = "cancelled" => caller = "cancelling"
      /\ caller = "replied" => callerReply.kind = "reply"
  <2>1. caller # "calling" /\ (caller = "replied" => callerReply.kind = "reply")
    BY <1>1, Zenon DEF Calls
  <2>2. Len(wire) \in 1..Len(wire)
    BY <1>1
  <2> QED
    BY <2>1, <2>2, OnTheWire, Zenon DEF Calls
<1>4. only \in subscribed \/ caller = "cancelling"
  BY <1>1, <1>3, Zenon DEF Subscription
<1>5. ASSUME deferUpdates PROVE Answered
  <2>1. CASE caller = "cancelling"
    <3>1. Cancelling /\ ~Asking
      BY <2>1, Zenon DEF Cancelling, Asking
    <3>2. mode = "up" /\ only \in monitors
      BY <2>1, <3>1, Zenon DEF Phases, TypeInv, CallerTypes
    <3> QED
      BY <1>5, <3>2, Zenon DEF Deferring
  <2>2. CASE only \in subscribed
    BY <1>3, <1>5, <2>2, Zenon DEF Subscription
  <2> QED
    BY <1>4, <2>1, <2>2, Zenon
<1>6. ASSUME ~deferUpdates
      PROVE  /\ mode = "up" /\ caller \in {"idle", "cancelling"} /\ ~Answered
             /\ only \in monitors /\ deferredUpdates = <<>> /\ tip = synced
  <2>1. ~Asking /\ ~Answered /\ mode # "down" /\ ~(mode = "restart" /\ caller = "idle")
    BY <1>6, Zenon DEF Deferring, Asking, Answered
  <2>2. caller \in {"idle", "cancelling"}
    BY <1>1, <1>3, <2>1, Zenon DEF Answered, TypeInv, CallerTypes
  <2>3. mode = "up"
    BY <2>1, <2>2, Zenon DEF Phases, Cancelling, TypeInv, CallerTypes
  <2>4. only \in monitors
    BY <1>4, <1>6, Zenon DEF Subscription, Phases, Cancelling
  <2>5. deferredUpdates = <<>> /\ tip = synced
    BY <1>1, <2>1, Zenon DEF Deferring, tip, front
  <2> QED
    BY <2>1, <2>2, <2>3, <2>4, <2>5, Zenon
<1>7. \A n \in 1..Len(wire') :
        /\ wire'[n].kind \notin {"reply", "unknown_method"}
        /\ wire'[n].kind = "cancelled" => n = Len(wire') /\ caller = "cancelling"
  <2>1. ASSUME NEW n \in 1..Len(wire')
        PROVE  /\ wire'[n].kind \notin {"reply", "unknown_method"}
               /\ wire'[n].kind = "cancelled" => n = Len(wire') /\ caller = "cancelling"
    <3>1. wire'[n] = wire[n + 1] /\ n + 1 \in 1..Len(wire) /\ n + 1 # 1
      BY <1>1
    <3>2. n + 1 = Len(wire) => n = Len(wire')
      <4>1. Len(wire) \in Nat /\ Len(wire') = Len(wire) - 1
        BY <1>1, Zenon
      <4> QED
        BY <4>1
    <3> QED
      BY <1>3, <3>1, <3>2, Zenon DEF Calls
  <2> QED
    BY <2>1, Zenon
<1>8. Calls'
  <2>1. requests # <<>> => /\ Len(requests) = 1 /\ caller = "cancelling"
                           /\ \A n \in 1..Len(wire') : wire'[n].kind = "update"
                           /\ requests[1].method = "monitor_cancel"
    <3>1. \A n \in 1..Len(wire') : wire'[n] = wire[n + 1] /\ n + 1 \in 1..Len(wire)
      BY <1>1, Zenon
    <3> QED
      BY <1>3, <3>1, Zenon DEF Calls
  <2>2. /\ UNCHANGED <<requests, caller, callerReply, mode, subscribed>>
        /\ ~(caller = "replied" /\ callerReply.kind # "reply") /\ ~(mode = "restart" /\ caller = "idle")
    BY <1>1, <1>3, Zenon DEF Calls, callerVars, server
  <2> QED
    BY <1>3, <1>7, <2>1, <2>2, Zenon DEF Calls
<1>9. ASSUME deferUpdates' = deferUpdates PROVE Subscription'
  BY <1>1, <1>3, <1>9, Zenon DEF Subscription, Asking, Answered, Cancelling, server, callerVars
<1>10. ASSUME tip' = wire[1].last PROVE WireStream'
  <2>1. end' = end
    BY <1>1, <1>10, Zenon DEF end
  <2>2. ASSUME NEW n \in 1..Len(wire'), wire'[n].kind = "update"
        PROVE  Follows(log, method[only], IF n = 1 THEN tip' ELSE wire'[n - 1].last,
                       wire'[n].last, wire'[n].updates)
    <3>1. wire'[n] = wire[n + 1] /\ n + 1 \in 1..Len(wire) /\ n + 1 # 1 /\ (n + 1) - 1 = n
      BY <1>1
    <3>2. (IF n = 1 THEN tip' ELSE wire'[n - 1].last) = wire[n].last
      <4>1. n # 1 => n - 1 \in 1..Len(wire') /\ (n - 1) + 1 = n
        BY <1>1
      <4> QED
        BY <1>1, <1>10, <4>1, Zenon
    <3>3. Follows(log, method[only], wire[(n + 1) - 1].last, wire[n + 1].last, wire[n + 1].updates)
      BY <2>2, <3>1, Zenon DEF WireStream
    <3> QED
      BY <3>1, <3>2, <3>3, Zenon
  <2> QED
    BY <1>1, <2>1, <2>2, Zenon DEF WireStream, server
<1> QED
  BY <1>1, <1>2, <1>5, <1>6, <1>7, <1>8, <1>9, <1>10, Zenon

\* It is kept until the reply has been applied.
LEMMA SingleDeferUpdate ==
  ASSUME SingleMonitor, TypeInv, SingleInv, DeferUpdate
  PROVE  SingleInv'
<1> DEFINE new == [updates |-> wire[1].updates, at |-> wire[1].last,
                   last |-> IF method[only] = Since THEN wire[1].last ELSE 0]
<1>1. receive /\ deferUpdates /\ UNCHANGED <<cache, synced, deferUpdates, reader, readerUpdate>>
  BY Zenon DEF DeferUpdate
<1>2. /\ Head(wire) = wire[1] /\ wire[1].cookie = only /\ Answered
      /\ Follows(log, method[only], tip, wire[1].last, wire[1].updates)
      /\ Calls' /\ Subscription' /\ (wire' # <<>> => wire'[1].kind # "reply")
      /\ \A n \in 1..Len(wire') : wire'[n].kind # "unknown_method"
      /\ tip' = wire[1].last => WireStream'
  BY <1>1, Received, Zenon
<1>3. UNCHANGED <<server, link, requests, monitors, method, LastTransactionID, callerVars,
                  oldError, errorHandler, bounds>>
  BY <1>1, Zenon DEF receive
<1>4. deferredUpdates' = Append(deferredUpdates, new) /\ drained = 0
  BY <1>2, Zenon DEF DeferUpdate, Answered, TypeInv, DeferredTypes
<1>5. /\ Len(deferredUpdates) \in Nat /\ Len(deferredUpdates') = Len(deferredUpdates) + 1
      /\ deferredUpdates' # <<>> /\ deferredUpdates'[Len(deferredUpdates) + 1] = new
      /\ \A n \in 1..Len(deferredUpdates) : deferredUpdates'[n] = deferredUpdates[n]
      /\ deferredUpdates # <<>> => Len(deferredUpdates) # 0
  <2> DEFINE S == DeferredUpdates(Positions) \cup {new}
  <2>1. deferredUpdates \in Seq(S)
    BY DEF TypeInv, DeferredTypes
  <2>2. new \in S
    BY Zenon
  <2> HIDE DEF S, new
  <2> QED
    BY <1>4, <2>1, <2>2, AddedTo, NoneOf, SMTT(30)
<1>6. new.at = wire[1].last /\ new.updates = wire[1].updates
      /\ new.last = IF method[only] = Since THEN new.at ELSE 0
  BY Zenon
<1> HIDE DEF new
<1>7. tip' = wire[1].last
  BY <1>5, <1>6, Zenon DEF tip
<1>8. Phases'
  BY <1>1, <1>3, Kept, Zenon DEF SingleInv, server, callerVars, bounds
<1>9. Answered' /\ (Asking' <=> Asking) /\ front' = front
  BY <1>1, <1>2, <1>3, Zenon DEF Answered, Asking, front, callerVars
<1>10. Deferring'
  BY <1>1, <1>3, <1>9, Zenon DEF SingleInv, Deferring, callerVars, bounds
<1>11. Identification'
  BY <1>1, <1>2, <1>3, <1>9, Zenon DEF SingleInv, Identification, server, callerVars
<1>12. Answers'
  BY <1>1, <1>2, <1>3, ZenonT(40) DEF SingleInv, Answers, Answer, server, callerVars
<1>13. DeferredStream'
  <2>1. UNCHANGED <<log, method, drained>>
    BY <1>3, Zenon DEF server, callerVars
  <2>2. ASSUME NEW n \in 1..Len(deferredUpdates')
        PROVE  /\ Follows(log, method[only], IF n = drained + 1 THEN front ELSE deferredUpdates'[n - 1].at,
                          deferredUpdates'[n].at, deferredUpdates'[n].updates)
               /\ deferredUpdates'[n].last = IF method[only] = Since THEN deferredUpdates'[n].at ELSE 0
    <3>1. CASE n = Len(deferredUpdates) + 1
      <4>1. tip = IF n = drained + 1 THEN front ELSE deferredUpdates'[n - 1].at
        <5>1. CASE Len(deferredUpdates) = 0
          BY <1>4, <1>5, <3>1, <5>1, Zenon DEF tip
        <5>2. CASE Len(deferredUpdates) # 0
          <6>1. deferredUpdates # <<>>
            BY <5>2, NoneOf, Zenon
          <6>2. n # 1 /\ n - 1 = Len(deferredUpdates) /\ Len(deferredUpdates) \in 1..Len(deferredUpdates)
            BY <1>5, <3>1, <5>2, SMTT(30)
          <6> QED
            BY <1>4, <1>5, <6>1, <6>2 DEF tip
        <5> QED
          BY <5>1, <5>2, Zenon
      <4> QED
        BY <1>2, <1>5, <1>6, <3>1, <4>1, Zenon
    <3>2. CASE n # Len(deferredUpdates) + 1
      <4>1. n \in 1..Len(deferredUpdates) /\ (n # 1 => n - 1 \in 1..Len(deferredUpdates)) /\ n > drained
        BY <1>4, <1>5, <3>2
      <4>2. deferredUpdates'[n] = deferredUpdates[n]
            /\ (n # 1 => deferredUpdates'[n - 1] = deferredUpdates[n - 1])
        BY <1>5, <4>1, Zenon
      <4> QED
        BY <1>4, <4>1, <4>2 DEF SingleInv, DeferredStream
    <3> QED
      BY <3>1, <3>2, Zenon
  <2> QED
    BY <1>4, <1>9, <2>1, <2>2 DEF DeferredStream
<1>14. CacheFollows'
  BY <1>1, <1>3, Kept, Zenon DEF SingleInv, server
<1> QED
  BY <1>2, <1>7, <1>8, <1>10, <1>11, <1>12, <1>13, <1>14, Zenon DEF SingleInv

\* A notification is applied, by update3 or by update and update2.
LEMMA SingleUpdate ==
  ASSUME SingleMonitor, TypeInv, SingleInv, update3 \/ update2
  PROVE  SingleInv'
<1> DEFINE msg == wire[1]
<1>1. receive /\ ~deferUpdates /\ UNCHANGED <<deferUpdates, deferredUpdates>>
  BY Zenon DEF update3, update2
<1>2. /\ Head(wire) = msg /\ msg.cookie = only
      /\ Follows(log, method[only], synced, msg.last, msg.updates)
      /\ mode = "up" /\ caller \in {"idle", "cancelling"} /\ ~Answered
      /\ only \in monitors /\ deferredUpdates = <<>>
      /\ Calls' /\ Subscription' /\ (wire' # <<>> => wire'[1].kind # "reply")
      /\ \A n \in 1..Len(wire') : wire'[n].kind # "unknown_method"
      /\ tip' = msg.last => WireStream'
  BY <1>1, Received, Zenon
<1>3. UNCHANGED <<server, link, requests, monitors, method, LastTransactionID, callerVars,
                  oldError, errorHandler, bounds>>
  BY <1>1, Zenon DEF receive
<1>4. log \in Seq(Rows) /\ only \in Cookie
  BY Singles, Zenon DEF TypeInv, LogTypes
<1>5. Takes(View(log, synced), msg.updates, View(log, msg.last))
  BY <1>2, <1>4, FollowingApplies, Zenon
<1>6. cache = View(log, synced)
  BY Zenon DEF SingleInv, CacheFollows
<1>7. /\ cache' = View(log, msg.last) /\ synced' = msg.last
      /\ IF method[only] = Since THEN reader' = "update3" /\ readerUpdate' = msg
         ELSE UNCHANGED <<reader, readerUpdate>>
  BY <1>2, <1>5, <1>6, ZenonT(40) DEF update3, update2, Takes
<1>8. msg.last # 0 /\ reader = "idle" /\ only \in used /\ ~Asking /\ ~Asking' /\ ~Answered'
      /\ (Cancelling' <=> Cancelling)
  BY <1>1, <1>2, <1>3, SMTT(30) DEF Follows, receive, SingleInv, Phases, Asking, Answered, Cancelling, callerVars
<1>9. tip' = msg.last
  BY <1>1, <1>2, <1>7, <1>8, Zenon DEF tip, front
<1> HIDE DEF msg
<1>10. Phases'
  <2>1. reader' # "error" /\ reader' \in {"idle", "update3"} /\ (reader' = "update3" => readerUpdate' = msg)
    BY <1>7, <1>8, Zenon
  <2> QED
    BY <1>2, <1>3, <1>7, <1>8, <2>1, Zenon DEF SingleInv, Phases, server, callerVars, bounds
<1>11. Deferring'
  BY <1>1, <1>2, <1>3, <1>8, Zenon DEF Deferring, callerVars, bounds
<1>12. Identification'
  <2>1. known[home] \subseteq 1..Len(log) /\ 0 \notin 1..Len(log)
    BY Singles DEF TypeInv, LogTypes, Positions
  <2>2. CASE method[only] = Since
    BY <1>2, <1>3, <1>7, <1>8, <2>2, Zenon DEF SingleInv, Identification, server, callerVars
  <2>3. CASE method[only] # Since
    BY <1>2, <1>3, <1>7, <1>8, <2>1, <2>3, Zenon DEF SingleInv, Identification, server, callerVars
  <2> QED
    BY <2>2, <2>3, ZenonT(40)
<1>13. Answers'
  BY <1>2, <1>8, Zenon DEF Answers
<1>14. DeferredStream'
  <2>1. Len(deferredUpdates) = 0 /\ drained = 0
    BY <1>2, NoneOf, Zenon DEF TypeInv, DeferredTypes
  <2> QED
    BY <1>1, <1>2, <1>3, <2>1, Nothing, Zenon DEF DeferredStream, callerVars
<1>15. CacheFollows'
  BY <1>3, <1>7, Zenon DEF CacheFollows, server
<1> QED
  BY <1>2, <1>9, <1>10, <1>11, <1>12, <1>13, <1>14, <1>15, Zenon DEF SingleInv

\* update3 stores the transaction ID of the state that it has applied.
LEMMA SingleUpdateLastTransactionID ==
  ASSUME SingleMonitor, TypeInv, SingleInv, UpdateLastTransactionID
  PROVE  SingleInv'
<1>1. /\ reader = "update3" /\ reader' = "idle" /\ readerUpdate.last = synced /\ readerUpdate.cookie = only
      /\ mode = "up" /\ caller \in {"idle", "cancelling"} /\ only \in monitors /\ only \in used
      /\ ~Answered /\ ~Asking /\ ~Answered' /\ ~Asking' /\ method[only] = Since
      /\ UNCHANGED <<server, connection, cache, synced, monitors, method, deferUpdates,
                     deferredUpdates, callerVars, oldError, errorHandler, bounds>>
  <2>1. readerUpdate \in Notifications(Positions)
    BY Zenon DEF UpdateLastTransactionID, TypeInv, ReaderTypes
  <2>2. readerUpdate.cookie = only
    BY <2>1, Zenon DEF Notifications, SingleMonitor
  <2> QED
    BY <2>2, Zenon DEF UpdateLastTransactionID, SingleInv, Phases, Identification, Answered, Asking, callerVars
<1>2. LastTransactionID'[only] = synced
  BY <1>1, Singles, Zenon DEF UpdateLastTransactionID, TypeInv, DatabaseTypes
<1>3. Phases'
  BY <1>1, Zenon DEF SingleInv, Phases, Cancelling, server, connection, callerVars, bounds
<1>4. Deferring'
  BY <1>1, Zenon DEF SingleInv, Deferring, callerVars, bounds
<1>5. Calls'
  BY <1>1, Zenon DEF SingleInv, Calls, server, connection, callerVars
<1>6. Identification'
  BY <1>1, <1>2, Zenon DEF SingleInv, Identification, server, connection, callerVars
<1>7. Answers'
  <2>1. wire # <<>> => wire[1].kind # "reply"
    BY <1>1, FirstOnTheWire, Zenon DEF SingleInv, Calls
  <2> QED
    BY <1>1, <2>1, Zenon DEF Answers, connection
<1>8. front' = front /\ tip' = tip
  BY <1>1, Zenon DEF front, tip
<1>9. Subscription' /\ DeferredStream' /\ WireStream' /\ CacheFollows'
  BY <1>1, <1>8, Kept, Zenon DEF SingleInv, server, connection, callerVars
<1> QED
  BY <1>3, <1>4, <1>5, <1>6, <1>7, <1>9, Zenon DEF SingleInv

\* The client notices that the connection is gone, and reaches the server again.
LEMMA SingleHandleDisconnect ==
  ASSUME SingleMonitor, TypeInv, SingleInv, HandleDisconnect
  PROVE  SingleInv'
<1>1. /\ mode = "up" /\ link = None /\ reader = "idle" /\ caller = "idle" /\ mode' = "down"
      /\ deferUpdates' = TRUE /\ deferredUpdates' = <<>>
      /\ UNCHANGED <<server, connection, cache, synced, monitors, method, LastTransactionID,
                     restarting, caller, callerReply, drained, readerVars, bounds>>
  BY Zenon DEF HandleDisconnect
<1>2. /\ wire = <<>> /\ requests = <<>> /\ subscribed = {} /\ deferredUpdates = <<>> /\ Len(wire) = 0
      /\ ~Answered' /\ ~Asking' /\ ~Cancelling' /\ ~Answered
  BY <1>1, Idle, NoneOf, Zenon DEF TypeInv, ConnectionTypes, Answered, Asking, Cancelling
<1>3. front' = front /\ tip' = tip
  BY <1>1, <1>2, Zenon DEF front, tip
<1>4. Phases'
  BY <1>1, <1>2, Zenon DEF SingleInv, Phases, server, connection, readerVars, bounds
<1>5. Deferring'
  BY <1>1, <1>2, Zenon DEF Deferring
<1>6. Calls' /\ Subscription'
  BY <1>1, <1>2, Nothing, Zenon DEF Calls, Subscription, server, connection
<1>7. Identification' /\ Answers'
  BY <1>1, <1>2, Zenon DEF SingleInv, Identification, Answers, server, connection, readerVars
<1>8. DeferredStream' /\ WireStream' /\ CacheFollows'
  BY <1>1, <1>2, <1>3, Kept, Zenon DEF SingleInv, server, connection
<1> QED
  BY <1>4, <1>5, <1>6, <1>7, <1>8, Zenon DEF SingleInv

\* A new connection starts with nothing on it, and the monitor is to be restarted.
LEMMA SingleConnect ==
  ASSUME SingleMonitor, TypeInv, SingleInv, NEW s \in Endpoint, Connect(s)
  PROVE  SingleInv'
<1>1. /\ mode = "down" /\ caller = "idle" /\ reader = "idle" /\ reader' = "idle" /\ ~oldError'
      /\ UNCHANGED <<server, requests, wire, monitors, method, LastTransactionID, deferUpdates,
                     deferredUpdates, caller, callerReply, drained, readerUpdate, errorHandler, bounds>>
  BY Zenon DEF Connect, SingleInv, Phases, TypeInv, ReaderTypes
<1>2. /\ wire = <<>> /\ requests = <<>> /\ subscribed = {} /\ deferredUpdates = <<>> /\ Len(wire) = 0
      /\ ~Answered' /\ ~Asking' /\ ~Cancelling' /\ drained = 0 /\ deferUpdates
  BY <1>1, Idle, NoneOf, Zenon DEF TypeInv, ConnectionTypes, Answered, Asking, Cancelling, SingleInv, Phases, Deferring
<1>3. \/ /\ only \in monitors /\ mode' = "restart" /\ only \in restarting' /\ UNCHANGED <<cache, synced>>
      \/ /\ only \notin monitors /\ mode' = "up" /\ only \notin restarting' /\ cache' = noRows /\ synced' = 0
  BY <1>1, Singles, Zenon DEF Connect, SingleInv, Phases
<1>4. Phases'
  BY <1>1, <1>2, <1>3, Zenon DEF SingleInv, Phases, server, bounds
<1>5. Deferring'
  BY <1>1, <1>2, <1>3, Zenon DEF Deferring
<1>6. Calls' /\ Subscription'
  BY <1>1, <1>2, <1>3, Nothing, Zenon DEF Calls, Subscription, server
<1>7. Identification' /\ Answers'
  BY <1>1, <1>2, <1>3, Zenon DEF SingleInv, Identification, Answers, server
<1>8. DeferredStream'
  <2>1. Len(deferredUpdates) = 0
    BY <1>2, NoneOf, Zenon
  <2> QED
    BY <1>1, <1>2, <2>1 DEF DeferredStream
<1>9. WireStream'
  BY <1>1, <1>2 DEF WireStream, server
<1>10. CacheFollows'
  BY <1>1, <1>3, Zenon DEF SingleInv, CacheFollows, View, server
<1> QED
  BY <1>4, <1>5, <1>6, <1>7, <1>8, <1>9, <1>10, Zenon DEF SingleInv

\* Every step; the error handler never has anything to do.
LEMMA SingleStep == Sizes /\ SingleMonitor /\ TypeInv /\ SingleInv /\ [Next]_vars => SingleInv'
<1> SUFFICES ASSUME Sizes, SingleMonitor, TypeInv, SingleInv, [Next]_vars PROVE SingleInv'
  BY Zenon
<1>1. CASE Environment
  BY <1>1, SingleCommit, SingleForget, SingleLinkLost, SingleMonitorCalled, SingleMonitorCancel, Zenon
     DEF Environment
<1>2. CASE ServeMonitor
  BY <1>2, SingleServeMonitor, Zenon
<1>3. CASE CallerSteps
  BY <1>3, SingleRestartMonitor, SingleCallFails, SingleFallback, SinglePopulateReply,
     SinglePopulateDeferred, SingleMonitorReturns, SingleMonitorCancelled, Zenon
     DEF CallerSteps
<1>4. CASE ReaderSteps
  BY <1>4, SingleDeliverReply, SingleDeferUpdate, SingleUpdate, SingleUpdateLastTransactionID, Zenon
     DEF ReaderSteps
<1>5. CASE ConnectionSteps
  <2>1. ~TakeError /\ ~ResetTransactionIDs /\ ~Disconnect
    BY Zenon DEF SingleInv, Phases, TakeError, ResetTransactionIDs, Disconnect
  <2> QED
    BY <1>5, <2>1, SingleHandleDisconnect, SingleConnect, Zenon DEF ConnectionSteps
<1>6. CASE UNCHANGED vars
  <2>1. UNCHANGED server /\ UNCHANGED connection /\ UNCHANGED database /\ UNCHANGED callerVars
        /\ UNCHANGED readerVars /\ UNCHANGED bounds
    BY <1>6, Zenon DEF vars
  <2>2. front' = front /\ tip' = tip
    BY <2>1, Zenon DEF front, tip, Answered, database, callerVars
  <2> QED
    BY <2>1, <2>2, Kept, Zenon DEF SingleInv, server, connection, database, callerVars, readerVars, bounds
<1> QED
  BY <1>1, <1>2, <1>3, <1>4, <1>5, <1>6, Zenon DEF Next

\* The client starts without a monitor and with an empty cache.
LEMMA SingleInit == SingleMonitor /\ Init => SingleInv
<1> SUFFICES ASSUME SingleMonitor, Init PROVE SingleInv
  BY Zenon
<1>1. only \in Cookie /\ home \in Endpoint /\ home # None
  BY NoneAssumption, Zenon DEF SingleMonitor
<1>2. Len(wire) = 0 /\ Len(deferredUpdates) = 0
  BY NoneOf, Zenon DEF Init
<1>3. ~Answered /\ ~Asking /\ ~Cancelling
  BY Zenon DEF Init, Answered, Asking, Cancelling
<1>4. Phases
  BY <1>1, <1>3, Zenon DEF Phases, Init
<1>5. Deferring
  BY <1>3, Zenon DEF Deferring, Init
<1>6. Calls /\ Subscription
  BY <1>2, <1>3, Nothing, Zenon DEF Calls, Subscription, Init
<1>7. Identification /\ Answers
  BY <1>1, <1>2, <1>3, Nothing, ZenonT(40) DEF Identification, Answers, Init
<1>8. DeferredStream /\ WireStream /\ CacheFollows
  BY <1>2 DEF DeferredStream, WireStream, CacheFollows, View, Init
<1> QED
  BY <1>4, <1>5, <1>6, <1>7, <1>8, Zenon DEF SingleInv

=============================================================================

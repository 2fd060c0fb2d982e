------------------------------ MODULE Backends ------------------------------
(***************************************************************************)
(* The connections of an application server to its backends                *)
(* (nuapp/src/subquery/subquery.go).  InitSubSystems opens them, one       *)
(* subsystem after the other, and tries again until a ping of the backend  *)
(* and a write to the cache succeed.  Then subqueries, as many as the      *)
(* backend semaphore of the subsystem lets in, and PingTest use them: a    *)
(* call to an "fb" backend takes one of a fixed number of clients out of a *)
(* channel and puts it back, a query of a "mysql" backend has a connection *)
(* of the sql.DB as long as it reads rows, and takes a second one for each *)
(* row it writes back.  Backends go down and come up again.                *)
(***************************************************************************)
EXTENDS Integers, FiniteSets, Sequences, Functions, SequencesExt

CONSTANTS
  Deps,         \* the subsystems, in the order of DepConfigs
  Kind,         \* "fb" or "mysql" for each of them
  BackSlots,    \* slots of the semaphore of each (conf.MaxOpenConns, 15)
  Clients,      \* clients of an fb subsystem (Fb.MaxConcurrentReqs, 500)
  Pings,        \* calls of a ping of an fb subsystem (100)
  MaxOpen,      \* connections of a mysql subsystem (Db.MaxOpenConns, 20)
  MaxFiles,     \* descriptors of the process
  Callers,      \* subqueries
  MaxRows       \* bound: rows of a query

Names == ToSet(Deps)

ASSUME DepsAssumption ==
  /\ Deps \in Seq(Names) /\ Deps # <<>> /\ IsInjective(Deps)
  /\ Kind \in [Names -> {"fb", "mysql"}]
ASSUME ClientsAssumption ==
  {Clients, Pings, MaxOpen} \subseteq Nat \ {0} /\ MaxFiles \in Nat /\ MaxRows \in Nat
ASSUME CallersAssumption == IsFiniteSet(Callers)
(* As in the example configuration: a pool has a connection that no query  *)
(* can hold while it reads.  Without that, queries that write back wait    *)
(* for each other.                                                         *)
ASSUME SlotsAssumption ==
  \A d \in Names : BackSlots[d] \in Nat /\ (Kind[d] = "mysql" => BackSlots[d] < MaxOpen)

PingTest == "PingTest"
Users == Callers \cup {PingTest}

VARIABLES
  up,        \* the backends that run
  cacheUp,   \* whether the caches do
  boot,      \* the subsystem that InitSubSystems is at
  step,      \* and how far with it: "dial", "ping" or "set"
  pool,      \* the channel of each subsystem's clients, "good" or "broken"
  leaked,    \* connections of attempts given up, which nobody closes
  pc,        \* where each user is
  dep,       \* the subsystem it uses
  client,    \* the client it has taken
  rows       \* the rows it has still to read

bootVars == <<boot, step, leaked>>
userVars == <<pc, dep, client, rows>>
vars == <<up, cacheUp, bootVars, pool, userVars>>

NoClient == "none"

Init ==
  /\ up \in SUBSET Names /\ cacheUp \in BOOLEAN
  /\ boot = 1 /\ step = "dial"
  /\ pool = [d \in Names |-> <<>>]
  /\ leaked = [d \in Names |-> 0]
  /\ pc = [u \in Users |-> "idle"]
  /\ dep = [u \in Users |-> Deps[1]]
  /\ client = [u \in Users |-> NoClient]
  /\ rows = [u \in Users |-> 0]

Booted == boot > Len(Deps)
Files == SumFunction(leaked) + SumFunction([d \in Names |-> Len(pool[d])])
Good(clients) == Cardinality({i \in DOMAIN clients : clients[i] = "good"})
-----------------------------------------------------------------------------
(* Faulty variants: after a failure the clients are pinged again; more of  *)
(* them are put into the same channel.                                     *)
RetryPing(d) == step' = (IF step = "dial" THEN "dial" ELSE "ping") /\ UNCHANGED <<boot, leaked, pool>>
RetryDial(d) == step' = "dial" /\ UNCHANGED <<boot, leaked, pool>>

(* The attempt is given up.  The clients that still work are never closed; *)
(* nor is the connection that the ping of a database has opened.           *)
Retry(d) ==
  /\ step' = "dial"
  /\ leaked' = [leaked EXCEPT ![d] = @ + IF Kind[d] = "fb" THEN Good(pool[d]) ELSE IF step = "set" THEN 1 ELSE 0]
  /\ pool' = [pool EXCEPT ![d] = <<>>]
  /\ UNCHANGED boot

DialFails(d) == d \notin up \/ Files >= MaxFiles

(* rpc.Dial of one client after the other; sql.Open opens nothing. *)
Dial(d) ==
  /\ step = "dial"
  /\ IF Kind[d] = "mysql" THEN step' = "ping" /\ UNCHANGED <<boot, leaked, pool>>
     ELSE IF DialFails(d) THEN Retry(d)
     ELSE /\ pool' = [pool EXCEPT ![d] = Append(@, "good")]
          /\ step' = IF Len(pool[d]) + 1 = Clients THEN "ping" ELSE "dial"
          /\ UNCHANGED <<boot, leaked>>

(* A ping of an fb subsystem calls Pings clients, each the next of the     *)
(* channel, that of a database opens its first connection.  Its result is  *)
(* looked at together with that of the write to the cache.                 *)
PingWorks(d) ==
  IF Kind[d] = "fb" THEN \A i \in 1 .. Pings : pool[d][((i - 1) % Clients) + 1] = "good"
  ELSE ~DialFails(d)

PingBackend(d) ==
  /\ step = "ping"
  /\ IF PingWorks(d) THEN step' = "set" /\ UNCHANGED <<boot, leaked, pool>> ELSE Retry(d)

SetCache(d) ==
  /\ step = "set"
  /\ IF cacheUp
     THEN boot' = boot + 1 /\ step' = "dial" /\ UNCHANGED <<leaked, pool>>
     ELSE Retry(d)

InitSubSystems ==
  /\ ~Booted
  /\ LET d == Deps[boot] IN Dial(d) \/ PingBackend(d) \/ SetCache(d)
  /\ UNCHANGED <<up, cacheUp, userVars>>
-----------------------------------------------------------------------------
On(d, where) == {u \in Users : dep[u] = d /\ pc[u] \in where}
Busy == {"take", "call", "put", "query", "rows", "exec", "executing"}

(* The connections of a database in use: PingTest and queries have one,    *)
(* queries that execute an update two.                                     *)
InUse(d) ==
  Cardinality(On(d, {"query", "rows", "exec", "executing"})) + Cardinality(On(d, {"executing"}))

(* Faulty variant: the semaphore lets everyone in. *)
NoSlot(u, d) == TRUE

(* A subquery gets a slot of the semaphore; PingTest needs none. *)
Slot(u, d) == u # PingTest => Cardinality(On(d, Busy) \ {PingTest}) < BackSlots[d]
Begin(u) ==
  /\ Booted /\ pc[u] = "idle"
  /\ \E d \in Names : Slot(u, d) /\ dep' = [dep EXCEPT ![u] = d]
  /\ pc' = [pc EXCEPT ![u] = "take"]
  /\ UNCHANGED <<up, cacheUp, bootVars, pool, client, rows>>

Goto(u, where) == pc' = [pc EXCEPT ![u] = where]

(* Request and each call of Ping of an FbBackConn. *)
TakeClient(u) ==
  /\ pc[u] = "take" /\ Kind[dep[u]] = "fb" /\ pool[dep[u]] # <<>>
  /\ client' = [client EXCEPT ![u] = Head(pool[dep[u]])]
  /\ pool' = [pool EXCEPT ![dep[u]] = Tail(@)]
  /\ Goto(u, "call")
  /\ UNCHANGED <<up, cacheUp, bootVars, dep, rows>>

(* Faulty variant: a call that fails returns without its client. *)
CallDrops(u) ==
  /\ pc[u] = "call"
  /\ Goto(u, IF client[u] = "good" THEN "put" ELSE "idle")
  /\ client' = [client EXCEPT ![u] = IF @ = "good" THEN @ ELSE NoClient]
  /\ dep' = [dep EXCEPT ![u] = IF client[u] = "good" THEN @ ELSE Deps[1]]
  /\ UNCHANGED <<up, cacheUp, bootVars, pool, rows>>

(* GetIds answers, or the client is broken and the call fails. *)
Call(u) ==
  /\ pc[u] = "call"
  /\ Goto(u, "put")
  /\ UNCHANGED <<up, cacheUp, bootVars, pool, dep, client, rows>>

Finish(u) == Goto(u, "idle") /\ dep' = [dep EXCEPT ![u] = Deps[1]]

PutClient(u) ==
  /\ pc[u] = "put" /\ Len(pool[dep[u]]) < Clients
  /\ pool' = [pool EXCEPT ![dep[u]] = Append(@, client[u])]
  /\ client' = [client EXCEPT ![u] = NoClient]
  /\ Finish(u)
  /\ UNCHANGED <<up, cacheUp, bootVars, rows>>

(* Request and Ping of a MySqlBackConn wait for a connection of the sql.DB. *)
TakeConn(u) ==
  /\ pc[u] = "take" /\ Kind[dep[u]] = "mysql" /\ InUse(dep[u]) < MaxOpen
  /\ Goto(u, "query")
  /\ UNCHANGED <<up, cacheUp, bootVars, pool, dep, client, rows>>

(* The query is answered.  After an error, and after a ping, the           *)
(* connection is back at once.                                             *)
Query(u) ==
  /\ pc[u] = "query"
  /\ \/ Finish(u) /\ UNCHANGED rows
     \/ /\ u # PingTest /\ dep[u] \in up
        /\ \E n \in 0 .. MaxRows : rows' = [rows EXCEPT ![u] = n]
        /\ Goto(u, "rows") /\ UNCHANGED dep
  /\ UNCHANGED <<up, cacheUp, bootVars, pool, client>>

(* A row is read, and perhaps to be written back. *)
NextRow(u) ==
  /\ pc[u] = "rows" /\ rows[u] > 0
  /\ rows' = [rows EXCEPT ![u] = @ - 1]
  /\ Goto(u, "rows") \/ Goto(u, "exec")
  /\ UNCHANGED <<up, cacheUp, bootVars, pool, dep, client>>

(* Exec takes a connection of its own; its error is ignored. *)
BeginExec(u) ==
  /\ pc[u] = "exec" /\ InUse(dep[u]) < MaxOpen
  /\ Goto(u, "executing")
  /\ UNCHANGED <<up, cacheUp, bootVars, pool, dep, client, rows>>

EndExec(u) ==
  /\ pc[u] = "executing"
  /\ Goto(u, "rows")
  /\ UNCHANGED <<up, cacheUp, bootVars, pool, dep, client, rows>>

(* The end of the rows, or an error in one of them, closes them. *)
CloseRows(u) ==
  /\ pc[u] = "rows"
  /\ rows[u] = 0 \/ dep[u] \notin up
  /\ rows' = [rows EXCEPT ![u] = 0]
  /\ Finish(u)
  /\ UNCHANGED <<up, cacheUp, bootVars, pool, client>>

Ends(u) == Call(u) \/ PutClient(u) \/ Query(u) \/ NextRow(u) \/ EndExec(u) \/ CloseRows(u)
-----------------------------------------------------------------------------
(* A backend goes down: its clients are broken, those that nobody knows of *)
(* any more are closed at last.                                            *)
BackendDown(d) ==
  /\ d \in up
  /\ up' = up \ {d}
  /\ IF Kind[d] = "fb"
     THEN /\ pool' = [pool EXCEPT ![d] = [i \in DOMAIN @ |-> "broken"]]
          /\ client' = [u \in Users |->
               IF dep[u] = d /\ client[u] = "good" THEN "broken" ELSE client[u]]
          /\ leaked' = [leaked EXCEPT ![d] = 0]
     ELSE UNCHANGED <<pool, client, leaked>>
  /\ UNCHANGED <<cacheUp, boot, step, pc, dep, rows>>

BackendUp(d) ==
  /\ d \notin up
  /\ up' = up \cup {d}
  /\ UNCHANGED <<cacheUp, bootVars, pool, userVars>>

(* After the start this is the matter of Subquery. *)
CacheChanges ==
  /\ ~Booted
  /\ cacheUp' = ~cacheUp
  /\ UNCHANGED <<up, bootVars, pool, userVars>>

Next ==
  \/ InitSubSystems
  \/ \E u \in Users :
       Begin(u) \/ TakeClient(u) \/ TakeConn(u) \/ BeginExec(u) \/ Ends(u)
  \/ \E d \in Names : BackendDown(d) \/ BackendUp(d)
  \/ CacheChanges

Safety == Init /\ [][Next]_vars

(* The goroutines run, and every call ends: an fb backend answers or its   *)
(* connection breaks, the queries of a database time out.  A client and a  *)
(* connection are taken strongly fairly: Go serves those that wait for a   *)
(* channel first come, first served, and so does the sql.DB.               *)
Spec ==
  /\ Safety
  /\ WF_vars(InitSubSystems)
  /\ \A u \in Users :
       SF_vars(TakeClient(u)) /\ SF_vars(TakeConn(u)) /\ SF_vars(BeginExec(u)) /\ WF_vars(Ends(u))
-----------------------------------------------------------------------------
(* Every variable has its type; a database has no more connections in use  *)
(* than it may.                                                            *)
TypeOK ==
  /\ up \subseteq Names /\ cacheUp \in BOOLEAN
  /\ boot \in 1 .. Len(Deps) + 1 /\ step \in {"dial", "ping", "set"}
  /\ pool \in [Names -> Seq({"good", "broken"})] /\ \A d \in Names : Len(pool[d]) <= Clients
  /\ leaked \in [Names -> 0 .. MaxFiles]
  /\ pc \in [Users -> Busy \cup {"idle"}]
  /\ dep \in [Users -> Names]
  /\ client \in [Users -> {"good", "broken", NoClient}]
  /\ rows \in [Users -> 0 .. MaxRows]
  /\ \A d \in Names : InUse(d) <= MaxOpen

(* Once an fb subsystem is started, each of its clients is in the channel  *)
(* or with one user, however its calls end: so nobody ever blocks on       *)
(* putting one back.  And while its backend is down none of them works.    *)
ClientsAccounted ==
  \A i \in DOMAIN Deps : LET d == Deps[i] IN i < boot /\ Kind[d] = "fb" =>
    /\ Len(pool[d]) + Cardinality(On(d, {"call", "put"})) = Clients
    /\ d \notin up => \A u \in On(d, {"call", "put"}) : client[u] = "broken"

(* The start ends when the backends and the caches stay up at last, unless *)
(* the connections that failed attempts left open have used up the         *)
(* descriptors.                                                            *)
Started ==
  <>[](up = Names /\ cacheUp) => <>(Booted \/ SumFunction(leaked) + Clients > MaxFiles)

(* A subquery that has a slot, and a ping, ends, though queries hold one   *)
(* connection while they wait for another, and backends come and go.       *)
RequestsEnd == \A u \in Users : pc[u] = "take" ~> pc[u] = "idle"
=============================================================================

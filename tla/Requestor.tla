----------------------------- MODULE Requestor -----------------------------
(***************************************************************************)
(* The request generator (go/src/requestor/requestor.go).  InitHttp opens  *)
(* http clients and puts them into the channel clientPools; LoadGenerator  *)
(* starts a goroutine for each line of a trace, held up only while too     *)
(* many requests are scheduled and not sent; the goroutine takes a client, *)
(* posts, and puts the client back, but not after an error; LoadBalance    *)
(* takes one client after the other and puts back a new one.               *)
(***************************************************************************)
EXTENDS Integers, Sequences, FiniteSets

CONSTANTS
  Clients,   \* HttpMaxConcurrentReqs, also the capacity of clientPools
  Servers,   \* what /id answers, one for each application server
  NuApps,    \* the servers the clients are spread over (10)
  MaxTries,  \* clients opened at most to find a server with few of them (100)
  Ahead,     \* requests per client the generator may be ahead (1000)
  Traces     \* the traces, whose lines are requests or empty

ASSUME ClientsAssumption == Clients \in Nat \ {0} /\ NuApps \in Nat \ {0} /\ MaxTries \in Nat \ {0}
ASSUME AheadAssumption == Ahead \in Nat
ASSUME TracesAssumption == Traces \subseteq Seq({"request", "empty"})

VARIABLES
  trace,
  gen,        \* where main is
  line,       \* the next line
  pool,       \* clients in clientPools
  coupon, tries,  \* couponmap, and the loop variable j of InitHttp
  opened,     \* clients InitHttp has put into the pool
  request,    \* where the goroutine of a line is
  schedCount, sentCount,
  balancer,   \* where LoadBalance is
  lost        \* history: clients that were not put back

initVars  == <<coupon, tries, opened>>
countVars == <<schedCount, sentCount>>
loadVars == <<trace, gen, line, pool, initVars, request, countVars, balancer, lost>>

Lines == 1 .. Len(trace)
Bound == Clients \div NuApps
Backlog == Clients * Ahead

LoadInit ==
  /\ trace \in Traces
  /\ gen = "init"
  /\ line = 1
  /\ pool = 0
  /\ coupon = [s \in Servers |-> 0]
  /\ tries = 0
  /\ opened = 0
  /\ request = [r \in Lines |-> "unread"]
  /\ schedCount = 0 /\ sentCount = 0
  /\ balancer = "take"
  /\ lost = 0
-----------------------------------------------------------------------------
(* Faulty variant: one client more than the bound is kept of each server. *)
OpenOneMore(s) ==
  /\ gen = "init"
  /\ opened < Clients
  /\ coupon' = [coupon EXCEPT ![s] = IF @ <= Bound THEN @ + 1 ELSE @]
  /\ IF coupon[s] <= Bound \/ tries = MaxTries - 1
       THEN pool' = pool + 1 /\ opened' = opened + 1 /\ tries' = 0
       ELSE tries' = tries + 1 /\ UNCHANGED <<pool, opened>>
  /\ UNCHANGED <<trace, gen, line, request, countVars, balancer, lost>>

(* A new client is answered by a server.  It is kept if few clients are    *)
(* of that server, or at the last try; failed tries are repeated.          *)
OpenClient(s) ==
  /\ gen = "init"
  /\ opened < Clients
  /\ coupon' = [coupon EXCEPT ![s] = IF @ < Bound THEN @ + 1 ELSE @]
  /\ IF coupon[s] < Bound \/ tries = MaxTries - 1
       THEN pool' = pool + 1 /\ opened' = opened + 1 /\ tries' = 0
       ELSE tries' = tries + 1 /\ UNCHANGED <<pool, opened>>
  /\ UNCHANGED <<trace, gen, line, request, countVars, balancer, lost>>

StartLoad ==
  /\ gen = "init"
  /\ opened = Clients
  /\ gen' = "load"
  /\ UNCHANGED <<trace, line, pool, initVars, request, countVars, balancer, lost>>

(* The next line is due, and the generator not too far ahead. *)
Schedule ==
  /\ gen = "load"
  /\ line \in Lines
  /\ schedCount - sentCount <= Backlog
  /\ schedCount' = schedCount + 1
  /\ request' = [request EXCEPT ![line] = "started"]
  /\ line' = line + 1
  /\ UNCHANGED <<trace, gen, pool, initVars, sentCount, balancer, lost>>

EndOfTrace ==
  /\ gen = "load"
  /\ line \notin Lines
  /\ gen' = "wait"
  /\ UNCHANGED <<trace, line, pool, initVars, request, countVars, balancer, lost>>

(* wg.Wait(), after which the program ends. *)
FinishLoad ==
  /\ gen = "wait"
  /\ \A r \in Lines : request[r] = "done"
  /\ gen' = "done"
  /\ UNCHANGED <<trace, line, pool, initVars, request, countVars, balancer, lost>>
-----------------------------------------------------------------------------
(* An empty line is not sent. *)
SkipEmpty(r) ==
  /\ request[r] = "started"
  /\ trace[r] = "empty"
  /\ request' = [request EXCEPT ![r] = "done"]
  /\ UNCHANGED <<trace, gen, line, pool, initVars, countVars, balancer, lost>>

TakeClient(r) ==
  /\ request[r] = "started"
  /\ trace[r] = "request"
  /\ pool > 0
  /\ pool' = pool - 1
  /\ request' = [request EXCEPT ![r] = "posting"]
  /\ UNCHANGED <<trace, gen, line, initVars, countVars, balancer, lost>>

PostSucceeds(r) ==
  /\ request[r] = "posting"
  /\ sentCount' = sentCount + 1
  /\ request' = [request EXCEPT ![r] = "answered"]
  /\ UNCHANGED <<trace, gen, line, pool, initVars, schedCount, balancer, lost>>

(* Faulty variant: only what was answered is counted as sent. *)
PostFailsUncounted(r) ==
  /\ request[r] = "posting"
  /\ lost' = lost + 1
  /\ request' = [request EXCEPT ![r] = "done"]
  /\ UNCHANGED <<trace, gen, line, pool, initVars, countVars, balancer>>

(* The early return leaves the client out of the pool. *)
PostFails(r) ==
  /\ request[r] = "posting"
  /\ sentCount' = sentCount + 1
  /\ lost' = lost + 1
  /\ request' = [request EXCEPT ![r] = "done"]
  /\ UNCHANGED <<trace, gen, line, pool, initVars, schedCount, balancer>>

ReturnClient(r) ==
  /\ request[r] = "answered"
  /\ pool < Clients
  /\ pool' = pool + 1
  /\ request' = [request EXCEPT ![r] = "done"]
  /\ UNCHANGED <<trace, gen, line, initVars, countVars, balancer, lost>>
-----------------------------------------------------------------------------
(* LoadBalance runs from the start of the load to the end of the program.  *)
BalancerTakes ==
  /\ gen \in {"load", "wait"}
  /\ balancer = "take"
  /\ pool > 0
  /\ pool' = pool - 1
  /\ balancer' = "dial"
  /\ UNCHANGED <<trace, gen, line, initVars, request, countVars, lost>>

(* Faulty variant: a client that was not reached is given up. *)
BalancerGivesUp ==
  /\ gen \in {"load", "wait"}
  /\ balancer = "dial"
  /\ balancer' \in {"put", "take"}
  /\ UNCHANGED <<trace, gen, line, pool, initVars, request, countVars, lost>>

(* A server has answered the new client, at the first or a later try. *)
BalancerDials ==
  /\ gen \in {"load", "wait"}
  /\ balancer = "dial"
  /\ balancer' = "put"
  /\ UNCHANGED <<trace, gen, line, pool, initVars, request, countVars, lost>>

(* Faulty variant: the old client is put back with the new one. *)
BalancerPutsBoth ==
  /\ gen \in {"load", "wait"}
  /\ balancer = "put"
  /\ pool' = pool + 2
  /\ balancer' = "take"
  /\ UNCHANGED <<trace, gen, line, initVars, request, countVars, lost>>

BalancerPuts ==
  /\ gen \in {"load", "wait"}
  /\ balancer = "put"
  /\ pool < Clients
  /\ pool' = pool + 1
  /\ balancer' = "take"
  /\ UNCHANGED <<trace, gen, line, initVars, request, countVars, lost>>
-----------------------------------------------------------------------------
Main == (\E s \in Servers : OpenClient(s)) \/ StartLoad \/ Schedule \/ EndOfTrace \/ FinishLoad
Post(r) == PostSucceeds(r) \/ PostFails(r)
Balance == BalancerTakes \/ BalancerDials \/ BalancerPuts

LoadNext ==
  \/ Main
  \/ \E r \in Lines : SkipEmpty(r) \/ TakeClient(r) \/ Post(r) \/ ReturnClient(r)
  \/ Balance

LoadSafety == LoadInit /\ [][LoadNext]_loadVars

(* The goroutines run, a post ends somehow, and an application server      *)
(* answers a new client at some try.  Taking a client is strongly fair: Go *)
(* serves the receivers that wait on a channel first come, first served.   *)
LoadSpec ==
  /\ LoadSafety
  /\ WF_loadVars(Main)
  /\ WF_loadVars(BalancerDials) /\ WF_loadVars(BalancerPuts)
  /\ \A r \in UNION {DOMAIN t : t \in Traces} :
       /\ WF_loadVars(r \in Lines /\ (SkipEmpty(r) \/ Post(r) \/ ReturnClient(r)))
       /\ SF_loadVars(r \in Lines /\ TakeClient(r))
-----------------------------------------------------------------------------
(* The requests that have a client, or are to be sent, and the empty lines. *)
Using   == {r \in Lines : request[r] \in {"posting", "answered"}}
Unsent  == {r \in Lines : trace[r] = "request" /\ request[r] \in {"started", "posting"}}
Skipped == {r \in Lines : trace[r] = "empty" /\ request[r] # "unread"}

(* Every variable has its type. *)
LoadTypeOK ==
  /\ trace \in Traces
  /\ gen \in {"init", "load", "wait", "done"}
  /\ line \in 1 .. Len(trace) + 1
  /\ pool \in 0 .. Clients
  /\ coupon \in [Servers -> 0 .. Bound]
  /\ tries \in 0 .. MaxTries - 1
  /\ opened \in 0 .. Clients
  /\ request \in [Lines -> {"unread", "started", "posting", "answered", "done"}]
  /\ schedCount \in Nat /\ sentCount \in Nat
  /\ balancer \in {"take", "dial", "put"}
  /\ lost \in Nat

(* Every client that was opened is in the pool, with a request, with the   *)
(* balancer, or lost to a failed post: each is in one place, so that no    *)
(* more than Clients posts are under way.                                  *)
ClientsAccounted ==
  opened = pool + Cardinality(Using) + (IF balancer = "take" THEN 0 ELSE 1) + lost

(* Neither a request nor the balancer nor InitHttp blocks on putting a     *)
(* client into the channel.                                                *)
Putting == balancer = "put" \/ opened < Clients \/ \E r \in Lines : request[r] = "answered"
PutNeverBlocks == Putting => pool < Clients

(* The difference of the unsigned counters that closes the loop is the     *)
(* number of unsent requests and of the empty lines so far; it never wraps *)
(* around.                                                                 *)
BacklogCounted == schedCount - sentCount = Cardinality(Unsent) + Cardinality(Skipped)

(* The generator gets through the trace and ends, unless every single      *)
(* client is lost, or empty lines, which are never sent, have closed the   *)
(* loop.                                                                   *)
Completes == <>(gen = "done" \/ lost = Clients \/ Cardinality(Skipped) > Backlog)

(* What the comment "Wait for completion" above wg.Wait() says: that the   *)
(* wait ends.                                                              *)
WaitEnds == gen = "wait" ~> gen = "done"
=============================================================================

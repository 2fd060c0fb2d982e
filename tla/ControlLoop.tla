----------------------------- MODULE ControlLoop -----------------------------
(***************************************************************************)
(* How the memory limits that the controllers set reach the shadow caches  *)
(* of the application servers.  Every 5 seconds a controller collects the  *)
(* limits of its caches and posts them to the statistics server            *)
(* (nuapp/src/controller.py), which keeps the last ones of every           *)
(* controller (go/src/statserver/statserver.go).  They travel on in the    *)
(* answer to the measurements of an application server, which sizes its    *)
(* shadow caches by their average (nuapp/src/subquery/subquery.go).        *)
(*                                                                         *)
(* One backend is modelled, the others are treated alike; a controller has *)
(* one cache for it (CACHE_ADDR).  A limit is the number of times it was   *)
(* changed.  CopyMemStat appends to a slice of the table, and so into the  *)
(* spare room of an array that earlier answers may still be encoded from:  *)
(* the arrays are modelled, not only the limits in them.                   *)
(***************************************************************************)
EXTENDS Integers, FiniteSets, Sequences, SequencesExt, Functions

CONSTANTS
  Controllers,
  Servers,       \* application servers
  Cap,           \* room in an array that a single limit was decoded into (4)
  MaxChanges,    \* bound: changes of the limits
  MaxCuts,       \* bound: posts of limits cut off
  MaxRestarts    \* bound: restarts of the statistics server

ASSUME SetsAssumption == IsFiniteSet(Controllers) /\ IsFiniteSet(Servers)
ASSUME CapAssumption == Cap \in Nat \ {0}
ASSUME BoundsAssumption == {MaxChanges, MaxCuts, MaxRestarts} \subseteq Nat

Empty == [of |-> "nobody", limit |-> 0]    \* an unused place of an array
Items == [of : Controllers, limit : 0 .. MaxChanges]
ASSUME NobodyAssumption == Empty.of \notin Controllers

VARIABLES
  limit,         \* the limit of each controller's cache
  CurMemLimits,  \* the array of each controller's limits, <<>> before the first
  CurMemLimitOrder,
  pc,            \* where the post of each application server is
  answer,        \* the slice that is encoded
  out,           \* what of it is encoded
  floor,         \* history: what the table held when the answer was copied
  basis,         \* what the shadow caches are sized by
  cuts, restarts

tableVars  == <<CurMemLimits, CurMemLimitOrder>>
answerVars == <<pc, answer, out, floor>>
boundVars  == <<cuts, restarts>>
vars == <<limit, tableVars, answerVars, basis, boundVars>>

(* A slice of an array of the table, or of one that is no longer there and *)
(* that nobody writes to.                                                  *)
SliceOf(c, n) == [array |-> {c}, len |-> n, items |-> <<>>]
Slice(items)  == [array |-> {}, len |-> Len(items), items |-> items]

Init ==
  /\ limit = [c \in Controllers |-> 0]
  /\ CurMemLimits = [c \in Controllers |-> <<>>]
  /\ CurMemLimitOrder = <<>>
  /\ pc = [s \in Servers |-> "measure"]
  /\ answer = [s \in Servers |-> Slice(<<>>)]
  /\ out = [s \in Servers |-> <<>>]
  /\ floor = [s \in Servers |-> {}]
  /\ basis = [s \in Servers |-> <<>>]
  /\ cuts = 0 /\ restarts = 0

Registered == ToSet(CurMemLimitOrder)
Item(a, k) == IF a.array = {} THEN a.items[k] ELSE CurMemLimits[CHOOSE c \in a.array : TRUE][k]
-----------------------------------------------------------------------------
(* The controller, see Controller, changes the limit of its cache. *)
ChangeLimit(c) ==
  /\ SumFunction(limit) < MaxChanges
  /\ limit' = [limit EXCEPT ![c] = @ + 1]
  /\ UNCHANGED <<tableVars, answerVars, basis, boundVars>>

(* Faulty variants: a controller is moved to the end of the order with     *)
(* every post; it is registered anew with every post.                      *)
RegisterLast(c) ==
  CurMemLimitOrder' = Append(SelectSeq(CurMemLimitOrder, LAMBDA d : d # c), c)
RegisterAgain(c) == CurMemLimitOrder' = Append(CurMemLimitOrder, c)

(* The order in which controllers were first seen. *)
Register(c) ==
  CurMemLimitOrder' = IF c \in Registered THEN CurMemLimitOrder ELSE Append(CurMemLimitOrder, c)

Decoded(c) == [k \in 1 .. Cap |-> IF k = 1 THEN [of |-> c, limit |-> limit[c]] ELSE Empty]

(* Faulty variant: a controller that was seen before keeps its limits. *)
PutMemOnce(c) ==
  /\ Register(c)
  /\ CurMemLimits' = IF c \in Registered THEN CurMemLimits ELSE [CurMemLimits EXCEPT ![c] = Decoded(c)]
  /\ UNCHANGED <<limit, answerVars, basis, boundVars>>

(* send_stats of the controller and PutMemHandler of the server, which     *)
(* keeps the new limits in the array they came in.  A limit that changes   *)
(* between its collection and the lock is as good as one that changes      *)
(* afterwards; a post that fails changes nothing, and thread_loop goes on. *)
PutMem(c) ==
  /\ Register(c)
  /\ CurMemLimits' = [CurMemLimits EXCEPT ![c] = Decoded(c)]
  /\ answer' = [s \in Servers |->
       IF c \in answer[s].array THEN Slice(SubSeq(CurMemLimits[c], 1, answer[s].len)) ELSE answer[s]]
  /\ UNCHANGED <<limit, pc, out, floor, basis, boundVars>>

(* A body that is cut off is answered with ok; all it does is to register  *)
(* the controller.                                                         *)
PutMemCut(c) ==
  /\ cuts < MaxCuts
  /\ Register(c)
  /\ cuts' = cuts + 1
  /\ UNCHANGED <<limit, CurMemLimits, answerVars, basis, restarts>>
-----------------------------------------------------------------------------
(* The controllers that have limits, in that order, and their limits. *)
Known == {k \in DOMAIN CurMemLimitOrder : CurMemLimits[CurMemLimitOrder[k]] # <<>>}
Nth(n) == CHOOSE k \in Known : Cardinality({j \in Known : j <= k}) = n
Entries == [n \in 1 .. Cardinality(Known) |-> CurMemLimitOrder[Nth(n)]]
All == [k \in DOMAIN Entries |-> CurMemLimits[Entries[k]][1]]

(* What CopyMemStat leaves in the array of the first controller: the       *)
(* limits of the others, as far as there is room for them.                 *)
Appended ==
  IF Entries = <<>> THEN CurMemLimits
  ELSE [CurMemLimits EXCEPT ![Entries[1]] =
          [k \in 1 .. Cap |-> IF k \in DOMAIN All THEN All[k] ELSE @[k]]]

(* If there is not, append has moved all of them to a new array. *)
CopyMemStat ==
  IF Len(All) \in 1 .. Cap THEN SliceOf(Entries[1], Len(All)) ELSE Slice(All)

(* An application server posts its measurements, see StatServer, and the   *)
(* handler copies the limits, under the lock.                              *)
PutStats(s) ==
  /\ pc[s] = "measure"
  /\ pc' = [pc EXCEPT ![s] = "encode"]
  /\ floor' = [floor EXCEPT ![s] = ToSet(All)]
  /\ answer' = [answer EXCEPT ![s] = CopyMemStat]
  /\ CurMemLimits' = Appended
  /\ UNCHANGED <<limit, CurMemLimitOrder, out, basis, boundVars>>

(* RecomputeStats and GetMemHandler copy them as well. *)
CopyAside ==
  /\ CurMemLimits' = Appended
  /\ UNCHANGED <<limit, CurMemLimitOrder, answerVars, basis, boundVars>>

(* The answer is encoded item by item, without the lock. *)
Encode(s) ==
  /\ pc[s] = "encode"
  /\ Len(out[s]) < answer[s].len
  /\ out' = [out EXCEPT ![s] = Append(@, Item(answer[s], Len(@) + 1))]
  /\ UNCHANGED <<limit, tableVars, pc, answer, floor, basis, boundVars>>

EndPost(s) ==
  /\ pc' = [pc EXCEPT ![s] = "measure"]
  /\ out' = [out EXCEPT ![s] = <<>>]
  /\ floor' = [floor EXCEPT ![s] = {}]
  /\ answer' = [answer EXCEPT ![s] = Slice(<<>>)]

(* reportLatency sizes the shadow caches of every backend in the answer. *)
SetCapacities(s) ==
  /\ pc[s] = "encode" /\ Len(out[s]) = answer[s].len
  /\ basis' = [basis EXCEPT ![s] = IF out[s] = <<>> THEN @ ELSE out[s]]
  /\ EndPost(s)
  /\ UNCHANGED <<limit, tableVars, boundVars>>

(* A post that fails is given up: it is as good as not encoded at all. *)
PutStatsFails(s) ==
  /\ pc[s] = "encode" /\ out[s] = <<>>
  /\ EndPost(s)
  /\ UNCHANGED <<limit, tableVars, basis, boundVars>>

(* The statistics server starts anew and knows nothing; all posts fail. *)
Restart ==
  /\ restarts < MaxRestarts
  /\ restarts' = restarts + 1
  /\ CurMemLimits' = [c \in Controllers |-> <<>>]
  /\ CurMemLimitOrder' = <<>>
  /\ pc' = [s \in Servers |-> "measure"]
  /\ answer' = [s \in Servers |-> Slice(<<>>)]
  /\ out' = [s \in Servers |-> <<>>]
  /\ floor' = [s \in Servers |-> {}]
  /\ UNCHANGED <<limit, basis, cuts>>

Next ==
  \/ \E c \in Controllers :
       ChangeLimit(c) \/ PutMem(c) \/ PutMemCut(c)
  \/ CopyAside
  \/ \E s \in Servers : PutStats(s) \/ Encode(s) \/ SetCapacities(s) \/ PutStatsFails(s)
  \/ Restart

Safety == Init /\ [][Next]_vars

(* The loops of the controllers and of the application servers run,        *)
(* PingTest sees to it that there are measurements to post, and not every  *)
(* post fails.                                                             *)
Spec ==
  /\ Safety
  /\ \A c \in Controllers : WF_vars(PutMem(c))
  /\ \A s \in Servers : WF_vars(PutStats(s)) /\ SF_vars(Encode(s)) /\ WF_vars(SetCapacities(s))
-----------------------------------------------------------------------------
(* Every variable has its type, and what is referred to is there. *)
TypeOK ==
  /\ limit \in [Controllers -> 0 .. MaxChanges]
  /\ CurMemLimitOrder \in Seq(Controllers) /\ IsInjective(CurMemLimitOrder)
  /\ CurMemLimits \in [Controllers -> {<<>>} \cup [1 .. Cap -> Items \cup {Empty}]]
  /\ \A c \in Controllers : CurMemLimits[c] # <<>> =>
       c \in Registered /\ CurMemLimits[c][1] \in Items /\ CurMemLimits[c][1].of = c
  /\ pc \in [Servers -> {"measure", "encode"}]
  /\ answer \in [Servers -> [array : SUBSET Controllers, len : Nat, items : Seq(Items)]]
  /\ out \in [Servers -> Seq(Items)]
  /\ floor \in [Servers -> SUBSET Items]
  /\ basis \in [Servers -> Seq(Items)]
  /\ cuts \in 0 .. MaxCuts /\ restarts \in 0 .. MaxRestarts

(* The answer is encoded without the lock, from an array that the next     *)
(* copies write into.  As long as no post of a controller was cut off,     *)
(* it still has the limits of every controller that had any when it        *)
(* was copied, once each, and none older than they were then.              *)
AnswerWhole ==
  cuts = 0 => \A s \in Servers : pc[s] = "encode" /\ Len(out[s]) = answer[s].len =>
    /\ \A item \in floor[s] : \E k \in DOMAIN out[s] :
         out[s][k].of = item.of /\ out[s][k].limit >= item.limit
    /\ \A j, k \in DOMAIN out[s] : out[s][j].of = out[s][k].of => j = k

(* Once the limits rest, every application server gets to know them all,   *)
(* through lost posts and a restart of the statistics server.              *)
CapacitiesFollow ==
  <>[](\A s \in Servers : ToSet(basis[s]) = {[of |-> c, limit |-> limit[c]] : c \in Controllers})
=============================================================================

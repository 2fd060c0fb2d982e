---------------------------- MODULE Measurements ----------------------------
(***************************************************************************)
(* The measurement channels of an application server                       *)
(* (nuapp/src/subquery/subquery.go).  Many goroutines fill them: the tail  *)
(* of every ExecuteSubquery sends one latency per key to                   *)
(* latencyMeasurements and, after a look at its length, one query to       *)
(* querySequence; every ParseRequest sends one latency and counts itself   *)
(* in reqCount; PingTest sends a latency after a look at the length.  One  *)
(* goroutine empties each channel: reportLatency posts batches to the      *)
(* statistics server, processQueries feeds the shadow caches.              *)
(***************************************************************************)
EXTENDS Integers, FiniteSets

CONSTANTS
  Workers,         \* the subqueries there may be at a time
  Requests,        \* calls of ParseRequest
  MaxKeys,         \* keys of a subquery
  LatCap,          \* capacity of latencyMeasurements (10000000)
  PingLimit,       \* length from which PingTest does not send (9000000)
  QueryCap,        \* capacity of querySequence (100000)
  QueryThreshold   \* length from which a tail does not send (90000)

ASSUME WorkersAssumption == IsFiniteSet(Workers) /\ IsFiniteSet(Requests) /\ MaxKeys \in Nat
ASSUME LatAssumption == LatCap \in Nat \ {0} /\ PingLimit \in 0 .. LatCap
ASSUME QueryAssumption == QueryCap \in Nat /\ QueryThreshold \in 1 .. QueryCap

VARIABLES
  at,           \* where a tail is
  keys,         \* the keys it has still to report
  request,      \* where a request is
  ping,         \* where PingTest is
  latQ,         \* length of latencyMeasurements
  queryQ,       \* length of querySequence
  crowd,        \* history: the tails about to push when it last was below the threshold
  reporter,     \* where reportLatency is
  batch,        \* what it has still to take of the measCount it looked up
  reqCount, reqCountSum,
  rc,           \* what reportLatency loaded from reqCount
  started       \* history: requests that have counted themselves

tailVars     == <<at, keys>>
sequenceVars == <<queryQ, crowd>>
countVars    == <<reqCount, reqCountSum, rc, started>>
reporterVars == <<reporter, batch>>
channelVars  == <<tailVars, request, ping, latQ, sequenceVars, reporterVars, countVars>>

ChannelInit ==
  /\ at = [w \in Workers |-> "subquery"]
  /\ keys = [w \in Workers |-> 0]
  /\ request = [r \in Requests |-> "new"]
  /\ ping = "look"
  /\ latQ = 0
  /\ queryQ = 0
  /\ crowd = 0
  /\ reporter = "len"
  /\ batch = 0
  /\ reqCount = 0
  /\ reqCountSum = 0
  /\ rc = 0
  /\ started = 0

(* A send on latencyMeasurements, which blocks while the channel is full. *)
SendMeasurement == latQ < LatCap /\ latQ' = latQ + 1

(* The tail moves on to its next key; after the last one the goroutine     *)
(* ends, and there is room for another subquery.                           *)
NextKey(w) ==
  /\ keys' = [keys EXCEPT ![w] = @ - 1]
  /\ at' = [at EXCEPT ![w] = IF keys[w] = 1 THEN "subquery" ELSE "latency"]

(* The tails that have looked at the length of querySequence and not yet   *)
(* pushed.                                                                 *)
Pushers == {w \in Workers : at[w] = "push"}

NoteCrowd == crowd' = IF queryQ' < QueryThreshold THEN Cardinality(Pushers') ELSE crowd
-----------------------------------------------------------------------------
(* A subquery has sent its result to its request; without keys there is    *)
(* nothing left to do.                                                     *)
BeginTail(w) ==
  /\ at[w] = "subquery"
  /\ \E n \in 1 .. MaxKeys : keys' = [keys EXCEPT ![w] = n]
  /\ at' = [at EXCEPT ![w] = "latency"]
  /\ UNCHANGED <<request, ping, latQ, sequenceVars, reporterVars, countVars>>

SendLatency(w) ==
  /\ at[w] = "latency"
  /\ SendMeasurement
  /\ at' = [at EXCEPT ![w] = "look"]
  /\ UNCHANGED <<keys, request, ping, sequenceVars, reporterVars, countVars>>

(* Faulty variant: the length is not looked at. *)
LookNot(w) ==
  /\ at[w] = "look"
  /\ at' = [at EXCEPT ![w] = "push"]
  /\ UNCHANGED <<keys, request, ping, latQ, queryQ, reporterVars, countVars>>
  /\ NoteCrowd

(* The length is looked at; by the time of the push it may be another. *)
LookAtQueries(w) ==
  /\ at[w] = "look"
  /\ IF queryQ < QueryThreshold
       THEN at' = [at EXCEPT ![w] = "push"] /\ UNCHANGED keys
       ELSE NextKey(w)
  /\ UNCHANGED <<request, ping, latQ, queryQ, reporterVars, countVars>>
  /\ NoteCrowd

PushQuery(w) ==
  /\ at[w] = "push"
  /\ queryQ < QueryCap
  /\ queryQ' = queryQ + 1
  /\ NextKey(w)
  /\ UNCHANGED <<request, ping, latQ, reporterVars, countVars>>
  /\ NoteCrowd

(* processQueries. *)
ProcessQuery ==
  /\ queryQ > 0
  /\ queryQ' = queryQ - 1
  /\ UNCHANGED <<tailVars, request, ping, latQ, reporterVars, countVars>>
  /\ NoteCrowd

(* The first and the last step of ParseRequest. *)
CountRequest(r) ==
  /\ request[r] = "new"
  /\ request' = [request EXCEPT ![r] = "running"]
  /\ reqCount' = reqCount + 1
  /\ started' = started + 1
  /\ UNCHANGED <<tailVars, ping, latQ, sequenceVars, reporterVars, reqCountSum, rc>>

SendRequest(r) ==
  /\ request[r] = "running"
  /\ SendMeasurement
  /\ request' = [request EXCEPT ![r] = "done"]
  /\ UNCHANGED <<tailVars, ping, sequenceVars, reporterVars, countVars>>

(* PingTest, whose only other effects are its pings. *)
PingLook ==
  /\ ping = "look"
  /\ latQ < PingLimit
  /\ ping' = "send"
  /\ UNCHANGED <<tailVars, request, latQ, sequenceVars, reporterVars, countVars>>

PingSend ==
  /\ ping = "send"
  /\ SendMeasurement
  /\ ping' = "look"
  /\ UNCHANGED <<tailVars, request, sequenceVars, reporterVars, countVars>>
-----------------------------------------------------------------------------
(* Faulty variant: one more is taken than was there. *)
LookUpOneMore ==
  /\ reporter = "len"
  /\ batch' = latQ + 1
  /\ reporter' = IF latQ > 0 THEN "take" ELSE "load"
  /\ UNCHANGED <<tailVars, request, ping, latQ, sequenceVars, countVars>>

(* reportLatency: the length is looked up once, and that many are taken. *)
LookUpCount ==
  /\ reporter = "len"
  /\ batch' = latQ
  /\ reporter' = IF latQ > 0 THEN "take" ELSE "load"
  /\ UNCHANGED <<tailVars, request, ping, latQ, sequenceVars, countVars>>

Take ==
  /\ reporter = "take"
  /\ latQ > 0
  /\ latQ' = latQ - 1
  /\ batch' = batch - 1
  /\ reporter' = IF batch = 1 THEN "post" ELSE "take"
  /\ UNCHANGED <<tailVars, request, ping, sequenceVars, countVars>>

PostSucceeds ==
  /\ reporter = "post"
  /\ reporter' = "load"
  /\ UNCHANGED <<tailVars, request, ping, latQ, sequenceVars, batch, countVars>>

(* Faulty variant: a failed post is returned from, not continued after. *)
PostGivesUp ==
  /\ reporter = "post"
  /\ reporter' = "stopped"
  /\ UNCHANGED <<tailVars, request, ping, latQ, sequenceVars, batch, countVars>>

(* The batch is lost, and the loop starts over at once. *)
PostFails ==
  /\ reporter = "post"
  /\ reporter' = "len"
  /\ UNCHANGED <<tailVars, request, ping, latQ, sequenceVars, batch, countVars>>

LoadCount ==
  /\ reporter = "load"
  /\ rc' = reqCount
  /\ reporter' = "store"
  /\ UNCHANGED <<tailVars, request, ping, latQ, sequenceVars, batch,
                 reqCount, reqCountSum, started>>

(* Faulty variant: the counter is not set back. *)
StoreNothing ==
  /\ reporter = "store"
  /\ reporter' = "sum"
  /\ UNCHANGED <<tailVars, request, ping, latQ, sequenceVars, batch, countVars>>

(* Requests counted between the load and the store are forgotten. *)
StoreZero ==
  /\ reporter = "store"
  /\ reqCount' = 0
  /\ reporter' = "sum"
  /\ UNCHANGED <<tailVars, request, ping, latQ, sequenceVars, batch, reqCountSum, rc, started>>

SumUp ==
  /\ reporter = "sum"
  /\ reqCountSum' = reqCountSum + rc
  /\ reporter' = "len"
  /\ UNCHANGED <<tailVars, request, ping, latQ, sequenceVars, batch, reqCount, rc, started>>
-----------------------------------------------------------------------------
TailStep(w) == LookAtQueries(w) \/ PushQuery(w)
Post    == PostSucceeds \/ PostFails
Count   == LoadCount \/ StoreZero \/ SumUp

ChannelNext ==
  \/ \E w \in Workers : BeginTail(w) \/ SendLatency(w) \/ TailStep(w)
  \/ \E r \in Requests : CountRequest(r) \/ SendRequest(r)
  \/ ProcessQuery \/ PingLook \/ PingSend
  \/ LookUpCount \/ Take \/ Post \/ Count

ChannelSafety == ChannelInit /\ [][ChannelNext]_channelVars

(* The goroutines run, and a post to the statistics server ends somehow.   *)
(* A send is strongly fair: Go serves the senders that wait on a channel   *)
(* first come, first served.                                               *)
ChannelSpec ==
  /\ ChannelSafety
  /\ \A w \in Workers : /\ SF_channelVars(SendLatency(w)) /\ SF_channelVars(PushQuery(w))
                        /\ WF_channelVars(LookAtQueries(w))
  /\ WF_channelVars(ProcessQuery)
  /\ WF_channelVars(LookUpCount \/ Take \/ Post \/ Count)
-----------------------------------------------------------------------------
(* Every variable has its type; both channels stay within their capacity. *)
ChannelTypeOK ==
  /\ at \in [Workers -> {"subquery", "latency", "look", "push"}]
  /\ keys \in [Workers -> 0 .. MaxKeys]
  /\ request \in [Requests -> {"new", "running", "done"}]
  /\ ping \in {"look", "send"}
  /\ latQ \in 0 .. LatCap
  /\ queryQ \in 0 .. QueryCap
  /\ crowd \in 0 .. Cardinality(Workers)
  /\ reporter \in {"len", "take", "post", "load", "store", "sum"}
  /\ batch \in 0 .. LatCap
  /\ reqCount \in Nat /\ reqCountSum \in Nat /\ rc \in Nat /\ started \in Nat

(* The look at the length and the push are two steps, and any number of    *)
(* tails may take them at once.  The room above the threshold is for as    *)
(* many tails as fit there and one more: only if more than these were      *)
(* between the two steps when the queue was last below the threshold does  *)
(* a tail find it full.                                                    *)
PushHasRoom ==
  Pushers # {} /\ crowd <= QueryCap - QueryThreshold + 1 => queryQ < QueryCap

(* reportLatency never blocks on the channel it empties: what it looked up *)
(* is still there, however many send meanwhile.                            *)
TakeNeverBlocks == reporter = "take" => batch > 0 /\ batch <= latQ

(* Neither a push to the shadow caches' queue by one of no more tails than *)
(* there is room for nor a receive of reportLatency ever blocks, though    *)
(* each relies on a length looked at some steps before.                    *)
StaleLengthsSuffice == PushHasRoom /\ TakeNeverBlocks

(* The counter is read and set back in two steps; requests may get lost    *)
(* between them, but none is counted twice.                                *)
NeverCountedTwice ==
  reqCountSum + reqCount + (IF reporter = "sum" THEN rc ELSE 0) <= started

(* A tail ends, with full channels, a statistics server that fails and     *)
(* more tails than querySequence has room for.                             *)
TailsEnd == \A w \in Workers : at[w] = "latency" ~> at[w] = "subquery"
=============================================================================

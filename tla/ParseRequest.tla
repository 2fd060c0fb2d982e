---------------------------- MODULE ParseRequest ----------------------------
(***************************************************************************)
(* One call of ParseRequest (nuapp/src/subquery/subquery.go): the          *)
(* goroutine that walks the layers of a request, starts one                *)
(* ExecuteSubquery goroutine for every known dependency of a layer,        *)
(* collects their results from the buffered channel doneDeps with a timer  *)
(* on every receive, and reports one measurement of type "req".  Calls     *)
(* share nothing but the subsystems, so one call is modelled; what a       *)
(* subquery does is in Subquery, here it only ends, at any time or never.  *)
(***************************************************************************)
EXTENDS Integers, Sequences, FiniteSets

CONSTANTS
  Subs,       \* the configured subsystems
  Names,      \* the dependency names a request may hold
  NoDep,      \* the empty string
  NoOutcome,  \* nothing reported yet
  Plans,      \* the layer sequences of the requests
  DoneCap,    \* capacity of doneDeps (100)
  Timeout     \* ticks in the ten seconds of the receive timer

ASSUME SubsAssumption ==
  /\ IsFiniteSet(Subs)
  /\ Subs \subseteq Names
  /\ NoDep \notin Names
ASSUME PlansAssumption == Plans \subseteq Seq(SUBSET Names)
ASSUME OutcomeAssumption ==
  \A s \in {-1, 0, 1}, d \in Names \cup {NoDep} : NoOutcome # [st |-> s, cp |-> d]
ASSUME DoneCapAssumption == DoneCap \in Nat /\ Cardinality(Subs) <= DoneCap
ASSUME TimeoutAssumption == Timeout \in Nat \ {0}

VARIABLES
  layers,       \* the request
  layer,        \* the loop variable i + 1
  pc,           \* where the goroutine of ParseRequest is
  waiting,      \* the map waiting: dispatched and not yet received
  running,      \* the ExecuteSubquery goroutines that have not sent a result
  doneDeps,     \* the buffered channel
  reqState, slowestDep, slowestLat,
  timer,        \* ticks since the select was entered
  age,          \* ticks since startTime
  got,          \* history: the results received, with the layer they are of
  outcome,      \* status and critical path of the measurement reported
  responseTime  \* its latency

requestVars == <<layer, pc, waiting, reqState, slowestDep, slowestLat, got>>
clockVars   == <<timer, age>>
reportVars  == <<outcome, responseTime>>
vars == <<layers, running, doneDeps, requestVars, clockVars, reportVars>>

Hit   == 1
Miss  == 0
Error == -1

(* What a subquery may report once `age` ticks have passed.  An error is   *)
(* stamped with ten seconds, whenever it happens; a bypassed subquery      *)
(* without urls is a hit whose latency was taken of a zero time.           *)
Results(d) ==
       [tp : {d}, st : {Error}, lat : {Timeout}]
  \cup [tp : {d}, st : {Hit, Miss}, lat : 1 .. age + 1]
  \cup [tp : {d}, st : {Hit}, lat : {-1}]

Init ==
  /\ layers \in Plans
  /\ layer = 1
  /\ pc = "layers"
  /\ waiting = {}
  /\ running = {}
  /\ doneDeps = <<>>
  /\ reqState = Hit
  /\ slowestDep = NoDep
  /\ slowestLat = 0
  /\ timer = 0
  /\ age = 0
  /\ got = {}
  /\ outcome = NoOutcome
  /\ responseTime = 0

(* A layer that names no known dependency is skipped. *)
SkipLayer ==
  /\ pc = "layers"
  /\ layer <= Len(layers)
  /\ layers[layer] \cap Subs = {}
  /\ layer' = layer + 1
  /\ UNCHANGED <<layers, running, doneDeps, pc, waiting, reqState, slowestDep,
                 slowestLat, got, clockVars, reportVars>>

(* Faulty variant: names that are no subsystem are waited for as well. *)
DispatchUnknown ==
  /\ pc = "layers"
  /\ layer <= Len(layers)
  /\ layers[layer] \cap Subs # {}
  /\ waiting' = waiting \cup layers[layer]
  /\ running' = running \cup (layers[layer] \cap Subs)
  /\ pc' = "wait"
  /\ timer' = 0
  /\ UNCHANGED <<layers, doneDeps, layer, reqState, slowestDep, slowestLat, got,
                 age, reportVars>>

(* Faulty variant: the next layer is started without waiting. *)
DispatchNoWait ==
  /\ pc = "layers"
  /\ layer <= Len(layers)
  /\ layers[layer] \cap Subs # {}
  /\ waiting' = waiting \cup (layers[layer] \cap Subs)
  /\ running' = running \cup (layers[layer] \cap Subs)
  /\ pc' = IF layer = Len(layers) THEN "wait" ELSE "layers"
  /\ layer' = IF layer = Len(layers) THEN layer ELSE layer + 1
  /\ timer' = 0
  /\ UNCHANGED <<layers, doneDeps, reqState, slowestDep, slowestLat, got, age,
                 reportVars>>

(* All known dependencies of a layer are started at once. *)
Dispatch ==
  /\ pc = "layers"
  /\ layer <= Len(layers)
  /\ layers[layer] \cap Subs # {}
  /\ waiting' = waiting \cup (layers[layer] \cap Subs)
  /\ running' = running \cup (layers[layer] \cap Subs)
  /\ pc' = "wait"
  /\ timer' = 0
  /\ UNCHANGED <<layers, doneDeps, layer, reqState, slowestDep, slowestLat, got,
                 age, reportVars>>

(* The send at the end of ExecuteSubquery, into a channel with room. *)
SubqueryReport(d) ==
  /\ d \in running
  /\ Len(doneDeps) < DoneCap
  /\ \E r \in Results(d) : doneDeps' = Append(doneDeps, r)
  /\ running' = running \ {d}
  /\ UNCHANGED <<layers, requestVars, clockVars, reportVars>>

(* Only a strictly slower result replaces the slowest one. *)
NoteSlowest(r) ==
  IF r.lat > slowestLat
    THEN slowestDep' = r.tp /\ slowestLat' = r.lat
    ELSE UNCHANGED <<slowestDep, slowestLat>>

(* Faulty variant: a miss also replaces an error. *)
NextStateForgetful(r) ==
  IF r.st = Error THEN Error ELSE IF r.st = Miss THEN Miss ELSE reqState

(* An error sticks; a miss replaces a hit. *)
NextState(r) ==
  IF r.st = Error THEN Error
  ELSE IF r.st = Miss /\ reqState # Error THEN Miss ELSE reqState

(* The select takes a result; the last one of a layer ends the inner loop, *)
(* any other re-enters the select and so starts a new timer.               *)
Receive ==
  /\ pc = "wait"
  /\ doneDeps # <<>>
  /\ LET r == Head(doneDeps) IN
       /\ NoteSlowest(r)
       /\ reqState' = NextState(r)
       /\ got' = got \cup {[at |-> layer, tp |-> r.tp, st |-> r.st, lat |-> r.lat]}
       /\ waiting' = waiting \ {r.tp}
  /\ doneDeps' = Tail(doneDeps)
  /\ IF waiting' = {}
       THEN pc' = "layers" /\ layer' = layer + 1
       ELSE UNCHANGED <<pc, layer>>
  /\ timer' = 0
  /\ UNCHANGED <<layers, running, age, reportVars>>

(* Faulty variant: only the select is left (a break without a label). *)
TimeoutBreaksSelect ==
  /\ pc = "wait"
  /\ timer = Timeout
  /\ reqState' = Error
  /\ slowestDep' \in waiting
  /\ timer' = 0
  /\ UNCHANGED <<layers, running, doneDeps, layer, pc, waiting, slowestLat, got,
                 age, reportVars>>

(* Faulty variant: a request that got some result is not timed out. *)
TimeoutUnlessAnswered ==
  /\ pc = "wait"
  /\ timer = Timeout
  /\ got = {}
  /\ reqState' = Error
  /\ slowestDep' \in waiting
  /\ pc' = "report"
  /\ UNCHANGED <<layers, running, doneDeps, layer, waiting, slowestLat, got,
                 clockVars, reportVars>>

(* The timer of this select expires.  A result may be in the channel by    *)
(* then: the select chooses between two ready cases at random.             *)
TimeoutFires ==
  /\ pc = "wait"
  /\ timer = Timeout
  /\ reqState' = Error
  /\ slowestDep' \in waiting
  /\ pc' = "report"
  /\ UNCHANGED <<layers, running, doneDeps, layer, waiting, slowestLat, got,
                 clockVars, reportVars>>

(* The request is reported, after its last layer or after a timeout. *)
Finish ==
  /\ \/ pc = "report"
     \/ pc = "layers" /\ layer > Len(layers)
  /\ outcome' = [st |-> reqState, cp |-> slowestDep]
  /\ responseTime' = IF reqState # Error THEN age ELSE Timeout
  /\ pc' = "done"
  /\ UNCHANGED <<layers, running, doneDeps, layer, waiting, reqState, slowestDep,
                 slowestLat, got, clockVars>>

(* Time passes only while the request waits: what its goroutine computes   *)
(* between two receives takes no time at this scale.                       *)
Tick ==
  /\ pc = "wait"
  /\ doneDeps = <<>>
  /\ timer < Timeout
  /\ timer' = timer + 1
  /\ age' = age + 1
  /\ UNCHANGED <<layers, running, doneDeps, requestVars, reportVars>>

RequestStep == SkipLayer \/ Dispatch \/ Receive \/ TimeoutFires \/ Finish
Next == RequestStep \/ Tick \/ \E d \in Subs : SubqueryReport(d)

Safety == Init /\ [][Next]_vars

(* The goroutine of the request runs and its timer expires; the subqueries *)
(* may hang.                                                               *)
Spec == Safety /\ WF_vars(RequestStep) /\ WF_vars(Tick)
-----------------------------------------------------------------------------
Tps(s) == {s[i].tp : i \in 1 .. Len(s)}

(* Every variable has its type, and only known dependencies are waited on. *)
TypeOK ==
  /\ layers \in Plans
  /\ layer \in 1 .. Len(layers) + 1
  /\ pc \in {"layers", "wait", "report", "done"}
  /\ waiting \subseteq Subs
  /\ running \subseteq Subs
  /\ doneDeps \in Seq([tp : Subs, st : {Error, Miss, Hit}, lat : Int])
  /\ reqState \in {Error, Miss, Hit}
  /\ slowestDep \in Subs \cup {NoDep}
  /\ slowestLat \in Nat
  /\ timer \in 0 .. Timeout
  /\ age \in Nat
  /\ got \subseteq [at : 1 .. Len(layers), tp : Subs, st : {Error, Miss, Hit}, lat : Int]
  /\ outcome \in {NoOutcome} \cup [st : {Error, Miss, Hit}, cp : Subs \cup {NoDep}]
  /\ responseTime \in Nat

(* The map waiting, the goroutines and the channel agree: what is waited   *)
(* for is either still running or exactly once in the channel, and nothing *)
(* else is; between layers nothing is left of the layer before, so a late  *)
(* result can never be counted for a later layer that asks the same name.  *)
ResultsAccounted ==
  /\ waiting = running \cup Tps(doneDeps)
  /\ running \cap Tps(doneDeps) = {}
  /\ \A i, j \in 1 .. Len(doneDeps) : doneDeps[i].tp = doneDeps[j].tp => i = j
  /\ pc = "layers" => waiting = {}

(* A subquery that finishes after its request has timed out still finds    *)
(* room in doneDeps, which nobody reads any more: no goroutine is left     *)
(* blocked on the send.                                                    *)
SendNeverBlocks == running # {} => Len(doneDeps) < DoneCap

(* A request lasts at most one timeout more than it received results: the  *)
(* bound that the timer on every receive gives.                            *)
AgeBounded == age <= Timeout * (Cardinality(got) + 1)

EarlierLayersAnswered ==
  \A k \in 1 .. layer - 1 : \A d \in layers[k] \cap Subs :
    \E r \in got : r.at = k /\ r.tp = d

(* A subquery is started only when every known dependency of every earlier *)
(* layer has answered.                                                     *)
LayerOrder == [][running' \subseteq running \/ EarlierLayersAnswered]_vars

(* Every request is reported, whatever its subqueries do. *)
Reported == <>(pc = "done")

Promise == INSTANCE RequestPromise WITH answers <- got

(* The call implements RequestPromise. *)
Implements == Promise!Safety
=============================================================================

----------------------------- MODULE Controller -----------------------------
(***************************************************************************)
(* The cache controller of an application server (nuapp/src/controller.py) *)
(* with its memcached servers, one per subsystem.  Under a weighted        *)
(* strategy each round plans to steal a step from every large enough cache *)
(* and to hand it to the caches with the larger weights, and starts a      *)
(* thread per cache that sets the new limit and evicts what is beyond it;  *)
(* any thread may fail.  The total it keeps to is counted while            *)
(* connecting, which may take several tries, and is changed by the stages  *)
(* of bubble_wrap.  Under offline_opt the limits of each stage are given.  *)
(* Sizes are in MB.                                                        *)
(***************************************************************************)
EXTENDS Integers, Sequences, FiniteSets, Functions, SequencesExt

CONSTANTS
  Order,       \* the caches, in the order of the config and of the dicts
  CacheSize,   \* the configured size of each cache
  MinSize,     \* no cache is shrunk to this size or below (30)
  StepNum, StepDen,  \* stepsize_percent, as a fraction
  Algorithms,  \* the strategies that may be configured
  MaxCount,    \* bound: counts of a cache on the critical path
  Levels,      \* bound: latencies and hit ratios that are told apart
  Stages,      \* the sizes of the stages of bubble_wrap, <<>> without
  Specs,       \* the limits of the stages of offline_opt
  MaxLimit,    \* bound: the limits that a round plans; those it would exceed are left out
  MaxDepth,    \* calls of weighted_template inside each other (1000 in Python)
  MaxTotal,    \* bound: the total that failed tries to connect add up to
  MaxOver,     \* bound: pages beyond the limit that are told apart
  Attempts     \* budget of an eviction (30)

Keys == ToSet(Order)

ASSUME OrderAssumption == Order \in Seq(Keys) /\ Order # <<>> /\ IsInjective(Order)
ASSUME SizeAssumption == CacheSize \in [Keys -> Nat \ {0}] /\ MinSize \in Nat
ASSUME StepAssumption == StepDen \in Nat \ {0} /\ StepNum \in 0 .. StepDen
ASSUME StageAssumption == Stages \in Seq(Nat \ {0})
ASSUME SpecAssumption == Len(Specs) \in Nat /\
  \A i \in 1 .. Len(Specs) : DOMAIN Specs[i] \subseteq Keys /\ Specs[i] \in [DOMAIN Specs[i] -> Nat \ {0}]
ASSUME DepthAssumption == MaxDepth \in Nat \ {0}
ASSUME BoundAssumption == {MaxCount, Levels, MaxLimit, MaxTotal, MaxOver, Attempts} \subseteq Nat

VARIABLES
  algorithm,   \* the strategy of the config
  limit,       \* the memory limit of each memcached
  over,        \* what it has allocated beyond its limit
  total,       \* total_cache_bytes
  pc,          \* where the main loop is
  delta,       \* deltas of the round
  thread,      \* the thread that changes a cache's limit
  attempts,    \* the budget of its eviction
  ptr,         \* stages so far
  todo,        \* caches that offline_opt has still to change in this stage
  depth,       \* tries of this round that failed to read the limits
  missed,      \* history: caches whose limit this round failed to change
  aborted,     \* history: this round was given up as OVERALLOCATED
  short        \* history: a stage has lowered the total by more than a step

roundVars == <<delta, thread, attempts, missed>>
cacheVars == <<limit, over>>
stageVars == <<ptr, todo, short>>
vars == <<algorithm, cacheVars, total, pc, roundVars, stageVars, depth, aborted>>

Init ==
  /\ algorithm \in Algorithms
  /\ limit = CacheSize
  /\ over = [k \in Keys |-> 0]
  /\ total = 0
  /\ pc = "connect"
  /\ delta = [k \in Keys |-> 0]
  /\ thread = [k \in Keys |-> "done"]
  /\ attempts = [k \in Keys |-> 0]
  /\ ptr = 0
  /\ todo = {}
  /\ depth = 0
  /\ missed = {}
  /\ aborted = FALSE
  /\ short = FALSE

SizeOfFirst(n) == SumFunctionOnSet(CacheSize, {Order[i] : i \in 1 .. n})
-----------------------------------------------------------------------------
(* A try to connect counts the size of each cache it gets to; the next try *)
(* starts over, but not with the count.                                    *)
ConnectFails ==
  /\ pc = "connect"
  /\ \E n \in 0 .. Len(Order) : total' = total + SizeOfFirst(n)
  /\ total' + SizeOfFirst(Len(Order)) <= MaxTotal
  /\ UNCHANGED <<algorithm, cacheVars, pc, roundVars, stageVars, depth, aborted>>

Connect ==
  /\ pc = "connect"
  /\ total' = total + SizeOfFirst(Len(Order))
  /\ pc' = "sleep"
  /\ UNCHANGED <<algorithm, cacheVars, roundVars, stageVars, depth, aborted>>
-----------------------------------------------------------------------------
(* The weights, as fractions with a common denominator. *)
Proportional(c) == [num |-> c, den |-> SumFunction(c)]

(* By critical path (whatever the window), and by the rate of queries: a   *)
(* cache weighs what the statistics server counted; one that does not use  *)
(* its memory (malloc_ratio) counts nothing.                               *)
CritPathWeights ==
  {Proportional(c) : c \in {d \in [Keys -> 0 .. MaxCount] : SumFunction(d) > 0}}

(* The count times hr_delta, which the application servers report.  It is  *)
(* negative of a simulated cache that was smaller for a moment than the    *)
(* one it should exceed.  A negative sum turns all signs.                  *)
CritPathDeltaWeights ==
  {Proportional(c) : c \in {d \in [Keys -> -MaxCount .. MaxCount] : SumFunction(d) > 0}}

(* By latency: the caches beyond nine tenths of the mean weigh what their  *)
(* latency is.  With too few queries to tell the latency is -1.  There may *)
(* be no such cache among those that use their memory, then all weights    *)
(* are zero.  (A division by zero is caught: no reallocation.)             *)
LatencyWeights ==
  LET Slow(l) == {k \in Keys : 10 * Cardinality(Keys) * l[k] > 9 * SumFunction(l)}
      Num(l, used) == [k \in Keys |-> IF k \in Slow(l) \cap used THEN l[k] ELSE 0]
      Nums == {Num(l, used) : l \in [Keys -> -1 .. Levels], used \in SUBSET Keys}
  IN {[num |-> n, den |-> 1] : n \in {m \in Nums : \A k \in Keys : m[k] = 0}}
       \cup {Proportional(n) : n \in {m \in Nums : SumFunction(m) > 0}}

(* By hit ratio: the caches below the mean weigh its inverse, here by a    *)
(* common multiple of all ratios.                                          *)
HitRatioWeights ==
  LET Below(r) == {k \in Keys : r[k] > 0 /\ Cardinality(Keys) * r[k] < SumFunction(r)}
      Num(r, c) == [k \in Keys |-> IF k \in Below(r) THEN c \div r[k] ELSE 0]
      Multiples == {c \in 1 .. Levels ^ Levels : \A l \in 1 .. Levels : c % l = 0}
  IN {Proportional(Num(r, c)) : r \in {q \in [Keys -> 0 .. Levels] : Below(q) # {}}, c \in Multiples}

(* By the order of the latencies: the fastest cache that is not too small  *)
(* loses, and those before it get nothing; the slowest gets two shares.    *)
RobinhoodWeights ==
  LET valid == Cardinality({k \in Keys : limit[k] > MinSize})
      Loser(s) == CHOOSE i \in DOMAIN s :
                    limit[s[i]] >= MinSize /\ \A j \in 1 .. i - 1 : limit[s[j]] < MinSize
      Num(s, i) == IF i <= Loser(s) THEN 0 ELSE IF i = Len(s) THEN 2 ELSE 1
  IN {[num |-> [k \in Keys |-> Num(s, CHOOSE i \in DOMAIN s : s[i] = k)], den |-> valid] :
        s \in IF valid > 1 THEN SetToSeqs(Keys) ELSE {}}

Weighted == {"crit_path", "crit_path_w_delta", "latency", "hit_ratio", "robinhood"}

Weights ==
  CASE algorithm = "crit_path"         -> CritPathWeights
    [] algorithm = "crit_path_w_delta" -> CritPathDeltaWeights
    [] algorithm = "latency"           -> LatencyWeights
    [] algorithm = "hit_ratio"         -> HitRatioWeights
    [] algorithm = "robinhood"         -> RobinhoodWeights
    [] OTHER                           -> {}

(* A step of a cache, in whole MB, if that leaves it large enough. *)
Steal(k) ==
  IF limit[k] * StepDen - StepNum * limit[k] > MinSize * StepDen
    THEN (StepNum * limit[k]) \div StepDen ELSE 0

Stolen == SumFunction([k \in Keys |-> Steal(k)])

(* What a round gives away: what it has stolen, and what the limits lack   *)
(* of the total, or less what they exceed it by.                           *)
ToGive == Stolen + (total - SumFunction(limit))

(* Faulty variant: rounded to the nearest, like round(). *)
ShareNearest(w, k) == (2 * w.num[k] * ToGive + w.den) \div (2 * w.den)

(* The share of a cache, rounded towards zero like int(). *)
Share(w, k) ==
  LET p == w.num[k] * ToGive
  IN IF p >= 0 THEN p \div w.den ELSE -((-p) \div w.den)

(* What remains to give after the first n caches. *)
Remaining(w, n) == ToGive - SumFunctionOnSet([k \in Keys |-> Share(w, k)], {Order[i] : i \in 1 .. n})

Overallocated(w) == \E n \in 1 .. Len(Order) : Remaining(w, n) < 0

(* Faulty variant: what the rounding leaves is lost. *)
RoundedOff(w) == 0

(* What the rounding leaves goes to one cache. *)
Rest(w) == IF Remaining(w, Len(Order)) > 0 THEN Remaining(w, Len(Order)) ELSE 0

(* Faulty variant: the plan is trusted. *)
AnyDelta(k, d) == TRUE

(* A delta that is applied; the others are BAD DELTAs. *)
Acceptable(k, d) == d >= 0 \/ limit[k] + d > MinSize

(* A round: the limits are read, weights computed and deltas planned; the  *)
(* threads of the caches whose delta is acceptable start.                  *)
Reallocate ==
  /\ pc = "sleep"
  /\ \E w \in Weights, fk \in Keys :
       LET d == [k \in Keys |-> Share(w, k) - Steal(k) + IF k = fk THEN Rest(w) ELSE 0]
           good == {k \in Keys : Acceptable(k, d[k])}
       IN /\ ~Overallocated(w)
          /\ \A k \in Keys : limit[k] + d[k] <= MaxLimit
          /\ delta' = d
          /\ thread' = [k \in Keys |-> IF k \in good THEN "set" ELSE "done"]
          /\ missed' = Keys \ good
  /\ depth' = 0
  /\ pc' = "enforce"
  /\ UNCHANGED <<algorithm, cacheVars, total, attempts, stageVars, aborted>>

(* OVERALLOCATED: the round is given up. *)
Abort ==
  /\ pc = "sleep"
  /\ \E w \in Weights : Overallocated(w)
  /\ aborted' = TRUE
  /\ depth' = 0
  /\ pc' = "stage"
  /\ UNCHANGED <<algorithm, cacheVars, total, roundVars, stageVars>>

(* No statistics, or nothing in them: no reallocation. *)
NoReallocation ==
  /\ pc = "sleep"
  /\ algorithm \in Weighted
  /\ depth' = 0
  /\ pc' = "stage"
  /\ UNCHANGED <<algorithm, cacheVars, total, roundVars, stageVars, aborted>>

(* A limit cannot be read: the round starts over, in a call inside the one *)
(* that failed, and there may be only so many of those inside each other.  *)
ReadFails ==
  /\ pc = "sleep"
  /\ algorithm \in Weighted
  /\ depth' = depth + 1
  /\ pc' = IF depth' = MaxDepth THEN "dead" ELSE "sleep"
  /\ UNCHANGED <<algorithm, cacheVars, total, roundVars, stageVars, aborted>>
-----------------------------------------------------------------------------
(* Faulty variant: the target is computed anew when the limit is set again. *)
SetLimitTwice(k) ==
  /\ thread[k] = "set"
  /\ \E times \in 1 .. 2 : limit' = [limit EXCEPT ![k] = @ + times * delta[k]]
  /\ over' = [over EXCEPT ![k] = 0]
  /\ thread' = [thread EXCEPT ![k] = "done"]
  /\ UNCHANGED <<algorithm, total, pc, delta, attempts, stageVars, depth, missed, aborted>>

(* change_memlimit: the limit is set, again and again until it is what it  *)
(* should be.  A cache that was full then holds more than its limit.       *)
SetLimit(k) ==
  /\ thread[k] = "set"
  /\ limit' = [limit EXCEPT ![k] = @ + delta[k]]
  /\ IF delta[k] < 0
       THEN \E n \in {0, -delta[k]} :
              over' = [over EXCEPT ![k] = IF @ + n < MaxOver THEN @ + n ELSE MaxOver]
       ELSE over' = [over EXCEPT ![k] = IF @ > delta[k] THEN @ - delta[k] ELSE 0]
  /\ thread' = [thread EXCEPT ![k] = IF delta[k] < 0 THEN "evict" ELSE "done"]
  /\ attempts' = [attempts EXCEPT ![k] = IF delta[k] < 0 THEN Attempts ELSE 0]
  /\ UNCHANGED <<algorithm, total, pc, delta, stageVars, depth, missed, aborted>>

(* Faulty variant: more is freed than there is. *)
FreeAnyPage(k) ==
  /\ thread[k] = "evict"
  /\ attempts[k] > 0
  /\ over' = [over EXCEPT ![k] = @ - 1]
  /\ UNCHANGED <<algorithm, limit, total, pc, roundVars, stageVars, depth, aborted>>

(* decrease_mem: a page is freed, at no cost. *)
FreePage(k) ==
  /\ thread[k] = "evict"
  /\ attempts[k] > 0 /\ over[k] > 0
  /\ over' = [over EXCEPT ![k] = @ - 1]
  /\ UNCHANGED <<algorithm, limit, total, pc, roundVars, stageVars, depth, aborted>>

(* decrease_mem: busy, an error, or nothing to free. *)
FreeFails(k) ==
  /\ thread[k] = "evict"
  /\ attempts[k] > 0 /\ over[k] > 0
  /\ \E spent \in {1, 5, 10} :
       attempts' = [attempts EXCEPT ![k] = IF @ > spent THEN @ - spent ELSE 0]
  /\ UNCHANGED <<algorithm, cacheVars, total, pc, delta, thread, stageVars, depth, missed, aborted>>

(* Faulty variant: it goes on until the cache is small enough. *)
EvictionNeverGivesUp(k) ==
  /\ thread[k] = "evict"
  /\ over[k] = 0
  /\ thread' = [thread EXCEPT ![k] = "done"]
  /\ attempts' = [attempts EXCEPT ![k] = 0]
  /\ UNCHANGED <<algorithm, cacheVars, total, pc, delta, stageVars, depth, missed, aborted>>

(* The cache is small enough, or the attempts are spent. *)
EvictionEnds(k) ==
  /\ thread[k] = "evict"
  /\ over[k] = 0 \/ attempts[k] = 0
  /\ thread' = [thread EXCEPT ![k] = "done"]
  /\ attempts' = [attempts EXCEPT ![k] = 0]
  /\ UNCHANGED <<algorithm, cacheVars, total, pc, delta, stageVars, depth, missed, aborted>>

(* An exception ends the thread, and nobody hears of it. *)
ThreadFails(k) ==
  /\ pc = "enforce" /\ thread[k] # "done"
  /\ thread' = [thread EXCEPT ![k] = "done"]
  /\ missed' = IF thread[k] = "set" THEN missed \cup {k} ELSE missed
  /\ attempts' = [attempts EXCEPT ![k] = 0]
  /\ UNCHANGED <<algorithm, cacheVars, total, pc, delta, stageVars, depth, aborted>>

Idle == \A k \in Keys : thread[k] = "done"

(* All threads are joined; the round's variables go out of scope. *)
Join ==
  /\ pc = "enforce" /\ Idle
  /\ pc' = "stage"
  /\ delta' = [k \in Keys |-> 0]
  /\ missed' = {}
  /\ UNCHANGED <<algorithm, cacheVars, total, thread, attempts, stageVars, depth, aborted>>

(* What the limits exceed a total by and the next round cannot take back. *)
Excess(t) == SumFunction(limit) - t > Stolen

(* After every round bubble_wrap looks whether the next stage is due.      *)
NextStage ==
  /\ pc = "stage"
  /\ ptr < Len(Stages)
  /\ ptr' = ptr + 1
  /\ total' = Stages[ptr + 1]
  /\ short' = (Excess(total') /\ (short \/ total' < total))
  /\ pc' = "sleep"
  /\ aborted' = FALSE
  /\ UNCHANGED <<algorithm, cacheVars, roundVars, todo, depth>>

SameStage ==
  /\ pc = "stage"
  /\ short' = (short /\ Excess(total))
  /\ pc' = "sleep"
  /\ aborted' = FALSE
  /\ UNCHANGED <<algorithm, cacheVars, total, roundVars, ptr, todo, depth>>
-----------------------------------------------------------------------------
(* offline_opt: when the next stage is due, the main loop changes one      *)
(* cache after the other to the limit that the stage has for it.           *)
OfflineStage ==
  /\ pc = "sleep"
  /\ algorithm = "offline_opt" /\ ptr < Len(Specs)
  /\ ptr' = ptr + 1
  /\ todo' = DOMAIN Specs[ptr + 1]
  /\ pc' = "offline"
  /\ UNCHANGED <<algorithm, cacheVars, total, roundVars, short, depth, aborted>>

(* Faulty variant: the delta is that of the configured size. *)
OfflineFromConfig(k) ==
  /\ pc = "offline" /\ Idle
  /\ k \in todo
  /\ todo' = todo \ {k}
  /\ delta' = [delta EXCEPT ![k] = Specs[ptr][k] - CacheSize[k]]
  /\ thread' = [thread EXCEPT ![k] = "set"]
  /\ UNCHANGED <<algorithm, cacheVars, total, pc, attempts, missed, ptr, short, depth, aborted>>

OfflineChange(k) ==
  /\ pc = "offline" /\ Idle
  /\ k \in todo
  /\ todo' = todo \ {k}
  /\ delta' = [delta EXCEPT ![k] = Specs[ptr][k] - limit[k]]
  /\ thread' = [thread EXCEPT ![k] = "set"]
  /\ UNCHANGED <<algorithm, cacheVars, total, pc, attempts, missed, ptr, short, depth, aborted>>

OfflineEnds ==
  /\ pc = "offline" /\ Idle /\ todo = {}
  /\ delta' = [k \in Keys |-> 0]
  /\ pc' = "sleep"
  /\ UNCHANGED <<algorithm, cacheVars, total, thread, attempts, missed, stageVars, depth, aborted>>

(* A limit cannot be read, or changing it fails, upon which a function is  *)
(* called that does not exist: either exception ends the main loop.        *)
OfflineFails ==
  /\ pc = "offline"
  /\ ~(Idle /\ todo = {})
  /\ thread' = [k \in Keys |-> "done"]
  /\ attempts' = [k \in Keys |-> 0]
  /\ pc' = "dead"
  /\ UNCHANGED <<algorithm, cacheVars, total, delta, missed, stageVars, depth, aborted>>
-----------------------------------------------------------------------------
Evict(k) == FreePage(k) \/ FreeFails(k) \/ EvictionEnds(k)
Stage == NextStage \/ SameStage
Offline == OfflineStage \/ (\E k \in Keys : OfflineChange(k)) \/ OfflineEnds

Next ==
  \/ ConnectFails \/ Connect
  \/ Reallocate \/ Abort \/ NoReallocation \/ ReadFails
  \/ \E k \in Keys : SetLimit(k) \/ Evict(k) \/ ThreadFails(k)
  \/ Join \/ Stage
  \/ Offline \/ OfflineFails

Safety == Init /\ [][Next]_vars

(* The threads run, and every call to a memcached ends within the client's *)
(* timeout of 3 seconds.                                                   *)
Spec ==
  /\ Safety
  /\ \A k \in Keys : WF_vars(SetLimit(k) \/ Evict(k))
  /\ WF_vars(Join) /\ WF_vars(Stage) /\ WF_vars(Offline)
-----------------------------------------------------------------------------
(* Every variable has its type. *)
TypeOK ==
  /\ algorithm \in Algorithms
  /\ limit \in [Keys -> Nat]
  /\ over \in [Keys -> 0 .. MaxOver]
  /\ total \in Nat
  /\ pc \in {"connect", "sleep", "enforce", "stage", "offline", "dead"}
  /\ delta \in [Keys -> Int]
  /\ thread \in [Keys -> {"set", "evict", "done"}]
  /\ attempts \in [Keys -> 0 .. Attempts]
  /\ ptr \in 0 .. Len(Stages) + Len(Specs)
  /\ todo \subseteq Keys
  /\ depth \in 0 .. MaxDepth
  /\ missed \subseteq Keys
  /\ aborted \in BOOLEAN /\ short \in BOOLEAN

(* A round that fails to change no limit ends with limits that add up to   *)
(* the total, whatever the weights and the rounding were, and whatever     *)
(* earlier rounds left undone, connecting miscounted or a stage changed.   *)
Conserved ==
  [][pc = "enforce" /\ pc' = "stage" /\ missed = {} => SumFunction(limit') = total]_vars

(* No weighted round shrinks a cache to MinSize or below. *)
NeverBelowMin ==
  [][\A k \in Keys :
       algorithm \in Weighted /\ limit'[k] < limit[k] => limit'[k] > MinSize]_vars

(* However many threads fail, between rounds the limits exceed the total   *)
(* by no more than the next round can steal, unless a stage has lowered    *)
(* the total by more than that: the next round has the means to take it    *)
(* back.  Not so with negative weights, which let one cache grow by more   *)
(* than was stolen.                                                        *)
Repairable ==
  pc \in {"sleep", "stage"} /\ algorithm \in Weighted \ {"crit_path_w_delta"} =>
    short \/ ~Excess(total)

(* No round is given up as OVERALLOCATED while the limits exceed the total *)
(* by no more than a round can steal, with two exceptions: the weights by  *)
(* hr_delta may be negative, and those of robinhood add up to more than    *)
(* one when there is a cache of MinSize or less, which it pays if it is a  *)
(* slow one, though it has not counted it.                                 *)
NeverAborted ==
  aborted => \/ short
             \/ algorithm = "crit_path_w_delta"
             \/ algorithm = "robinhood" /\ \E k \in Keys : limit[k] <= MinSize

(* Every round ends, with memcached servers that are busy or fail.  Only a *)
(* stage of offline_opt may end the main loop with it: the failure of a    *)
(* thread of a weighted round does not.                                    *)
RoundEnds ==
  pc \in {"enforce", "offline"} ~> pc = "sleep" \/ (pc = "dead" /\ algorithm = "offline_opt")

(* The limit that the first p stages of offline_opt have come to. *)
LimitOfStage(k, p) ==
  LET naming == {i \in 1 .. p : k \in DOMAIN Specs[i]}
  IN IF naming = {} THEN CacheSize[k] ELSE Specs[Max(naming)][k]

(* Between the stages of offline_opt each cache has the limit that the     *)
(* last stage to name it has for it, whatever evictions did not manage.  A *)
(* stage that is under way, or that a failure ended together with the main *)
(* loop, leaves no other limits behind than those of it and of the stage   *)
(* before.                                                                 *)
StagesKept ==
  algorithm = "offline_opt" => \A k \in Keys :
    \/ limit[k] = LimitOfStage(k, ptr)
    \/ pc \in {"offline", "dead"} /\ limit[k] = LimitOfStage(k, ptr - 1)
=============================================================================

------------------------------ MODULE Subquery ------------------------------
(***************************************************************************)
(* ExecuteSubquery (nuapp/src/subquery/subquery.go) for one subsystem: the *)
(* goroutines that ask the subsystem's cache in parallel chunks, fetch     *)
(* what is missing from its backend, store it in the cache and report one  *)
(* result, under the two counting semaphores CacheSema and BackSema.       *)
(* FlushHandler (nuapp/src/appserver/app.go) shares CacheSema and the      *)
(* cache.  Each worker is one subquery, each flusher one /flush request.   *)
(* memcached and the backend are external: an item may be evicted at any   *)
(* time, and a backend answers all, some or none of the keys.              *)
(***************************************************************************)
EXTENDS Integers, FiniteSets, Functions

CONSTANTS
  Workers,     \* subqueries of this subsystem
  Flushers,    \* flush requests
  Urls,        \* the ids a request may hold, as they are written
  Requests,    \* bound: the sets of ids that each subquery may come with
  Lower,       \* strings.ToLower
  CacheSlots,  \* capacity of CacheSema
  BackSlots,   \* capacity of BackSema
  ChunkSize,   \* ids per GetMulti (10)
  MaxCut,      \* bound: the keys and sizes of chunks for which the cutting is tried
  NoReport     \* not reported yet

Keys == {Lower[u] : u \in Urls}

ASSUME WorkersAssumption == IsFiniteSet(Workers) /\ IsFiniteSet(Flushers)
ASSUME UrlsAssumption == IsFiniteSet(Urls) /\ Lower = [u \in Urls |-> Lower[u]]
ASSUME RequestsAssumption == Requests \in [Workers -> SUBSET SUBSET Urls]
ASSUME SlotsAssumption == CacheSlots \in Nat \ {0} /\ BackSlots \in Nat \ {0}
ASSUME ChunkAssumption == ChunkSize \in Nat \ {0} /\ MaxCut \in Nat
ASSUME ReportAssumption == NoReport \notin {-1, 0, 1}

VARIABLES
  bypass,      \* BypassCaches, fixed at startup
  cacheSema, backSema,  \* tokens in the two semaphores
  cache,       \* size of the item cached for a key, Unknown if there is none
  pc,          \* where a worker is
  want,        \* the keys of realSize
  realSize,    \* the sizes a worker knows
  asked,       \* chunks whose GetMulti is running
  owed,        \* parallelQueries - retrieved
  itemMap,     \* what the chunks have returned
  hits,        \* cacheHits
  backQueries,
  fulfilled,
  todo,        \* backend values still to be recorded and stored
  setting,     \* the key being stored in the cache
  hasError,
  report,      \* the status sent to doneDeps
  flush,       \* where a flusher is
  stolen       \* history: tokens taken by releases of flushers without one

cacheVars == <<cacheSema, cache, stolen>>
getVars   == <<asked, owed, itemMap>>
jobVars   == <<want, realSize, hits, backQueries, fulfilled, todo, setting, hasError, report>>
vars == <<bypass, backSema, pc, flush, cacheVars, getVars, jobVars>>

Unknown == -1
Empty   == 0
Full    == 1
Sizes   == {Unknown, Empty, Full}

Known(s) == {k \in Keys : s[k] # Unknown}

CacheHolders == {w \in Workers : pc[w] \in {"getting", "setting", "stored"}}
BackHolders  == {w \in Workers : pc[w] = "backend"}
FlushHolders == {f \in Flushers : flush[f] \in {"held", "flushed"}}

Init ==
  /\ bypass \in BOOLEAN
  /\ cacheSema = 0
  /\ backSema = 0
  /\ cache = [k \in Keys |-> Unknown]
  /\ pc = [w \in Workers |-> "new"]
  /\ want = [w \in Workers |-> {}]
  /\ realSize = [w \in Workers |-> [k \in Keys |-> Unknown]]
  /\ asked = [w \in Workers |-> {}]
  /\ owed = [w \in Workers |-> 0]
  /\ itemMap = [w \in Workers |-> [k \in Keys |-> Unknown]]
  /\ hits = [w \in Workers |-> {}]
  /\ backQueries = [w \in Workers |-> {}]
  /\ fulfilled = [w \in Workers |-> 0]
  /\ todo = [w \in Workers |-> [k \in Keys |-> Unknown]]
  /\ setting = [w \in Workers |-> {}]
  /\ hasError = [w \in Workers |-> FALSE]
  /\ report = [w \in Workers |-> NoReport]
  /\ flush = [f \in Flushers |-> "new"]
  /\ stolen = 0

Goto(w, l) == pc' = [pc EXCEPT ![w] = l]
Fail(w)    == hasError' = [hasError EXCEPT ![w] = TRUE]
-----------------------------------------------------------------------------
(* ParseRequest starts the subquery; ids that differ only in case are one  *)
(* key.  In bypass mode every key goes to the backend.                     *)
Start(w) ==
  /\ pc[w] = "new"
  /\ \E us \in Requests[w] :
       LET ks == {Lower[u] : u \in us} IN
         /\ want' = [want EXCEPT ![w] = ks]
         /\ backQueries' = [backQueries EXCEPT ![w] = IF bypass THEN ks ELSE {}]
         /\ Goto(w, IF ~bypass THEN "getWait" ELSE IF ks # {} THEN "backWait" ELSE "report")
  /\ UNCHANGED <<bypass, backSema, flush, cacheVars, getVars, realSize, hits, fulfilled,
                 todo, setting, hasError, report>>

(* parallelQueries, for n keys in chunks of a size. *)
Calls(n, size) == IF n < size THEN 1 ELSE n \div size

(* Faulty variant: the last call takes no more than the others. *)
EvenSlice(n, i, size) ==
  i * size + 1 .. IF (i + 1) * size < n THEN (i + 1) * size ELSE n

(* The places of the keys that call i asks for: the last takes the rest.   *)
Slice(n, i, size) ==
  i * size + 1 .. IF i = Calls(n, size) - 1 THEN n ELSE (i + 1) * size

(* What the calls may ask for, with the keys in any order. *)
Chunkings(ks) ==
  LET n == Cardinality(ks)
      calls == 0 .. Calls(n, ChunkSize) - 1
  IN {{{order[j] : j \in Slice(n, i, ChunkSize)} : i \in calls} : order \in Bijection(1 .. n, ks)}

(* Faulty variant: the semaphore does not hold anybody back. *)
GetUnbounded(w) ==
  /\ pc[w] = "getWait"
  /\ cacheSema' = cacheSema + 1
  /\ \E P \in Chunkings(want[w]) :
       /\ asked' = [asked EXCEPT ![w] = P]
       /\ owed' = [owed EXCEPT ![w] = Calls(Cardinality(want[w]), ChunkSize)]
  /\ Goto(w, "getting")
  /\ UNCHANGED <<bypass, backSema, flush, cache, stolen, itemMap, jobVars>>

(* A slot of the cache semaphore, and one goroutine per chunk. *)
GetAcquire(w) ==
  /\ pc[w] = "getWait"
  /\ cacheSema < CacheSlots
  /\ cacheSema' = cacheSema + 1
  /\ \E P \in Chunkings(want[w]) :
       /\ asked' = [asked EXCEPT ![w] = P]
       /\ owed' = [owed EXCEPT ![w] = Calls(Cardinality(want[w]), ChunkSize)]
  /\ Goto(w, "getting")
  /\ UNCHANGED <<bypass, backSema, flush, cache, stolen, itemMap, jobVars>>

(* Faulty variant: the semaphore is waited for without a timeout. *)
GetNoTimeout(w) == FALSE

(* No slot for ten seconds: the subquery fails. *)
GetTimeout(w) ==
  /\ pc[w] = "getWait"
  /\ cacheSema = CacheSlots
  /\ Fail(w)
  /\ Goto(w, "report")
  /\ UNCHANGED <<bypass, backSema, flush, cacheVars, getVars, want, realSize, hits,
                 backQueries, fulfilled, todo, setting, report>>

(* A chunk returns what the cache holds of it, and is counted. *)
ChunkFound(w, c) ==
  /\ c \in asked[w]
  /\ itemMap' = [itemMap EXCEPT ![w] = [k \in Keys |-> IF k \in c THEN cache[k] ELSE @[k]]]
  /\ asked' = [asked EXCEPT ![w] = @ \ {c}]
  /\ owed' = [owed EXCEPT ![w] = @ - 1]
  /\ UNCHANGED <<bypass, backSema, pc, flush, cacheVars, jobVars>>

(* A chunk returns an error.  The break leaves the select and not the loop *)
(* around it: the chunk is never counted and the loop waits on.            *)
ChunkFailed(w, c) ==
  /\ c \in asked[w]
  /\ asked' = [asked EXCEPT ![w] = @ \ {c}]
  /\ UNCHANGED <<bypass, backSema, pc, flush, cacheVars, owed, itemMap, jobVars>>

(* Faulty variant: the slot is kept. *)
GetKeepsSlot(w) ==
  /\ pc[w] = "getting"
  /\ owed[w] = 0
  /\ LET found == {k \in want[w] : itemMap[w][k] = Full} IN
       /\ hits' = [hits EXCEPT ![w] = found]
       /\ realSize' = [realSize EXCEPT ![w] = [k \in Keys |-> IF k \in found THEN Full ELSE @[k]]]
       /\ fulfilled' = [fulfilled EXCEPT ![w] = @ + Cardinality(found)]
       /\ backQueries' = [backQueries EXCEPT ![w] = want[w] \ found]
       /\ Goto(w, IF found = want[w] THEN "report" ELSE "backWait")
  /\ UNCHANGED <<bypass, backSema, flush, cacheVars, getVars, want, todo, setting,
                 hasError, report>>

(* All chunks are counted: the slot is released, and what is not in the    *)
(* cache, or empty there, is left for the backend.                         *)
GetRelease(w) ==
  /\ pc[w] = "getting"
  /\ owed[w] = 0
  /\ cacheSema > 0
  /\ cacheSema' = cacheSema - 1
  /\ LET found == {k \in want[w] : itemMap[w][k] = Full} IN
       /\ hits' = [hits EXCEPT ![w] = found]
       /\ realSize' = [realSize EXCEPT ![w] = [k \in Keys |-> IF k \in found THEN Full ELSE @[k]]]
       /\ fulfilled' = [fulfilled EXCEPT ![w] = @ + Cardinality(found)]
       /\ backQueries' = [backQueries EXCEPT ![w] = want[w] \ found]
       /\ Goto(w, IF found = want[w] THEN "report" ELSE "backWait")
  /\ UNCHANGED <<bypass, backSema, flush, cache, stolen, getVars, want, todo, setting,
                 hasError, report>>
-----------------------------------------------------------------------------
BackAcquire(w) ==
  /\ pc[w] = "backWait"
  /\ backSema < BackSlots
  /\ backSema' = backSema + 1
  /\ Goto(w, "backend")
  /\ UNCHANGED <<bypass, flush, cacheVars, getVars, jobVars>>

BackTimeout(w) ==
  /\ pc[w] = "backWait"
  /\ backSema = BackSlots
  /\ Fail(w)
  /\ Goto(w, "report")
  /\ UNCHANGED <<bypass, backSema, flush, cacheVars, getVars, want, realSize, hits,
                 backQueries, fulfilled, todo, setting, report>>

(* The backend returns values for keys it was asked for, some of them      *)
(* empty and some missing, and the slot is released.                       *)
BackSuccess(w) ==
  /\ pc[w] = "backend"
  /\ backSema' = backSema - 1
  /\ \E vals \in [backQueries[w] -> Sizes] :
       todo' = [todo EXCEPT ![w] =
                  [k \in Keys |-> IF k \in backQueries[w] THEN vals[k] ELSE Unknown]]
  /\ Goto(w, "store")
  /\ UNCHANGED <<bypass, flush, cacheVars, getVars, want, realSize, hits, backQueries,
                 fulfilled, setting, hasError, report>>

BackError(w) ==
  /\ pc[w] = "backend"
  /\ backSema' = backSema - 1
  /\ Fail(w)
  /\ Goto(w, "report")
  /\ UNCHANGED <<bypass, flush, cacheVars, getVars, want, realSize, hits, backQueries,
                 fulfilled, todo, setting, report>>
-----------------------------------------------------------------------------
(* The next value of the loop over the backend's answer is recorded, and   *)
(* is to be stored in the cache unless that is bypassed.                   *)
Record(w, k) ==
  /\ pc[w] = "store"
  /\ todo[w][k] # Unknown
  /\ realSize' = [realSize EXCEPT ![w][k] = todo[w][k]]
  /\ fulfilled' = [fulfilled EXCEPT ![w] = @ + 1]
  /\ todo' = [todo EXCEPT ![w][k] = Unknown]
  /\ IF bypass
       THEN UNCHANGED <<pc, setting>>
       ELSE Goto(w, "setWait") /\ setting' = [setting EXCEPT ![w] = {k}]
  /\ UNCHANGED <<bypass, backSema, flush, cacheVars, getVars, want, hits, backQueries,
                 hasError, report>>

SetAcquire(w) ==
  /\ pc[w] = "setWait"
  /\ cacheSema < CacheSlots
  /\ cacheSema' = cacheSema + 1
  /\ Goto(w, "setting")
  /\ UNCHANGED <<bypass, backSema, flush, cache, stolen, getVars, jobVars>>

(* A store that times out fails the subquery, but the loop goes on. *)
SetTimeout(w) ==
  /\ pc[w] = "setWait"
  /\ cacheSema = CacheSlots
  /\ Fail(w)
  /\ setting' = [setting EXCEPT ![w] = {}]
  /\ Goto(w, "store")
  /\ UNCHANGED <<bypass, backSema, flush, cacheVars, getVars, want, realSize, hits,
                 backQueries, fulfilled, todo, report>>

SetDone(w) ==
  /\ pc[w] = "setting"
  /\ cache' = [k \in Keys |-> IF k \in setting[w] THEN realSize[w][k] ELSE cache[k]]
  /\ Goto(w, "stored")
  /\ UNCHANGED <<bypass, backSema, flush, cacheSema, stolen, getVars, jobVars>>

(* A failed store fails the subquery as well. *)
SetFailed(w) ==
  /\ pc[w] = "setting"
  /\ Fail(w)
  /\ Goto(w, "stored")
  /\ UNCHANGED <<bypass, backSema, flush, cacheVars, getVars, want, realSize, hits,
                 backQueries, fulfilled, todo, setting, report>>

SetRelease(w) ==
  /\ pc[w] = "stored"
  /\ cacheSema > 0
  /\ cacheSema' = cacheSema - 1
  /\ setting' = [setting EXCEPT ![w] = {}]
  /\ Goto(w, "store")
  /\ UNCHANGED <<bypass, backSema, flush, cache, stolen, getVars, want, realSize, hits,
                 backQueries, fulfilled, todo, hasError, report>>

(* Faulty variant: the answers are not counted. *)
StatusUnchecked(w) ==
  IF hasError[w] THEN -1 ELSE IF backQueries[w] = {} THEN 1 ELSE 0

(* An error if a step failed or a key has no answer; else a hit if the     *)
(* backend was not needed, and a miss if it was.                           *)
Status(w) ==
  IF hasError[w] \/ Cardinality(want[w]) # fulfilled[w] THEN -1
  ELSE IF backQueries[w] = {} THEN 1 ELSE 0

(* The result is sent to doneDeps. *)
Report(w) ==
  /\ \/ pc[w] = "report"
     \/ pc[w] = "store" /\ Known(todo[w]) = {}
  /\ report' = [report EXCEPT ![w] = Status(w)]
  /\ Goto(w, "done")
  /\ UNCHANGED <<bypass, backSema, flush, cacheVars, getVars, want, realSize, hits,
                 backQueries, fulfilled, todo, setting, hasError>>
-----------------------------------------------------------------------------
(* memcached drops an item. *)
Evict(k) ==
  /\ cache[k] # Unknown
  /\ cache' = [cache EXCEPT ![k] = Unknown]
  /\ UNCHANGED <<bypass, backSema, pc, flush, cacheSema, stolen, getVars, jobVars>>

FlushAcquire(f) ==
  /\ flush[f] = "new"
  /\ cacheSema < CacheSlots
  /\ cacheSema' = cacheSema + 1
  /\ flush' = [flush EXCEPT ![f] = "held"]
  /\ UNCHANGED <<bypass, backSema, pc, cache, stolen, getVars, jobVars>>

(* The result of Acquire is not looked at. *)
FlushTimeout(f) ==
  /\ flush[f] = "new"
  /\ cacheSema = CacheSlots
  /\ flush' = [flush EXCEPT ![f] = "bare"]
  /\ UNCHANGED <<bypass, backSema, pc, cacheVars, getVars, jobVars>>

FlushAll(f) ==
  /\ flush[f] \in {"held", "bare"}
  /\ cache' = [k \in Keys |-> Unknown]
  /\ flush' = [flush EXCEPT ![f] = IF @ = "held" THEN "flushed" ELSE "bareFlushed"]
  /\ UNCHANGED <<bypass, backSema, pc, cacheSema, stolen, getVars, jobVars>>

(* A token is taken from the semaphore, whoever put it there. *)
FlushRelease(f) ==
  /\ flush[f] \in {"flushed", "bareFlushed"}
  /\ cacheSema > 0
  /\ cacheSema' = cacheSema - 1
  /\ stolen' = IF flush[f] = "flushed" THEN stolen ELSE stolen + 1
  /\ flush' = [flush EXCEPT ![f] = "done"]
  /\ UNCHANGED <<bypass, backSema, pc, cache, getVars, jobVars>>
-----------------------------------------------------------------------------
CacheStep(w) ==
  \/ GetAcquire(w) \/ GetTimeout(w) \/ GetRelease(w)
  \/ \E c \in asked[w] : ChunkFound(w, c) \/ ChunkFailed(w, c)

StoreStep(w) ==
  \/ \E k \in Keys : Record(w, k)
  \/ SetAcquire(w) \/ SetTimeout(w) \/ SetDone(w) \/ SetFailed(w) \/ SetRelease(w)

(* What a worker does without the backend's answer. *)
WorkerStep(w) == CacheStep(w) \/ BackAcquire(w) \/ BackTimeout(w) \/ StoreStep(w) \/ Report(w)
BackendStep(w) == BackSuccess(w) \/ BackError(w)
FlushStep(f) == FlushAcquire(f) \/ FlushTimeout(f) \/ FlushAll(f) \/ FlushRelease(f)

Next ==
  \/ \E w \in Workers : Start(w) \/ WorkerStep(w) \/ BackendStep(w)
  \/ \E f \in Flushers : FlushStep(f)
  \/ \E k \in Keys : Evict(k)

Safety == Init /\ [][Next]_vars

(* The goroutines run, their timers expire, and memcached answers or fails *)
(* within the second of its client's timeout.  Nothing is assumed of the   *)
(* backend: an rpc call has no deadline.                                   *)
Spec ==
  /\ Safety
  /\ \A w \in Workers : WF_vars(WorkerStep(w))
  /\ \A f \in Flushers : WF_vars(FlushStep(f))
-----------------------------------------------------------------------------
(* Every variable has its type. *)
TypeOK ==
  /\ bypass \in BOOLEAN
  /\ cacheSema \in 0 .. CacheSlots
  /\ backSema \in 0 .. BackSlots
  /\ cache \in [Keys -> Sizes]
  /\ pc \in [Workers -> {"new", "getWait", "getting", "backWait", "backend", "store",
                         "setWait", "setting", "stored", "report", "done"}]
  /\ want \in [Workers -> SUBSET Keys]
  /\ realSize \in [Workers -> [Keys -> Sizes]]
  /\ asked \in [Workers -> SUBSET SUBSET Keys]
  /\ owed \in [Workers -> Nat]
  /\ itemMap \in [Workers -> [Keys -> Sizes]]
  /\ hits \in [Workers -> SUBSET Keys]
  /\ backQueries \in [Workers -> SUBSET Keys]
  /\ fulfilled \in [Workers -> Nat]
  /\ todo \in [Workers -> [Keys -> Sizes]]
  /\ setting \in [Workers -> SUBSET Keys]
  /\ hasError \in [Workers -> BOOLEAN]
  /\ report \in [Workers -> {NoReport, -1, 0, 1}]
  /\ flush \in [Flushers -> {"new", "held", "bare", "flushed", "bareFlushed", "done"}]
  /\ stolen \in Nat

(* The tokens of both semaphores are those of the subqueries and flushers  *)
(* that are between Acquire and Release, less the tokens that flushers     *)
(* took without holding one: no path of ExecuteSubquery, and no failure on *)
(* it, leaks a slot or releases it twice.                                  *)
SemaBalance ==
  /\ cacheSema + stolen = Cardinality(CacheHolders) + Cardinality(FlushHolders)
  /\ backSema = Cardinality(BackHolders)

(* fulfilled, the number the sanity check compares, is the number of keys  *)
(* with a known size, through chunks, empty items and partial answers.     *)
FulfilledCounts ==
  \A w \in Workers : fulfilled[w] = Cardinality(Known(realSize[w]))

(* A subquery that reports no error has an answer for every key; one that  *)
(* reports a hit found every key in the cache; and it reports an error     *)
(* only if a step failed or a key has no answer.                           *)
HonestStatus ==
  \A w \in Workers : report[w] # NoReport =>
    /\ report[w] # -1 => want[w] = Known(realSize[w])
    /\ report[w] = 1 => hits[w] = want[w]
    /\ report[w] = -1 => hasError[w] \/ want[w] # Known(realSize[w])

(* The calls for n keys take each of them once, and none of the calls as   *)
(* many as two chunks.                                                     *)
CutsWell(n, size) ==
  LET calls == 0 .. Calls(n, size) - 1
  IN /\ UNION {Slice(n, i, size) : i \in calls} = 1 .. n
     /\ \A i, k \in calls : i # k => Slice(n, i, size) \cap Slice(n, k, size) = {}
     /\ \A i \in calls : Cardinality(Slice(n, i, size)) < 2 * size

(* The calls to the cache ask for every key once, and as many answers are  *)
(* waited for as there are calls; and so they would for any number of keys *)
(* and any size of the chunks, with or without a rest.  A key left out     *)
(* would be fetched from the backend though it is cached, a call too few   *)
(* or too many would be waited for in vain or not at all.                  *)
KeysAskedOnce ==
  [][\A w \in Workers : pc[w] = "getWait" /\ pc'[w] = "getting" =>
       /\ UNION asked'[w] = want[w]
       /\ \A c, d \in asked'[w] : c # d => c \cap d = {}
       /\ owed'[w] = Cardinality(asked'[w])
       /\ \A n \in 0 .. MaxCut, size \in 1 .. MaxCut : CutsWell(n, size)]_vars

(* A GetMulti of the worker has failed. *)
Hung(w) == pc[w] = "getting" /\ owed[w] > Cardinality(asked[w])

(* Whatever the others do, hung ones included, a subquery gets on until it *)
(* reports or waits for its backend, unless one of its own GetMulti calls  *)
(* failed or a flusher took a token that was not its own.                  *)
Progress ==
  \A w \in Workers :
    pc[w] \notin {"new", "backend"} ~> pc[w] \in {"done", "backend"} \/ Hung(w) \/ stolen > 0

(* What the comment "timeout waiting" above the loop over the chunks says: *)
(* the wait for the cache ends.                                            *)
CacheWaitEnds == \A w \in Workers : pc[w] = "getting" ~> pc[w] # "getting"
=============================================================================

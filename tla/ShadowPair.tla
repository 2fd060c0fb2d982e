----------------------------- MODULE ShadowPair -----------------------------
(***************************************************************************)
(* The two simulated caches of a subsystem (nuapp/src/shadowcache/lru.go)  *)
(* and the three goroutines that share them without a lock                 *)
(* (nuapp/src/subquery/subquery.go): processQueries plays every query      *)
(* first on Shadow1 and then on Shadow2, reportLatency sets first the one  *)
(* capacity and then the other, and reportHitratio reads and resets first  *)
(* the one hit ratio and then the other.                                   *)
(***************************************************************************)
EXTENDS Integers, Sequences, SequencesExt, Functions

CONSTANTS
  Ids,         \* what is queried
  Sizes,       \* the sizes a query may come with
  InitCap,     \* the capacity of Shadow1 at the start
  Capacities,  \* capacities Shadow1 may be set to
  Extras,      \* what Shadow2 gets on top (1% of all caches)
  MaxReqs      \* bound: requests between two resets

ASSUME SizesAssumption == Sizes \subseteq Nat \cup {-1}
ASSUME CapAssumption == Capacities \cup Extras \cup {InitCap} \subseteq Nat
ASSUME BoundAssumption == MaxReqs \in Nat

Shadow == {1, 2}
NotSetting == -1

NoRatio == [hits |-> 0, reqs |-> 0]

(* The entries of the lists, which are also the queries.  The size is that *)
(* of the value the subquery got, which may change from one answer of the  *)
(* backend to the next, or -1 if it got none.                              *)
Entries == [id : Ids, size : Sizes]
NoQuery == [id |-> "none", size |-> 0]
ASSUME NoQueryAssumption == NoQuery.id \notin Ids

VARIABLES
  evictList,   \* most recent first
  size, capacity,
  hits, reqs,
  query,       \* the query played on Shadow1 and not yet on Shadow2
  hitFirst,    \* history: it was a hit there
  capFirst,    \* history: the capacity it met there
  newCap,      \* Shadow2's capacity reportLatency is about to set, or NotSetting
  report,      \* where reportHitratio is
  ratio,       \* what it has read from Shadow1
  crossed,     \* history: a query met Shadow1 larger than then Shadow2
  resized      \* history: a query missed Shadow1 that Shadow2 has in another size

cacheVars  == <<evictList, size, hits, reqs>>
queryVars  == <<query, hitFirst, capFirst, crossed, resized>>
reportVars == <<report, ratio>>
vars == <<cacheVars, capacity, queryVars, newCap, reportVars>>

Init ==
  /\ evictList = [c \in Shadow |-> <<>>]
  /\ size = [c \in Shadow |-> 0]
  /\ \E e \in Extras : capacity = [c \in Shadow |-> IF c = 1 THEN InitCap ELSE InitCap + e]
  /\ hits = [c \in Shadow |-> 0]
  /\ reqs = [c \in Shadow |-> 0]
  /\ query = NoQuery
  /\ hitFirst = FALSE
  /\ capFirst = 0
  /\ newCap = NotSetting
  /\ report = "idle"
  /\ ratio = NoRatio
  /\ crossed = FALSE
  /\ resized = FALSE

SizeOf(list) == SumFunction([i \in DOMAIN list |-> list[i].size])
IdsOf(list)  == {list[i].id : i \in DOMAIN list}
-----------------------------------------------------------------------------
(* Faulty variant: a hit does not move to the front. *)
StayInPlace(list, id) == list

(* MoveToFront; the entry keeps the size it was admitted with. *)
MoveToFront(list, id) ==
  LET i == CHOOSE i \in DOMAIN list : list[i].id = id
  IN <<list[i]>> \o RemoveAt(list, i)

(* EnforceCapacity: how many items are left once the oldest are removed    *)
(* one by one until the rest fits.                                         *)
Kept(list, sz, cap) ==
  CHOOSE n \in 0 .. Len(list) :
    /\ sz - SizeOf(SubSeq(list, n + 1, Len(list))) <= cap
    /\ \A m \in n + 1 .. Len(list) : sz - SizeOf(SubSeq(list, m + 1, Len(list))) > cap

(* Faulty variant: the size of what is evicted is not subtracted. *)
RequestKeepsSize(c, q) ==
  /\ reqs[c] < MaxReqs
  /\ reqs' = [reqs EXCEPT ![c] = @ + 1]
  /\ IF q.id \in IdsOf(evictList[c])
       THEN /\ evictList' = [evictList EXCEPT ![c] = MoveToFront(@, q.id)]
            /\ hits' = [hits EXCEPT ![c] = @ + 1]
            /\ UNCHANGED size
       ELSE LET list == <<q>> \o evictList[c]
                n == Kept(list, SizeOf(list), capacity[c])
            IN /\ evictList' = [evictList EXCEPT ![c] = SubSeq(list, 1, n)]
               /\ size' = [size EXCEPT ![c] = @ + q.size]
               /\ UNCHANGED hits

(* Request: only a miss evicts, and with the capacity of that moment.      *)
Request(c, q) ==
  /\ reqs[c] < MaxReqs
  /\ reqs' = [reqs EXCEPT ![c] = @ + 1]
  /\ IF q.id \in IdsOf(evictList[c])
       THEN /\ evictList' = [evictList EXCEPT ![c] = MoveToFront(@, q.id)]
            /\ hits' = [hits EXCEPT ![c] = @ + 1]
            /\ UNCHANGED size
       ELSE LET list == <<q>> \o evictList[c]
                n == Kept(list, size[c] + q.size, capacity[c])
            IN /\ evictList' = [evictList EXCEPT ![c] = SubSeq(list, 1, n)]
               /\ size' = [size EXCEPT ![c] =
                              @ + q.size - SizeOf(SubSeq(list, n + 1, Len(list)))]
               /\ UNCHANGED hits

(* The next query of querySequence. *)
PlayFirst(q) ==
  /\ query = NoQuery
  /\ Request(1, q)
  /\ query' = q
  /\ hitFirst' = (q.id \in IdsOf(evictList[1]))
  /\ capFirst' = capacity[1]
  /\ resized' = (resized \/ /\ q.id \notin IdsOf(evictList[1])
                            /\ q.id \in IdsOf(evictList[2])
                            /\ q \notin Range(evictList[2]))
  /\ UNCHANGED <<capacity, crossed, newCap, reportVars>>

PlaySecond ==
  /\ query # NoQuery
  /\ Request(2, query)
  /\ query' = NoQuery
  /\ hitFirst' = FALSE
  /\ capFirst' = 0
  /\ crossed' = (crossed \/ capFirst > capacity[2])
  /\ UNCHANGED <<capacity, resized, newCap, reportVars>>
-----------------------------------------------------------------------------
(* The limits of the memcached servers have come from the statistics       *)
(* server, with its answer to a batch of latencies.                        *)
SetFirst ==
  /\ newCap = NotSetting
  /\ \E c \in Capacities, e \in Extras :
       /\ capacity' = [capacity EXCEPT ![1] = c]
       /\ newCap' = c + e
  /\ UNCHANGED <<cacheVars, queryVars, reportVars>>

(* Faulty variant: the second loop runs without the first. *)
SetSecondUnasked ==
  /\ capacity' = [capacity EXCEPT ![2] = newCap]
  /\ newCap' = NotSetting
  /\ UNCHANGED <<cacheVars, queryVars, reportVars>>

SetSecond ==
  /\ newCap # NotSetting
  /\ capacity' = [capacity EXCEPT ![2] = newCap]
  /\ newCap' = NotSetting
  /\ UNCHANGED <<cacheVars, queryVars, reportVars>>

(* GetAndResetHitRatio, which without requests is 0. *)
Reset(c) ==
  /\ hits' = [hits EXCEPT ![c] = IF reqs[c] = 0 THEN @ ELSE 0]
  /\ reqs' = [reqs EXCEPT ![c] = 0]

ReadFirst ==
  /\ report = "idle"
  /\ ratio' = [hits |-> hits[1], reqs |-> reqs[1]]
  /\ Reset(1)
  /\ report' = "second"
  /\ UNCHANGED <<evictList, size, capacity, queryVars, newCap>>

(* Shadow2's hit ratio is below the one read from Shadow1. *)
Lower ==
  \/ hits[2] * ratio.reqs < ratio.hits * reqs[2]
  \/ reqs[2] = 0 /\ ratio.hits > 0

ReadSecond ==
  /\ report = "second"
  /\ Reset(2)
  /\ report' = IF Lower THEN "lower" ELSE "idle"
  /\ ratio' = NoRatio
  /\ UNCHANGED <<evictList, size, capacity, queryVars, newCap>>

(* The capacities are read last; it is an error only if they differ.       *)
Compare ==
  /\ report = "lower"
  /\ report' = IF capacity[1] # capacity[2] THEN "shadow error" ELSE "idle"
  /\ UNCHANGED <<cacheVars, capacity, queryVars, newCap, ratio>>

GoOn ==
  /\ report = "shadow error"
  /\ report' = "idle"
  /\ UNCHANGED <<cacheVars, capacity, queryVars, newCap, ratio>>
-----------------------------------------------------------------------------
Next ==
  \/ \E q \in Entries : PlayFirst(q)
  \/ PlaySecond
  \/ SetFirst \/ SetSecond
  \/ ReadFirst \/ ReadSecond \/ Compare \/ GoOn

Safety == Init /\ [][Next]_vars
-----------------------------------------------------------------------------
(* Every variable has its type. *)
TypeOK ==
  /\ evictList \in [Shadow -> Seq(Entries)]
  /\ size \in [Shadow -> Int]
  /\ capacity \in [Shadow -> Nat]
  /\ hits \in [Shadow -> 0 .. MaxReqs]
  /\ reqs \in [Shadow -> 0 .. MaxReqs]
  /\ query \in Entries \cup {NoQuery}
  /\ hitFirst \in BOOLEAN
  /\ capFirst \in Nat
  /\ newCap \in Nat \cup {NotSetting}
  /\ report \in {"idle", "second", "lower", "shadow error"}
  /\ ratio \in [hits : 0 .. MaxReqs, reqs : 0 .. MaxReqs]
  /\ crossed \in BOOLEAN
  /\ resized \in BOOLEAN

(* The size that decides about evictions is that of the entries in the     *)
(* list, each id there once, through all changes of the capacity and with  *)
(* sizes of -1 as well: the loop of EnforceCapacity never runs out of      *)
(* items to remove.                                                        *)
SizeIsSum ==
  \A c \in Shadow :
    /\ size[c] = SizeOf(evictList[c])
    /\ \A i, j \in DOMAIN evictList[c] :
         evictList[c][i].id = evictList[c][j].id => i = j

(* The LRU order makes the small cache a part of the large one, whenever   *)
(* the capacities are changed, even though they are only enforced with the *)
(* next miss: what Shadow1 holds are the most recent items of Shadow2, and *)
(* a query that hits Shadow1 hits Shadow2.  Two things end this: a query   *)
(* that comes after Shadow1 has grown beyond Shadow2 and before Shadow2    *)
(* follows, and an item that Shadow1 admits again with another size than   *)
(* the one it still has in Shadow2.                                        *)
Inclusion ==
  ~crossed /\ ~resized =>
    /\ query = NoQuery => IsPrefix(evictList[1], evictList[2])
    /\ query # NoQuery /\ hitFirst => query.id \in IdsOf(evictList[2])
=============================================================================

------------------------------ MODULE StatServer ------------------------------
(***************************************************************************)
(* The measurements of the central statistics server                       *)
(* (go/src/statserver/statserver.go).  A post of an application server is  *)
(* put on statStream, and with -verbose on csvStream, before it is         *)
(* answered.  StoreStats writes each measurement into the ring buffer and, *)
(* once enough requests were seen, keeps the slowest of them in a heap.    *)
(* RecomputeStats copies the ring slot by slot, without a lock, and        *)
(* publishes counts, percentiles and critical paths of the copy;           *)
(* GetTailHandler sorts the heap and answers with the tail of all requests *)
(* since the warm-up.                                                      *)
(***************************************************************************)
EXTENDS Integers, FiniteSets, Sequences, SequencesExt

CONSTANTS
  Senders,      \* connections that post measurements, one post at a time each
  Batches,      \* what each of them may post
  Verbose,      \* whether the measurements go to a file as well
  StatCap,      \* capacity of statStream (100)
  CsvCap,       \* capacity of csvStream (1000)
  RingLen,      \* length of latencyRing (10000000)
  Warmup,       \* requests before the heap is filled (5000000)
  HeapCap,      \* how many requests the heap keeps (2000000)
  MinTail,      \* up to that many there is no tail yet (10)
  Tails,        \* the tails asked for, as fractions (1/10000, 1/1000, 1/100, 1/20)
  Percentiles,  \* the percentiles published, as fractions (9999/10000, ... 25/100)
  CritRange,    \* between which percentiles the critical paths are counted
  MaxPosts      \* bound: posts of each sender

IsFraction(f) == f \in Nat \X (Nat \ {0}) /\ f[1] <= f[2]

Measurement == [tp : STRING, lat : Nat, cp : STRING]

ASSUME BatchesAssumption == \A s \in Senders : Batches[s] \subseteq Seq(Measurement)
ASSUME PostsAssumption == \A s \in Senders : MaxPosts[s] \in Nat
ASSUME CapAssumption == {StatCap, CsvCap, RingLen, HeapCap} \subseteq Nat \ {0}
ASSUME HeapAssumption == Warmup \in Nat /\ MinTail \in Nat /\ Verbose \in BOOLEAN
ASSUME FractionAssumption ==
  \A f \in Tails \cup Percentiles \cup {CritRange[1], CritRange[2]} : IsFraction(f)

Fields == {"tp", "lat", "cp"}
Nothing == [tp |-> "", lat |-> 0, cp |-> ""]   \* what an unused slot holds
Missing == -1                                      \* "no such percentile"

VARIABLES
  pc,           \* where the handler of each post is
  batch,        \* what it posts
  posts,        \* bound: how many posts each sender made
  statStream, csvStream,
  store,        \* where StoreStats is
  rest,         \* what it has still to store of its batch
  log,          \* history: the measurements in the order they were stored
  latencyRing,  \* in each slot the place in log of what it holds, 0 for nothing
  ringIdx,
  heapWarmup, total, latencyHeap,
  mutex,        \* latencyHeapMtx
  totalReqs,
  copy          \* the copy that RecomputeStats makes of the ring

handlerVars == <<pc, batch, posts>>
streamVars  == <<statStream, csvStream>>
storeVars   == <<store, rest>>
ringVars    == <<log, latencyRing, ringIdx>>
heapVars    == <<heapWarmup, total, latencyHeap, mutex>>
vars == <<handlerVars, streamVars, storeVars, ringVars, heapVars, totalReqs, copy>>

Types == UNION {{b[i].tp : i \in DOMAIN b} : b \in UNION {Batches[s] : s \in Senders}}

(* A measurement has a type: that of an unused slot is no subsystem's. *)
ASSUME TypesAssumption == Nothing.tp \notin Types

Unread == [i \in 1 .. RingLen |-> [f \in Fields |-> 0]]

Init ==
  /\ pc = [s \in Senders |-> "idle"]
  /\ batch = [s \in Senders |-> <<>>]
  /\ posts = [s \in Senders |-> 0]
  /\ statStream = <<>> /\ csvStream = <<>>
  /\ store = "take" /\ rest = <<>>
  /\ log = <<>>
  /\ latencyRing = [i \in 1 .. RingLen |-> 0]
  /\ ringIdx = 1
  /\ heapWarmup = 0 /\ total = 0 /\ latencyHeap = <<>> /\ mutex = "free"
  /\ totalReqs = [tp \in Types |-> 0]
  /\ copy = [at |-> 0, began |-> 0, slots |-> Unread]
-----------------------------------------------------------------------------
(* PutStatsHandler. *)
Post(s) ==
  /\ pc[s] = "idle" /\ posts[s] < MaxPosts[s]
  /\ \E b \in Batches[s] : batch' = [batch EXCEPT ![s] = b]
  /\ posts' = [posts EXCEPT ![s] = @ + 1]
  /\ pc' = [pc EXCEPT ![s] = "stream"]
  /\ UNCHANGED <<streamVars, storeVars, ringVars, heapVars, totalReqs, copy>>

(* A handler that has sent its batch answers at once, with the memory      *)
(* limits: see ControlLoop.                                                *)
Answered(s) == pc' = [pc EXCEPT ![s] = "idle"] /\ batch' = [batch EXCEPT ![s] = <<>>]

SendStats(s) ==
  /\ pc[s] = "stream"
  /\ Len(statStream) < StatCap
  /\ statStream' = Append(statStream, batch[s])
  /\ IF Verbose THEN pc' = [pc EXCEPT ![s] = "csv"] /\ UNCHANGED batch ELSE Answered(s)
  /\ UNCHANGED <<posts, csvStream, storeVars, ringVars, heapVars, totalReqs, copy>>

SendCsv(s) ==
  /\ pc[s] = "csv"
  /\ Len(csvStream) < CsvCap
  /\ csvStream' = Append(csvStream, batch[s])
  /\ Answered(s)
  /\ UNCHANGED <<posts, statStream, storeVars, ringVars, heapVars, totalReqs, copy>>

CsvStats ==
  /\ csvStream # <<>>
  /\ csvStream' = Tail(csvStream)
  /\ UNCHANGED <<handlerVars, statStream, storeVars, ringVars, heapVars, totalReqs, copy>>
-----------------------------------------------------------------------------
(* StoreStats takes a batch, *)
TakeBatch ==
  /\ store = "take" /\ statStream # <<>>
  /\ rest' = Head(statStream)
  /\ statStream' = Tail(statStream)
  /\ store' = IF rest' = <<>> THEN "take" ELSE "next"
  /\ UNCHANGED <<handlerVars, csvStream, ringVars, heapVars, totalReqs, copy>>

(* begins to write a measurement into its slot, *)
BeginWrite ==
  /\ store = "next"
  /\ log' = Append(log, Head(rest))
  /\ store' = "write"
  /\ UNCHANGED <<handlerVars, streamVars, rest, latencyRing, ringIdx, heapVars, totalReqs, copy>>

(* Faulty variants: the last slot is left out; the index runs over. *)
NextSlotEarly(i) == IF i < RingLen - 1 THEN i + 1 ELSE 1
NextSlotLate(i) == IF i <= RingLen THEN i + 1 ELSE 1
NextSlot(i) == IF i < RingLen THEN i + 1 ELSE 1

IsReq(m) == m.tp = "req"

(* The end of the loop over a batch.  It is not a step of its own: to come *)
(* between the write and the count is to come before the end of the write. *)
Counted ==
  /\ totalReqs' = [totalReqs EXCEPT ![Head(rest).tp] = @ + 1]
  /\ rest' = Tail(rest)
  /\ store' = IF rest' = <<>> THEN "take" ELSE "next"

(* ends that, *)
EndWrite ==
  /\ store = "write"
  /\ latencyRing' = [latencyRing EXCEPT ![ringIdx] = Len(log)]
  /\ ringIdx' = NextSlot(ringIdx)
  /\ heapWarmup' = IF IsReq(Head(rest)) /\ heapWarmup <= 2 * Warmup THEN heapWarmup + 1 ELSE heapWarmup
  /\ IF IsReq(Head(rest)) /\ heapWarmup' > Warmup
       THEN store' = "push" /\ UNCHANGED <<rest, totalReqs>>
       ELSE Counted
  /\ UNCHANGED <<handlerVars, streamVars, log, total, latencyHeap, mutex, copy>>

(* The heap is an ascending sequence: its head is the root. *)
HeapPush(h, x) == InsertAt(h, Cardinality({i \in DOMAIN h : h[i] <= x}) + 1, x)

(* Faulty variant: what is slower than the fastest is not let in. *)
KeptFast(h, x) ==
  IF Len(h) < HeapCap THEN HeapPush(h, x)
  ELSE IF x < Head(h) THEN HeapPush(Tail(h), x) ELSE h

Kept(h, x) ==
  IF Len(h) < HeapCap THEN HeapPush(h, x)
  ELSE IF x > Head(h) THEN HeapPush(Tail(h), x) ELSE h

(* Faulty variant: the lock is kept when the heap has room. *)
PushKeepsLock ==
  /\ store = "push" /\ mutex = "free"
  /\ total' = total + 1
  /\ latencyHeap' = Kept(latencyHeap, Head(rest).lat)
  /\ mutex' = IF Len(latencyHeap) < HeapCap THEN "store" ELSE "free"
  /\ Counted
  /\ UNCHANGED <<handlerVars, streamVars, ringVars, heapWarmup, copy>>

(* and pushes a request into the heap, under the lock. *)
Push ==
  /\ store = "push" /\ mutex = "free"
  /\ total' = total + 1
  /\ latencyHeap' = Kept(latencyHeap, Head(rest).lat)
  /\ Counted
  /\ UNCHANGED <<handlerVars, streamVars, ringVars, heapWarmup, mutex, copy>>

StoreStats == TakeBatch \/ BeginWrite \/ EndWrite \/ Push
-----------------------------------------------------------------------------
Part(f, n) == (f[1] * n) \div f[2]
Stored == Len(log) - (IF store = "write" THEN 1 ELSE 0)

(* RecomputeStats: the range over the array copies it. *)
BeginCopy ==
  /\ copy.at = 0
  /\ copy' = [copy EXCEPT !.at = 1, !.began = Stored]
  /\ UNCHANGED <<handlerVars, streamVars, storeVars, ringVars, heapVars, totalReqs>>

(* A slot that StoreStats writes meanwhile may be read half written: each  *)
(* field is what it was or what it will be.                                *)
Readable(i) ==
  {latencyRing[i]} \cup (IF store = "write" /\ ringIdx = i THEN {Len(log)} ELSE {})

CopySlot ==
  /\ copy.at \in 1 .. RingLen
  /\ \E slot \in [Fields -> Readable(copy.at)] :
       copy' = [copy EXCEPT !.at = @ + 1, !.slots[copy.at] = slot]
  /\ UNCHANGED <<handlerVars, streamVars, storeVars, ringVars, heapVars, totalReqs>>

Entry(slot) == [f \in Fields |-> IF slot[f] = 0 THEN Nothing[f] ELSE log[slot[f]][f]]
Copied == [i \in 1 .. RingLen |-> Entry(copy.slots[i])]

SlotsOf(tp) == {i \in 1 .. RingLen : Copied[i].tp = tp}

Ascending(order) == \A i, j \in DOMAIN order : i < j => Copied[order[i]].lat <= Copied[order[j]].lat

(* Faulty variant: the latencies are left as they are in the ring. *)
Unsorted(slots) == SetToSeqs(slots)

(* sort.Sort is not stable: equal latencies come in any order. *)
Sorted(slots) == {order \in SetToSeqs(slots) : Ascending(order)}

SortedPercentile(vals, f) ==
  IF Len(vals) > 1
  THEN LET i == Part(f, Len(vals)) IN Copied[IF i < Len(vals) THEN vals[i + 1] ELSE vals[1]].lat
  ELSE Missing

CountCritPath(vals, range, name) ==
  IF Len(vals) > 1
  THEN Cardinality({j \in Part(range[1], Len(vals)) .. Part(range[2], Len(vals)) - 1 :
                      Copied[vals[j + 1]].cp = name})
  ELSE 0

(* What is published, given how the requests were sorted. *)
Stats(lt) ==
  [tp \in {Copied[i].tp : i \in 1 .. RingLen} |->
     LET lats == CHOOSE order \in Sorted(SlotsOf(tp)) : TRUE IN
       [count      |-> Len(lats),
        percentile |-> [f \in Percentiles |-> SortedPercentile(lats, f)],
        crit_count |-> CountCritPath(lt, CritRange, tp),
        totalreqs  |-> IF tp \in Types THEN totalReqs[tp] ELSE 0]]

(* The copy gives way to its statistics, which are only read from then on. *)
Publish ==
  /\ copy.at = RingLen + 1
  /\ copy' = [at |-> 0, began |-> 0, slots |-> Unread]
  /\ UNCHANGED <<handlerVars, streamVars, storeVars, ringVars, heapVars, totalReqs>>

RecomputeStats == BeginCopy \/ CopySlot \/ Publish
-----------------------------------------------------------------------------
InTail(n) ==
  IF n >= Len(latencyHeap) THEN Head(latencyHeap) ELSE latencyHeap[Len(latencyHeap) - n + 1]

HasTail == Len(latencyHeap) > MinTail
Smallest(n) == \E f \in Tails : Part(f, n) = 0

(* The answer of GetTailHandler, which holds the lock from the first look  *)
(* to the last and changes nothing but the order of the heap.              *)
TailAnswer ==
  IF HasTail
  THEN [total |-> total,
        lat |-> [f \in Tails |-> InTail(Part(f, total))],
        overflow |-> \E f \in Tails : Part(f, total) >= Len(latencyHeap)]
  ELSE [total |-> 0, lat |-> <<>>, overflow |-> FALSE]

(* As long as the smallest tail is less than one request, the index is the *)
(* length of the heap: the handler panics, net/http recovers, and nobody   *)
(* unlocks.                                                                *)
GetTailPanics ==
  /\ mutex = "free"
  /\ HasTail /\ Smallest(total)
  /\ mutex' = "lost"
  /\ UNCHANGED <<handlerVars, streamVars, storeVars, ringVars, heapWarmup, total, latencyHeap, totalReqs, copy>>

Next ==
  \/ \E s \in Senders : Post(s) \/ SendStats(s) \/ SendCsv(s)
  \/ CsvStats \/ StoreStats \/ RecomputeStats
  \/ GetTailPanics

Safety == Init /\ [][Next]_vars

(* The goroutines run.  A send is strongly fair: Go serves the senders     *)
(* that wait on a channel first come, first served.                        *)
Spec ==
  /\ Safety
  /\ \A s \in Senders : SF_vars(SendStats(s)) /\ SF_vars(SendCsv(s))
  /\ WF_vars(CsvStats) /\ WF_vars(StoreStats)
-----------------------------------------------------------------------------
(* Every variable has its type; a slot of the ring or of its copy holds    *)
(* only what was stored.                                                   *)
TypeOK ==
  /\ pc \in [Senders -> {"idle", "stream", "csv"}]
  /\ DOMAIN batch = Senders /\ \A s \in Senders : batch[s] \in Batches[s] \cup {<<>>}
  /\ posts \in [Senders -> Nat] /\ \A s \in Senders : posts[s] <= MaxPosts[s]
  /\ statStream \in Seq(Seq(Measurement)) /\ Len(statStream) <= StatCap
  /\ csvStream \in Seq(Seq(Measurement)) /\ Len(csvStream) <= CsvCap
  /\ store \in {"take", "next", "write", "push"}
  /\ rest \in Seq(Measurement) /\ (store = "take" <=> rest = <<>>)
  /\ log \in Seq(Measurement)
  /\ latencyRing \in [1 .. RingLen -> 0 .. Len(log)]
  /\ ringIdx \in 1 .. RingLen
  /\ heapWarmup \in 0 .. 2 * Warmup + 1
  /\ total \in Nat
  /\ latencyHeap \in Seq(Nat) /\ Len(latencyHeap) <= HeapCap
  /\ mutex \in {"free", "lost"}
  /\ totalReqs \in [Types -> Nat]
  /\ copy \in [at : 0 .. RingLen + 1, began : 0 .. Len(log),
               slots : [1 .. RingLen -> [Fields -> 0 .. Len(log)]]]

(* The requests that StoreStats is done with, without those of the warm-up. *)
Done == Len(log) - (IF store \in {"write", "push"} THEN 1 ELSE 0)
RequestsUpTo(n) == {i \in 1 .. n : IsReq(log[i])}
Requests == {i \in RequestsUpTo(Done) : Cardinality(RequestsUpTo(i)) > Warmup}
Above(v) == {i \in Requests : log[i].lat > v}

(* v is the n-th slowest of them. *)
IsNth(v, n) == Cardinality(Above(v)) < n /\ Cardinality(Above(v - 1)) >= n

(* The heap keeps only some of the requests, yet every tail is that of all *)
(* requests since the warm-up, or, with the flag set, of as many as the    *)
(* heap holds.                                                             *)
TailRight ==
  mutex = "free" /\ HasTail /\ ~Smallest(total) =>
    /\ TailAnswer.total = Cardinality(Requests)
    /\ \A f \in Tails : LET n == Part(f, total) IN
         /\ IsNth(TailAnswer.lat[f], IF n < HeapCap THEN n ELSE HeapCap)
         /\ n > HeapCap => TailAnswer.overflow

(* The copy is made while the ring is written.  Still each field of a slot *)
(* is that of a measurement that belongs there, and none that had been     *)
(* overwritten when the copy began; nothing stored by then and not         *)
(* overwritten since is missing.                                           *)
Belongs(k, i) == (k - i) % RingLen = 0
CopyRecent ==
  \A i \in 1 .. RingLen : \A f \in Fields : i < copy.at =>
    LET k == copy.slots[i][f] IN
      IF k = 0 THEN i > copy.began ELSE k + RingLen > copy.began /\ Belongs(k, i)

Slower(i) == {j \in SlotsOf("req") : Copied[j].lat > Copied[i].lat}
AsSlow(i) == {j \in SlotsOf("req") : Copied[j].lat >= Copied[i].lat}

(* What is published is right for the copy it was made of: a percentile    *)
(* has that part of the values, and no more, below it; the critical path   *)
(* of a request counts if it is among the slowest.  And the count of a     *)
(* type exceeds the total, which is read later but also written later, by  *)
(* no more than the measurement that is being stored.                      *)
StatsRight ==
  copy.at = RingLen + 1 => \A lt \in Sorted(SlotsOf("req")) : \A tp \in DOMAIN Stats(lt) :
    LET s == Stats(lt)[tp]
        n == Cardinality(SlotsOf("req"))
        top == n - Part(CritRange[1], n)
    IN
      /\ tp \in Types => s.count <= s.totalreqs + 1
      /\ s.count > 1 => \A f \in Percentiles : LET v == s.percentile[f] IN
           /\ f[1] < f[2] => Cardinality({i \in SlotsOf(tp) : Copied[i].lat <= v}) * f[2] > f[1] * s.count
           /\ Cardinality({i \in SlotsOf(tp) : Copied[i].lat < v}) * f[2] <= f[1] * s.count
      /\ n > 1 /\ CritRange[2][1] = CritRange[2][2] =>
           /\ s.crit_count >= Cardinality({i \in SlotsOf("req") : Copied[i].cp = tp /\ Cardinality(AsSlow(i)) <= top})
           /\ s.crit_count <= Cardinality({i \in SlotsOf("req") : Copied[i].cp = tp /\ Cardinality(Slower(i)) < top})

(* Whatever the measurements and however the channels fill up, every post  *)
(* is answered and stored, unless the lock of the heap was lost.           *)
Quiet == statStream = <<>> /\ rest = <<>> /\ \A s \in Senders : pc[s] = "idle"
PutsStoredUnlessLost == \A s \in Senders : pc[s] = "stream" ~> (Quiet \/ mutex = "lost")

(* What src/README.md:45 says: the statistics server aggregates the        *)
(* measurements, so that a post of them is answered.                       *)
PutsAnswered == \A s \in Senders : pc[s] = "stream" ~> pc[s] = "idle"
=============================================================================

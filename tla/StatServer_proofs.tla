-------------------------- MODULE StatServer_proofs --------------------------
(***************************************************************************)
(* Theorems about StatServer, for any senders and measurements, any ring,  *)
(* heap and warm-up.                                                       *)
(***************************************************************************)
EXTENDS StatServer, FiniteSetTheorems, SequenceTheorems, TLAPS

(* Where StoreStats is with the measurement it has begun to store. *)
Storing ==
  /\ store \in {"write", "push"} => log # <<>> /\ Head(rest) = log[Len(log)]
  /\ store = "push" => IsReq(log[Len(log)]) /\ Cardinality(RequestsUpTo(Len(log))) > Warmup

(* The index goes around with the log, and each slot holds the last        *)
(* measurement that belongs there.                                         *)
RingRight ==
  /\ Belongs(Stored + 1, ringIdx)
  /\ \A i \in 1 .. RingLen : LET k == latencyRing[i] IN
       /\ k <= Stored
       /\ IF k = 0 THEN i > Stored ELSE k + RingLen > Stored /\ Belongs(k, i)

(* A copy in the making is no younger than the ring. *)
CopyBegan == copy.began <= Stored

(* heapWarmup counts the requests until the warm-up is twice over. *)
Least(m, n) == IF m <= n THEN m ELSE n
WarmedUp == heapWarmup = Least(Cardinality(RequestsUpTo(Stored)), 2 * Warmup + 1)

(* The m-th of the heap from the top is the m-th slowest of the requests:  *)
(* it is above v just if m of them are.                                    *)
RankedBy(h, v, c) == \A j \in 1 .. Len(h) : h[j] > v <=> Len(h) < j + c
Ranked ==
  /\ total = Cardinality(Requests)
  /\ Len(latencyHeap) = Least(total, HeapCap)
  /\ \A v \in Int : RankedBy(latencyHeap, v, Cardinality(Above(v)))

(* What is on its way to StoreStats has a known type, and each type is     *)
(* counted as often as the log has it.                                     *)
Known == {m \in Measurement : m.tp \in Types}
Typed == statStream \in Seq(Seq(Known)) /\ rest \in Seq(Known)
OfType(tp, n) == {i \in 1 .. n : log[i].tp = tp}
CountsRight == \A tp \in Types : totalReqs[tp] = Cardinality(OfType(tp, Done))

IInv ==
  /\ TypeOK /\ Storing /\ RingRight /\ CopyBegan /\ CopyRecent /\ WarmedUp /\ Ranked
  /\ Typed /\ CountsRight
-----------------------------------------------------------------------------
LEMMA Division ==
  ASSUME NEW n \in Nat \ {0}, NEW x \in Int PROVE x \div n \in Int /\ x = n * (x \div n) + (x % n)
OBVIOUS

LEMMA Multiple == ASSUME NEW n \in Nat \ {0}, NEW q \in Int PROVE (n * q) % n = 0
OBVIOUS

(* Once around the ring is the same slot. *)
LEMMA Around ==
  ASSUME NEW n \in Nat \ {0}, NEW x \in Int, x % n = 0 PROVE (x + n) % n = 0
<1> DEFINE q == x \div n
<1>1. q \in Int /\ x = n * q
  BY Division
<1> HIDE DEF q
<1>2. x + n = n * (q + 1)
  BY <1>1
<1> QED BY <1>1, <1>2, Multiple

(* Less than once around is not, *)
LEMMA SameLap ==
  ASSUME NEW n \in Nat \ {0}, NEW a \in Int, NEW b \in Int, a % n = 0, b % n = 0, -n < a - b, a - b < n
  PROVE  a = b
<1> DEFINE p == a \div n
           q == b \div n
<1>1. p \in Int /\ q \in Int /\ a = n * p /\ b = n * q
  BY Division
<1> HIDE DEF p, q
<1>2. \A k \in Int : -n < n * k /\ n * k < n => k = 0
  OBVIOUS
<1>3. n * (p - q) = a - b
  BY <1>1
<1>4. p - q = 0
  BY <1>1, <1>2, <1>3
<1> QED  BY <1>1, <1>4

LEMMA BelongsNext ==
  ASSUME NEW k \in Int, NEW i \in 1 .. RingLen, Belongs(k, i)
  PROVE  Belongs(k + 1, NextSlot(i)) /\ NextSlot(i) \in 1 .. RingLen
<1>0. RingLen \in Nat \ {0}
  BY CapAssumption
<1>1. CASE i < RingLen
  <2>1. NextSlot(i) = i + 1 /\ (k + 1) - (i + 1) = k - i
    BY <1>0, <1>1 DEF NextSlot
  <2>2. NextSlot(i) \in 1 .. RingLen
    BY <1>0, <1>1, <2>1
  <2> QED  BY <2>1, <2>2 DEF Belongs
<1>2. CASE ~(i < RingLen)
  <2>1. NextSlot(i) = 1 /\ (k + 1) - 1 = (k - i) + RingLen /\ k - i \in Int
    BY <1>0, <1>2 DEF NextSlot
  <2>2. ((k - i) + RingLen) % RingLen = 0
    BY <1>0, <2>1, Around DEF Belongs
  <2>3. NextSlot(i) \in 1 .. RingLen
    BY <1>0, <2>1
  <2> QED  BY <2>1, <2>2, <2>3 DEF Belongs
<1> QED  BY <1>1, <1>2

LEMMA BelongsOnce ==
  ASSUME NEW k \in Int, NEW j \in Int, NEW i \in 1 .. RingLen, NEW h \in 1 .. RingLen,
         Belongs(k, i), Belongs(j, h), k = j \/ k = j - RingLen
  PROVE  i = h
<1>0. RingLen \in Nat \ {0}
  BY CapAssumption
<1> DEFINE a == k - i
           b == j - h
           c == a + RingLen
<1>1. a \in Int /\ b \in Int /\ a % RingLen = 0 /\ b % RingLen = 0
  BY <1>0 DEF Belongs
<1>2. CASE k = j
  <2>1. -RingLen < a - b /\ a - b < RingLen
    BY <1>0, <1>2
  <2>2. a = b
    <3> HIDE DEF a, b
    <3> QED  BY <1>0, <1>1, <2>1, SameLap
  <2> QED  BY <1>2, <2>2
<1>3. CASE k = j - RingLen
  <2>1. -RingLen < c - b /\ c - b < RingLen /\ c \in Int
    BY <1>0, <1>3
  <2>2. c = b
    <3>1. (a + RingLen) % RingLen = 0
      <4> HIDE DEF a, b, c
      <4> QED  BY <1>0, <1>1, Around
    <3>2. c % RingLen = 0
      BY <3>1
    <3> HIDE DEF a, b, c
    <3> QED  BY <1>0, <1>1, <2>1, <3>2, SameLap
  <2> QED  BY <1>0, <1>3, <2>2
<1> QED  BY <1>2, <1>3
-----------------------------------------------------------------------------
(* What the steps of StoreStats do. *)
LEMMA Begun ==
  ASSUME TypeOK, BeginWrite
  PROVE  /\ Len(log) \in Nat /\ Len(log') = Len(log) + 1 /\ log' \in Seq(Measurement)
         /\ log'[Len(log')] = Head(rest) /\ Head(rest) \in Measurement
         /\ \A i \in 1 .. Len(log) : log'[i] = log[i]
<1>1. rest \in Seq(Measurement) /\ rest # <<>> /\ log \in Seq(Measurement) /\ log' = Append(log, Head(rest))
  BY DEF TypeOK, BeginWrite
<1> QED  BY <1>1

LEMMA StoredType ==
  ASSUME TypeOK, Storing
  PROVE  /\ Len(log) \in Nat /\ Stored \in 0 .. Len(log) /\ Done \in 0 .. Stored
         /\ store \in {"write", "push"} => Len(log) # 0 /\ Done = Len(log) - 1
         /\ store \notin {"write", "push"} => Done = Len(log)
         /\ store = "write" => Stored = Len(log) - 1
         /\ store # "write" => Stored = Len(log)
<1>1. log \in Seq(Measurement) /\ Len(log) \in Nat
  BY DEF TypeOK
<1>2. store \in {"write", "push"} => Len(log) # 0
  BY <1>1 DEF Storing
<1> QED  BY <1>1, <1>2 DEF Stored, Done

(* The steps that touch neither log nor ring nor heap. *)
Aside ==
  /\ UNCHANGED <<ringVars, heapWarmup, total, latencyHeap>>
  /\ \/ UNCHANGED <<store, rest>>
     \/ store = "take" /\ store' \in {"take", "next"}

LEMMA Steps == [Next]_vars => BeginWrite \/ EndWrite \/ Push \/ Aside
<1>1. TakeBatch => Aside
  BY DEF TakeBatch, Aside, heapVars, ringVars
<1>2. ASSUME NEW s \in Senders, Post(s) \/ SendStats(s) \/ SendCsv(s) PROVE Aside
  BY <1>2 DEF Post, SendStats, SendCsv, Aside, heapVars, storeVars, ringVars
<1>3. CsvStats \/ RecomputeStats \/ GetTailPanics \/ UNCHANGED vars => Aside
  BY DEF CsvStats, RecomputeStats, BeginCopy, CopySlot, Publish, GetTailPanics, Aside, vars,
         heapVars, storeVars, ringVars
<1> QED  BY <1>1, <1>2, <1>3 DEF Next, StoreStats
-----------------------------------------------------------------------------
LEMMA CountType ==
  ASSUME NEW n \in Nat PROVE IsFiniteSet(RequestsUpTo(n)) /\ Cardinality(RequestsUpTo(n)) \in Nat
<1>1. RequestsUpTo(n) \subseteq 1 .. n /\ IsFiniteSet(1 .. n)
  BY FS_Interval DEF RequestsUpTo
<1> QED  BY <1>1, FS_Subset, FS_CardinalityType

LEMMA CountNext ==
  ASSUME NEW n \in Nat
  PROVE  Cardinality(RequestsUpTo(n + 1)) =
           Cardinality(RequestsUpTo(n)) + (IF IsReq(log[n + 1]) THEN 1 ELSE 0)
<1> DEFINE S == RequestsUpTo(n)
<1>1. IsFiniteSet(S) /\ Cardinality(S) \in Nat /\ n + 1 \notin S
  BY CountType DEF RequestsUpTo
<1>2. CASE IsReq(log[n + 1])
  <2>1. RequestsUpTo(n + 1) = S \cup {n + 1}
    BY <1>2 DEF RequestsUpTo
  <2> HIDE DEF S
  <2> QED  BY <1>1, <1>2, <2>1, FS_AddElement DEF S
<1>3. CASE ~IsReq(log[n + 1])
  <2>1. RequestsUpTo(n + 1) = S
    BY <1>3 DEF RequestsUpTo
  <2> QED  BY <1>1, <1>3, <2>1
<1> QED  BY <1>2, <1>3
-----------------------------------------------------------------------------
LEMMA StoringStep == TypeOK /\ Storing /\ WarmedUp /\ [Next]_vars => Storing'
<1> SUFFICES ASSUME TypeOK, Storing, WarmedUp, [Next]_vars PROVE Storing'
  OBVIOUS
<1>1. CASE BeginWrite
  <2>1. Len(log') # 0 /\ log' \in Seq(Measurement) /\ log'[Len(log')] = Head(rest) /\ rest' = rest
    BY <1>1, Begun DEF BeginWrite
  <2>2. store' = "write"
    BY <1>1 DEF BeginWrite
  <2> QED  BY <2>1, <2>2 DEF Storing
<1>2. CASE EndWrite
  <2>1. store' \in {"take", "next"} \/ (store' = "push" /\ UNCHANGED <<log, rest>>)
    BY <1>2 DEF EndWrite, Counted
  <2>2. store = "write" /\ Head(rest) = log[Len(log)] /\ log # <<>>
    BY <1>2 DEF EndWrite, Storing
  <2>3. ASSUME store' = "push"
        PROVE  IsReq(log[Len(log)]) /\ Cardinality(RequestsUpTo(Len(log))) > Warmup
    <3>1. IsReq(Head(rest)) /\ heapWarmup' > Warmup
      BY <1>2, <2>3 DEF EndWrite, Counted
    <3> DEFINE n == Len(log)
               r == Cardinality(RequestsUpTo(n - 1))
    <3>2. n \in Nat \ {0} /\ Stored = n - 1
      BY <2>2, StoredType
    <3>3. r \in Nat /\ Cardinality(RequestsUpTo(n)) = r + 1
      <4> HIDE DEF n
      <4>1. PICK m \in Nat : m = n - 1 /\ m + 1 = n
        BY <3>2
      <4>2. IsReq(log[m + 1])
        BY <2>2, <3>1, <4>1 DEF n
      <4> QED  BY <4>1, <4>2, CountNext, CountType
    <3>4. heapWarmup = Least(r, 2 * Warmup + 1)
      BY <3>2 DEF WarmedUp
    <3>5. heapWarmup' = (IF heapWarmup <= 2 * Warmup THEN heapWarmup + 1 ELSE heapWarmup)
      BY <1>2, <3>1 DEF EndWrite
    <3> HIDE DEF r
    <3>6. Warmup \in Nat
      BY HeapAssumption
    <3>7. r + 1 > Warmup
      BY <3>1, <3>3, <3>4, <3>5, <3>6 DEF Least
    <3> QED  BY <2>2, <3>1, <3>3, <3>7
  <2> QED  BY <2>1, <2>2, <2>3 DEF Storing, RequestsUpTo
<1>3. CASE Push
  BY <1>3 DEF Push, Counted, Storing
<1>4. CASE Aside
  BY <1>4 DEF Aside, ringVars, Storing, RequestsUpTo
<1> QED  BY <1>1, <1>2, <1>3, <1>4, Steps
-----------------------------------------------------------------------------
LEMMA RingStep == TypeOK /\ Storing /\ RingRight /\ [Next]_vars => RingRight'
<1> SUFFICES ASSUME TypeOK, Storing, RingRight, [Next]_vars PROVE RingRight'
  OBVIOUS
<1>0. /\ RingLen \in Nat \ {0} /\ ringIdx \in 1 .. RingLen /\ Stored \in Nat
      /\ latencyRing \in [1 .. RingLen -> Nat]
      /\ Belongs(Stored + 1, ringIdx)
      /\ \A i \in 1 .. RingLen : LET k == latencyRing[i] IN
           /\ k <= Stored
           /\ IF k = 0 THEN i > Stored ELSE k + RingLen > Stored /\ Belongs(k, i)
  BY CapAssumption, StoredType, SMTT(30) DEF TypeOK, RingRight
<1>1. ASSUME Stored' = Stored, UNCHANGED <<latencyRing, ringIdx>> PROVE RingRight'
  BY <1>0, <1>1 DEF RingRight, Belongs
<1>2. CASE BeginWrite
  <2>1. Len(log) \in Nat /\ Len(log') = Len(log) + 1 /\ store = "next" /\ store' = "write"
    BY <1>2, Begun DEF BeginWrite
  <2>2. Stored' = Stored
    BY <2>1 DEF Stored
  <2> QED  BY <1>1, <1>2, <2>2 DEF BeginWrite
<1>3. CASE EndWrite
  <2> DEFINE n == Stored
  <2>1. store = "write" /\ Len(log) = n + 1 /\ log' = log
    <3>1. store = "write" /\ log' = log
      BY <1>3 DEF EndWrite
    <3> QED  BY <3>1, StoredType
  <2>2. Stored' = n + 1
    <3>1. store' # "write"
      BY <1>3 DEF EndWrite, Counted
    <3> QED  BY <2>1, <3>1 DEF Stored
  <2>3. latencyRing' = [latencyRing EXCEPT ![ringIdx] = n + 1] /\ ringIdx' = NextSlot(ringIdx)
    BY <1>3, <2>1 DEF EndWrite
  <2> HIDE DEF n
  <2>4. n \in Nat
    BY <1>0 DEF n
  <2>5. Belongs(n + 1 + 1, ringIdx') /\ Belongs(n + 1, ringIdx)
    BY <1>0, <2>3, <2>4, BelongsNext DEF n
  <2>6. ASSUME NEW i \in 1 .. RingLen
        PROVE  LET k == latencyRing'[i] IN
                 /\ k <= n + 1
                 /\ IF k = 0 THEN i > n + 1 ELSE k + RingLen > n + 1 /\ Belongs(k, i)
    <3>1. CASE i = ringIdx
      BY <1>0, <2>3, <2>4, <2>5, <3>1
    <3>2. CASE i # ringIdx
      <4>1. PICK k \in Nat : k = latencyRing[i] /\ k = latencyRing'[i]
        BY <1>0, <2>3, <3>2
      <4>2. k <= n /\ (k = 0 => i > n) /\ (k # 0 => k + RingLen > n /\ Belongs(k, i))
        BY <1>0, <4>1 DEF n
      <4>3. k = 0 => i # n + 1
        <5> SUFFICES ASSUME i = n + 1 PROVE FALSE
          BY <3>2
        <5>1. Belongs(n + 1, i)
          BY <1>0, <2>4, Multiple DEF Belongs
        <5> QED  BY <1>0, <2>4, <2>5, <3>2, <5>1, BelongsOnce
      <4>4. k # 0 => k # n + 1 - RingLen
        BY <1>0, <2>4, <2>5, <3>2, <4>2, BelongsOnce
      <4>5. /\ k <= n + 1 /\ (k = 0 => i > n + 1)
            /\ k # 0 => k + RingLen > n + 1 /\ Belongs(k, i)
        BY <1>0, <2>4, <4>2, <4>3, <4>4
      <4> QED  BY <4>1, <4>5
    <3> QED  BY <3>1, <3>2
  <2>7. Belongs(Stored' + 1, ringIdx')
    BY <2>2, <2>5
  <2>8. \A i \in 1 .. RingLen : LET k == latencyRing'[i] IN
          /\ k <= Stored'
          /\ IF k = 0 THEN i > Stored' ELSE k + RingLen > Stored' /\ Belongs(k, i)
    <3> HIDE DEF Belongs
    <3> QED  BY <2>2, <2>6
  <2> QED  BY <2>7, <2>8 DEF RingRight, Belongs
<1>4. CASE Push
  <2>1. UNCHANGED <<log, latencyRing, ringIdx>> /\ store = "push" /\ store' # "write"
    BY <1>4 DEF Push, Counted, ringVars
  <2> QED  BY <1>1, <2>1 DEF Stored
<1>5. CASE Aside
  <2>1. UNCHANGED <<log, latencyRing, ringIdx>> /\ (store' = store \/ (store = "take" /\ store' # "write"))
    BY <1>5 DEF Aside, ringVars
  <2> QED  BY <1>1, <2>1 DEF Stored
<1> QED  BY <1>2, <1>3, <1>4, <1>5, Steps
-----------------------------------------------------------------------------
LEMMA StoredGrows == TypeOK /\ Storing /\ [Next]_vars => Stored' \in Nat /\ Stored' >= Stored
<1> SUFFICES ASSUME TypeOK, Storing, [Next]_vars PROVE Stored' \in Nat /\ Stored' >= Stored
  OBVIOUS
<1>0. Stored \in Nat
  BY StoredType
<1>1. CASE BeginWrite
  <2>1. Len(log) \in Nat /\ Len(log') = Len(log) + 1 /\ store = "next" /\ store' = "write"
    BY <1>1, Begun DEF BeginWrite
  <2> QED  BY <2>1 DEF Stored
<1>2. CASE EndWrite
  <2>1. store = "write" /\ log' = log /\ store' # "write" /\ Len(log) \in Nat
    BY <1>2, StoredType DEF EndWrite, Counted
  <2> QED  BY <2>1 DEF Stored
<1>3. CASE Push
  <2>1. log' = log /\ store = "push" /\ store' # "write"
    BY <1>3 DEF Push, Counted, ringVars
  <2> QED  BY <1>0, <2>1 DEF Stored
<1>4. CASE Aside
  <2>1. log' = log /\ (store' = store \/ (store = "take" /\ store' # "write"))
    BY <1>4 DEF Aside, ringVars
  <2> QED  BY <1>0, <2>1 DEF Stored
<1> QED  BY <1>1, <1>2, <1>3, <1>4, Steps

LEMMA CopyCases == [Next]_vars => BeginCopy \/ CopySlot \/ Publish \/ UNCHANGED copy
BY DEF Next, Post, SendStats, SendCsv, CsvStats, StoreStats, TakeBatch, BeginWrite, EndWrite, Push,
       RecomputeStats, GetTailPanics, vars

LEMMA CopyStep ==
  TypeOK /\ Storing /\ RingRight /\ CopyBegan /\ CopyRecent /\ [Next]_vars => CopyBegan' /\ CopyRecent'
<1> SUFFICES ASSUME TypeOK, Storing, RingRight, CopyBegan, CopyRecent, [Next]_vars
             PROVE  CopyBegan' /\ CopyRecent'
  OBVIOUS
<1>0. /\ copy \in [at : 0 .. RingLen + 1, began : 0 .. Len(log),
                   slots : [1 .. RingLen -> [Fields -> 0 .. Len(log)]]]
      /\ Stored \in Nat /\ Stored' \in Nat /\ Stored' >= Stored /\ RingLen \in Nat \ {0} /\ Len(log) \in Nat
  <2>1. Stored \in Nat /\ Len(log) \in Nat
    BY StoredType
  <2>2. Stored' \in Nat /\ Stored' >= Stored
    BY StoredGrows
  <2>3. copy \in [at : 0 .. RingLen + 1, began : 0 .. Len(log),
                  slots : [1 .. RingLen -> [Fields -> 0 .. Len(log)]]]
    BY DEF TypeOK
  <2> QED  BY <2>1, <2>2, <2>3, CapAssumption
<1>1. CASE BeginCopy
  <2>1. copy' = [copy EXCEPT !.at = 1, !.began = Stored] /\ Stored' = Stored
    BY <1>1 DEF BeginCopy, ringVars, storeVars, Stored
  <2>2. copy'.at = 1 /\ copy'.began = Stored
    BY <1>0, <2>1
  <2> QED  BY <1>0, <2>1, <2>2 DEF CopyBegan, CopyRecent
<1>2. CASE CopySlot
  <2> DEFINE a == copy.at
  <2>1. a \in 1 .. RingLen
    BY <1>2 DEF CopySlot
  <2>2. PICK slot \in [Fields -> Readable(a)] : copy' = [copy EXCEPT !.at = @ + 1, !.slots[a] = slot]
    BY <1>2 DEF CopySlot
  <2>3. copy'.at = a + 1 /\ copy'.began = copy.began /\ copy'.slots = [copy.slots EXCEPT ![a] = slot]
    BY <1>0, <2>2
  <2>4. ASSUME NEW k \in Readable(a)
        PROVE  IF k = 0 THEN a > copy.began ELSE k + RingLen > copy.began /\ Belongs(k, a)
    <3>1. CASE k = latencyRing[a]
      <4>1. k \in Nat /\ copy.began \in Nat
        BY <1>0, <2>1, <3>1, SMTT(30) DEF TypeOK
      <4>2. IF k = 0 THEN a > Stored ELSE k + RingLen > Stored /\ Belongs(k, a)
        BY <2>1, <3>1 DEF RingRight
      <4>3. copy.began <= Stored
        BY DEF CopyBegan
      <4> HIDE DEF a
      <4> QED  BY <1>0, <2>1, <4>1, <4>2, <4>3
    <3>2. CASE store = "write" /\ ringIdx = a /\ k = Len(log)
      <4>1. k = Stored + 1 /\ Belongs(Stored + 1, a)
        BY <3>2, StoredType DEF RingRight
      <4>2. copy.began \in Nat /\ copy.began <= Stored
        BY <1>0 DEF CopyBegan
      <4> HIDE DEF a
      <4> QED  BY <1>0, <4>1, <4>2
    <3> QED  BY <3>1, <3>2 DEF Readable
  <2>5. ASSUME NEW i \in 1 .. RingLen, NEW f \in Fields, i < a + 1
        PROVE  LET k == copy'.slots[i][f] IN
                 IF k = 0 THEN i > copy.began ELSE k + RingLen > copy.began /\ Belongs(k, i)
    <3>1. CASE i = a
      <4>1. copy'.slots[i] = slot /\ slot[f] \in Readable(a)
        BY <1>0, <2>1, <2>2, <2>3, <3>1
      <4> QED  BY <2>4, <3>1, <4>1
    <3>2. CASE i # a
      <4>1. copy'.slots[i] = copy.slots[i] /\ i < copy.at
        BY <1>0, <2>1, <2>3, <2>5, <3>2
      <4> QED  BY <4>1 DEF CopyRecent
    <3> QED  BY <3>1, <3>2
  <2>6. CopyRecent'
    <3> HIDE DEF a
    <3>1. \A i \in 1 .. RingLen : \A f \in Fields : i < copy'.at =>
            LET k == copy'.slots[i][f] IN
              IF k = 0 THEN i > copy'.began ELSE k + RingLen > copy'.began /\ Belongs(k, i)
      BY <2>3, <2>5
    <3> QED  BY <3>1 DEF CopyRecent, Belongs
  <2>7. Stored' = Stored
    BY <1>2 DEF CopySlot, ringVars, storeVars, Stored
  <2> QED  BY <2>3, <2>6, <2>7 DEF CopyBegan
<1>3. CASE Publish
  <2>1. copy'.at = 0 /\ copy'.began = 0
    BY <1>3 DEF Publish
  <2>2. \A i \in 1 .. RingLen : ~(i < copy'.at)
    BY <1>0, <2>1
  <2> QED  BY <1>0, <2>1, <2>2 DEF CopyBegan, CopyRecent
<1>4. CASE UNCHANGED copy
  <2>1. copy.began \in Nat
    BY <1>0
  <2>2. CopyBegan'
    BY <1>0, <1>4, <2>1 DEF CopyBegan
  <2> QED  BY <1>4, <2>2 DEF CopyRecent, Belongs
<1> QED  BY <1>1, <1>2, <1>3, <1>4, CopyCases
-----------------------------------------------------------------------------
(* What was stored of the log does not change. *)
LEMMA SameRequests ==
  ASSUME TypeOK, [Next]_vars, NEW n \in 0 .. Len(log)
  PROVE  /\ RequestsUpTo(n)' = RequestsUpTo(n)
         /\ \A i \in 1 .. n : log'[i] = log[i]
<1>1. \A i \in 1 .. n : log'[i] = log[i]
  <2>1. CASE BeginWrite
    BY <2>1, Begun
  <2>2. CASE EndWrite \/ Push \/ Aside
    BY <2>2 DEF EndWrite, Push, Aside, ringVars
  <2> QED  BY <2>1, <2>2, Steps
<1> QED  BY <1>1 DEF RequestsUpTo, IsReq

LEMMA WarmedStep == TypeOK /\ Storing /\ WarmedUp /\ [Next]_vars => WarmedUp'
<1> SUFFICES ASSUME TypeOK, Storing, WarmedUp, [Next]_vars PROVE WarmedUp'
  OBVIOUS
<1>1. Stored \in 0 .. Len(log) /\ Stored \in Nat /\ Warmup \in Nat
  BY StoredType, HeapAssumption
<1>2. ASSUME Stored' = Stored, UNCHANGED heapWarmup PROVE WarmedUp'
  <2>1. Cardinality(RequestsUpTo(Stored))' = Cardinality(RequestsUpTo(Stored))
    BY <1>1, <1>2, SameRequests DEF RequestsUpTo
  <2> QED  BY <1>2, <2>1 DEF WarmedUp, Least
<1>3. CASE BeginWrite
  <2>1. Len(log) \in Nat /\ Len(log') = Len(log) + 1 /\ store = "next" /\ store' = "write"
    BY <1>3, Begun DEF BeginWrite
  <2>2. Stored' = Stored
    BY <2>1 DEF Stored
  <2> QED  BY <1>2, <1>3, <2>2 DEF BeginWrite, heapVars
<1>4. CASE EndWrite
  <2>1. PICK n \in Nat : n = Stored
    BY <1>1
  <2>2. store = "write" /\ Len(log) = n + 1 /\ log' = log /\ Head(rest) = log[n + 1]
    <3>1. store = "write" /\ log' = log
      BY <1>4 DEF EndWrite
    <3> QED  BY <2>1, <3>1, StoredType DEF Storing
  <2>3. Stored' = n + 1
    <3>1. store' # "write"
      BY <1>4 DEF EndWrite, Counted
    <3> QED  BY <2>2, <3>1 DEF Stored
  <2> DEFINE r == Cardinality(RequestsUpTo(n))
             s == Cardinality(RequestsUpTo(n + 1))
  <2>4. r \in Nat /\ s = r + (IF IsReq(log[n + 1]) THEN 1 ELSE 0)
    BY CountNext, CountType
  <2>5. heapWarmup' = (IF IsReq(log[n + 1]) /\ heapWarmup <= 2 * Warmup THEN heapWarmup + 1 ELSE heapWarmup)
    BY <1>4, <2>2 DEF EndWrite
  <2>6. heapWarmup = Least(r, 2 * Warmup + 1)
    BY <2>1 DEF WarmedUp
  <2>7. Cardinality(RequestsUpTo(Stored))' = s
    BY <2>2, <2>3 DEF RequestsUpTo
  <2> HIDE DEF r, s
  <2>8. CASE IsReq(log[n + 1])
    <3>1. s = r + 1 /\ heapWarmup' = (IF heapWarmup <= 2 * Warmup THEN heapWarmup + 1 ELSE heapWarmup)
      BY <2>4, <2>5, <2>8
    <3>2. heapWarmup' = Least(s, 2 * Warmup + 1)
      BY <1>1, <2>4, <2>6, <3>1 DEF Least
    <3> QED  BY <2>7, <3>2 DEF WarmedUp, Least
  <2>9. CASE ~IsReq(log[n + 1])
    <3>1. s = r /\ heapWarmup' = heapWarmup
      BY <2>4, <2>5, <2>9
    <3> QED  BY <2>6, <2>7, <3>1 DEF WarmedUp, Least
  <2> QED  BY <2>8, <2>9
<1>5. CASE Push
  <2>1. UNCHANGED <<log, heapWarmup>> /\ store = "push" /\ store' # "write"
    BY <1>5 DEF Push, Counted, ringVars
  <2> QED  BY <1>2, <2>1 DEF Stored
<1>6. CASE Aside
  <2>1. UNCHANGED <<log, heapWarmup>> /\ (store' = store \/ (store = "take" /\ store' # "write"))
    BY <1>6 DEF Aside, ringVars
  <2> QED  BY <1>2, <2>1 DEF Stored
<1> QED  BY <1>3, <1>4, <1>5, <1>6, Steps
-----------------------------------------------------------------------------
LEMMA Joined ==
  ASSUME NEW S, NEW a \in Seq(S), NEW b \in Seq(S)
  PROVE  /\ a \o b \in Seq(S) /\ Len(a \o b) = Len(a) + Len(b)
         /\ \A i \in 1 .. Len(a) : (a \o b)[i] = a[i]
         /\ \A i \in 1 .. Len(b) : (a \o b)[Len(a) + i] = b[i]
<1> DEFINE m == Len(a)
           n == Len(b)
           c == a \o b
<1>0. m \in Nat /\ n \in Nat
  OBVIOUS
<1>1. /\ c \in Seq(S) /\ Len(c) = m + n
      /\ \A i \in 1 .. m + n : c[i] = IF i <= m THEN a[i] ELSE b[i - m]
  BY ConcatProperties
<1> HIDE DEF c, m, n
<1>2. \A i \in 1 .. m : c[i] = a[i]
  BY <1>0, <1>1
<1>3. ASSUME NEW i \in 1 .. n PROVE c[m + i] = b[i]
  <2>1. m + i \in 1 .. m + n /\ ~(m + i <= m) /\ (m + i) - m = i
    BY <1>0
  <2> QED  BY <1>1, <2>1
<1> QED  BY <1>1, <1>2, <1>3 DEF c, m, n

(* g is h with x inserted at p. *)
IsInserted(g, h, p, x) ==
  /\ g \in Seq(Nat) /\ Len(g) = Len(h) + 1 /\ p \in 1 .. Len(h) + 1
  /\ \A j \in 1 .. Len(h) + 1 : g[j] = IF j < p THEN h[j] ELSE IF j = p THEN x ELSE h[j - 1]

LEMMA Inserted ==
  ASSUME NEW h \in Seq(Nat), NEW x \in Nat, NEW p \in 1 .. Len(h) + 1
  PROVE  IsInserted(InsertAt(h, p, x), h, p, x)
<1> DEFINE a == SubSeq(h, 1, p - 1)
           e == <<x>>
           b == SubSeq(h, p, Len(h))
<1>1. PICK m \in Nat, n \in Nat : p = m + 1 /\ Len(h) = m + n
  <2>1. Len(h) \in Nat
    OBVIOUS
  <2> DEFINE l == Len(h)
  <2> HIDE DEF l
  <2>2. p - 1 \in Nat /\ l - (p - 1) \in Nat /\ l = (p - 1) + (l - (p - 1)) /\ p = (p - 1) + 1
    BY <2>1 DEF l
  <2> QED  BY <2>2 DEF l
<1>2. a \in Seq(Nat) /\ Len(a) = m /\ \A j \in 1 .. m : a[j] = h[j]
  BY <1>1
<1>3. b \in Seq(Nat) /\ Len(b) = n /\ \A j \in 1 .. n : b[j] = h[m + j]
  BY <1>1
<1>4. e \in Seq(Nat) /\ Len(e) = 1 /\ e[1] = x
  OBVIOUS
<1>5. InsertAt(h, p, x) = (a \o e) \o b
  BY DEF InsertAt
<1> HIDE DEF a, b, e
<1> DEFINE c == a \o e
<1>6. c \in Seq(Nat) /\ Len(c) = m + 1 /\ (\A j \in 1 .. m : c[j] = h[j]) /\ c[m + 1] = x
  <2>1. a \in Seq(Nat) /\ e \in Seq(Nat) /\ Len(a) = m /\ Len(e) = 1
    BY <1>2, <1>4
  <2>0. a \in Seq(Nat) /\ e \in Seq(Nat)
    BY <2>1
  <2>2. a \o e \in Seq(Nat) /\ Len(a \o e) = Len(a) + Len(e)
    BY <2>1, Joined
  <2>3. \A i \in 1 .. Len(a) : (a \o e)[i] = a[i]
    BY <2>1, Joined
  <2>4. \A i \in 1 .. Len(e) : (a \o e)[Len(a) + i] = e[i]
    BY <2>0, Joined
  <2> QED  BY <1>2, <1>4, <2>1, <2>2, <2>3, <2>4
<1> HIDE DEF c
<1> DEFINE d == c \o b
<1>7. /\ d \in Seq(Nat) /\ Len(d) = m + 1 + n
      /\ \A j \in 1 .. m + 1 : d[j] = c[j]
      /\ \A j \in 1 .. n : d[m + 1 + j] = h[m + j]
  <2>1. c \in Seq(Nat) /\ b \in Seq(Nat) /\ Len(c) = m + 1 /\ Len(b) = n /\ m + 1 \in Nat
    BY <1>3, <1>6
  <2>2. c \o b \in Seq(Nat) /\ Len(c \o b) = Len(c) + Len(b)
    BY <2>1, Joined
  <2>3. \A i \in 1 .. Len(c) : (c \o b)[i] = c[i]
    BY <2>1, Joined
  <2>4. \A i \in 1 .. Len(b) : (c \o b)[Len(c) + i] = b[i]
    BY <2>1, Joined, SMTT(30)
  <2> QED  BY <1>3, <2>1, <2>2, <2>3, <2>4
<1> HIDE DEF d
<1>8. ASSUME NEW j \in 1 .. m + n + 1
      PROVE  d[j] = IF j < p THEN h[j] ELSE IF j = p THEN x ELSE h[j - 1]
  <2>1. CASE j <= m
    BY <1>1, <1>6, <1>7, <2>1
  <2>2. CASE j = m + 1
    BY <1>1, <1>6, <1>7, <2>2
  <2>3. CASE j > m + 1
    <3>1. PICK k \in 1 .. n : j = m + 1 + k /\ j - 1 = m + k
      <4>1. j - (m + 1) \in 1 .. n /\ j = m + 1 + (j - (m + 1)) /\ j - 1 = m + (j - (m + 1))
        BY <2>3
      <4> QED  BY <4>1
    <3>2. d[j] = h[j - 1]
      BY <1>7, <3>1
    <3> QED  BY <1>1, <2>3, <3>2
  <2> QED  BY <2>1, <2>2, <2>3
<1>9. InsertAt(h, p, x) = d
  BY <1>5 DEF c, d
<1>10. IsInserted(d, h, p, x)
  BY <1>1, <1>7, <1>8 DEF IsInserted
<1> QED  BY <1>9, <1>10
-----------------------------------------------------------------------------
Rising(h) == \A i, j \in 1 .. Len(h) : i < j => h[i] <= h[j]

(* Where HeapPush puts a latency: after those that are no greater. *)
Place(h, x) == Cardinality({i \in DOMAIN h : h[i] <= x}) + 1

LEMMA PlaceType ==
  ASSUME NEW h \in Seq(Nat), NEW x
  PROVE  /\ IsFiniteSet({i \in DOMAIN h : h[i] <= x}) /\ Place(h, x) \in 1 .. Len(h) + 1
         /\ Cardinality({i \in DOMAIN h : h[i] <= x}) \in Nat
<1> DEFINE S == {i \in DOMAIN h : h[i] <= x}
           n == Len(h)
<1>1. n \in Nat /\ S \subseteq 1 .. n
  OBVIOUS
<1> HIDE DEF S, n
<1>2. IsFiniteSet(1 .. n) /\ Cardinality(1 .. n) = n
  BY <1>1, FS_Interval
<1>3. IsFiniteSet(S) /\ Cardinality(S) \in Nat /\ Cardinality(S) <= n
  BY <1>1, <1>2, FS_Subset, FS_CardinalityType
<1>4. Cardinality(S) + 1 \in 1 .. n + 1
  BY <1>1, <1>3
<1> QED  BY <1>3, <1>4 DEF S, n, Place

LEMMA PlaceRight ==
  ASSUME NEW h \in Seq(Nat), NEW x \in Nat, Rising(h), NEW j \in 1 .. Len(h)
  PROVE  h[j] <= x <=> j < Place(h, x)
<1> DEFINE S == {i \in DOMAIN h : h[i] <= x}
           n == Len(h)
<1>0. n \in Nat /\ DOMAIN h = 1 .. n /\ \A i \in 1 .. n : h[i] \in Nat
  OBVIOUS
<1>1. IsFiniteSet(S) /\ Cardinality(S) \in Nat /\ Place(h, x) = Cardinality(S) + 1
  BY PlaceType DEF Place
<1>2. j \in 1 .. n
  OBVIOUS
<1>3. ASSUME h[j] <= x PROVE j < Place(h, x)
  <2>1. 1 .. j \subseteq S
    <3> SUFFICES ASSUME NEW i \in 1 .. j PROVE i \in S
      OBVIOUS
    <3>1. i \in 1 .. n /\ (i = j \/ i < j)
      BY <1>0, <1>2
    <3>2. h[i] <= h[j]
      BY <1>0, <1>2, <3>1 DEF Rising
    <3> QED  BY <1>0, <1>2, <1>3, <3>1, <3>2
  <2>2. Cardinality(1 .. j) = j
    BY <1>0, <1>2, FS_Interval
  <2> HIDE DEF S
  <2>3. Cardinality(1 .. j) <= Cardinality(S)
    BY <1>1, <2>1, FS_Subset
  <2> QED  BY <1>0, <1>1, <1>2, <2>2, <2>3
<1>4. ASSUME ~(h[j] <= x) PROVE ~(j < Place(h, x))
  <2>1. PICK k \in Nat : j = k + 1
    <3>1. j - 1 \in Nat /\ j = (j - 1) + 1
      BY <1>0, <1>2
    <3> QED  BY <3>1
  <2>2. S \subseteq 1 .. k
    <3> SUFFICES ASSUME NEW i \in 1 .. n, h[i] <= x, ~(i <= k) PROVE FALSE
      BY <1>0
    <3>1. i = j \/ j < i
      BY <1>0, <2>1
    <3>2. h[j] <= h[i]
      BY <1>0, <1>2, <3>1 DEF Rising
    <3> QED  BY <1>0, <1>2, <1>4, <3>2
  <2>3. IsFiniteSet(1 .. k) /\ Cardinality(1 .. k) = k
    BY <2>1, FS_Interval
  <2> HIDE DEF S
  <2>4. Cardinality(S) <= k
    BY <2>2, <2>3, FS_Subset
  <2> QED  BY <1>1, <2>1, <2>4
<1> QED  BY <1>3, <1>4

LEMMA Pushed ==
  ASSUME NEW h \in Seq(Nat), NEW x \in Nat
  PROVE  IsInserted(HeapPush(h, x), h, Place(h, x), x)
<1>1. HeapPush(h, x) = InsertAt(h, Place(h, x), x) /\ Place(h, x) \in 1 .. Len(h) + 1
  BY PlaceType DEF HeapPush, Place
<1> QED  BY <1>1, Inserted

LEMMA KeptType ==
  ASSUME NEW h \in Seq(Nat), Len(h) <= HeapCap, NEW x \in Nat
  PROVE  Kept(h, x) \in Seq(Nat) /\ Len(Kept(h, x)) <= HeapCap
<1>0. Len(h) \in Nat /\ HeapCap \in Nat \ {0}
  BY CapAssumption
<1>1. \A t \in Seq(Nat) : HeapPush(t, x) \in Seq(Nat) /\ Len(HeapPush(t, x)) = Len(t) + 1
  BY Pushed DEF IsInserted
<1>2. CASE Len(h) < HeapCap
  <2>1. Len(h) + 1 <= HeapCap
    BY <1>0, <1>2
  <2> QED  BY <1>1, <1>2, <2>1 DEF Kept
<1>3. CASE ~(Len(h) < HeapCap) /\ x > Head(h)
  <2>1. h # <<>>
    BY <1>0, <1>3
  <2>2. Tail(h) \in Seq(Nat) /\ Len(Tail(h)) + 1 = Len(h)
    BY <2>1
  <2> QED  BY <1>1, <1>3, <2>2 DEF Kept
<1>4. CASE ~(Len(h) < HeapCap) /\ ~(x > Head(h))
  BY <1>4 DEF Kept
<1> QED  BY <1>2, <1>3, <1>4
-----------------------------------------------------------------------------
LEMMA InitType == Init => TypeOK
<1> SUFFICES ASSUME Init PROVE TypeOK
  OBVIOUS
<1>1. RingLen \in Nat \ {0} /\ StatCap \in Nat /\ CsvCap \in Nat /\ HeapCap \in Nat /\ Warmup \in Nat
  BY CapAssumption, HeapAssumption
<1>2. /\ pc \in [Senders -> {"idle", "stream", "csv"}]
      /\ DOMAIN batch = Senders /\ \A s \in Senders : batch[s] \in Batches[s] \cup {<<>>}
      /\ posts \in [Senders -> Nat] /\ \A s \in Senders : posts[s] <= MaxPosts[s]
  BY PostsAssumption DEF Init
<1>3. /\ statStream \in Seq(Seq(Measurement)) /\ Len(statStream) <= StatCap
      /\ csvStream \in Seq(Seq(Measurement)) /\ Len(csvStream) <= CsvCap
  BY <1>1 DEF Init
<1>4. /\ rest \in Seq(Measurement) /\ (store = "take" <=> rest = <<>>)
      /\ log \in Seq(Measurement) /\ Len(log) = 0
  BY DEF Init
<1>5. latencyHeap \in Seq(Nat) /\ Len(latencyHeap) <= HeapCap
  BY <1>1 DEF Init
<1>6. copy \in [at : 0 .. RingLen + 1, began : 0 .. 0,
               slots : [1 .. RingLen -> [Fields -> 0 .. 0]]]
  BY <1>1 DEF Init, Unread
<1>7. /\ latencyRing \in [1 .. RingLen -> 0 .. 0] /\ ringIdx \in 1 .. RingLen
      /\ heapWarmup \in 0 .. 2 * Warmup + 1 /\ total \in Nat
      /\ mutex \in {"free", "lost"} /\ totalReqs \in [Types -> Nat]
      /\ store \in {"take", "next", "write", "push"}
  BY <1>1 DEF Init
<1> QED  BY <1>2, <1>3, <1>4, <1>5, <1>6, <1>7 DEF TypeOK

LEMMA CountedType ==
  ASSUME TypeOK, rest # <<>>, Counted
  PROVE  /\ totalReqs' \in [Types -> Nat] /\ rest' \in Seq(Measurement)
         /\ store' = "take" <=> rest' = <<>>
         /\ store' \in {"take", "next"}
<1>1. totalReqs' \in [Types -> Nat]
  <2>1. \A f \in [Types -> Nat] : \A t : [f EXCEPT ![t] = @ + 1] \in [Types -> Nat]
    <3> SUFFICES ASSUME NEW f \in [Types -> Nat], NEW t, NEW u \in Types
                 PROVE  [f EXCEPT ![t] = @ + 1][u] \in Nat
      OBVIOUS
    <3>1. f[u] \in Nat /\ f[u] + 1 \in Nat
      OBVIOUS
    <3> QED  BY <3>1
  <2>2. totalReqs \in [Types -> Nat] /\ totalReqs' = [totalReqs EXCEPT ![Head(rest).tp] = @ + 1]
    BY DEF TypeOK, Counted
  <2> QED  BY <2>1, <2>2
<1>2. rest' \in Seq(Measurement)
  BY DEF TypeOK, Counted
<1>3. (store' = "take" <=> rest' = <<>>) /\ store' \in {"take", "next"}
  BY DEF Counted
<1> QED  BY <1>1, <1>2, <1>3

LEMMA TypeStep == TypeOK /\ Storing /\ [Next]_vars => TypeOK'
<1> SUFFICES ASSUME TypeOK, Storing, [Next]_vars PROVE TypeOK'
  OBVIOUS
<1>0. /\ RingLen \in Nat \ {0} /\ StatCap \in Nat /\ CsvCap \in Nat /\ HeapCap \in Nat /\ Warmup \in Nat
      /\ Len(log) \in Nat
  BY CapAssumption, HeapAssumption DEF TypeOK
<1>1. ASSUME NEW s \in Senders, Post(s) PROVE TypeOK'
  <2>1. /\ pc' \in [Senders -> {"idle", "stream", "csv"}]
        /\ DOMAIN batch' = Senders /\ \A t \in Senders : batch'[t] \in Batches[t] \cup {<<>>}
    BY <1>1 DEF TypeOK, Post
  <2>2. posts' \in [Senders -> Nat] /\ \A t \in Senders : posts'[t] <= MaxPosts[t]
    BY <1>1, PostsAssumption, SMTT(30) DEF TypeOK, Post
  <2> QED  BY <1>1, <2>1, <2>2 DEF TypeOK, Post, streamVars, storeVars, ringVars, heapVars
<1>2. ASSUME NEW s \in Senders, Answered(s)
      PROVE  /\ pc' \in [Senders -> {"idle", "stream", "csv"}]
             /\ DOMAIN batch' = Senders /\ \A t \in Senders : batch'[t] \in Batches[t] \cup {<<>>}
  BY <1>2 DEF TypeOK, Answered
<1>3. \A s \in Senders : batch[s] \in Seq(Measurement)
  <2>1. <<>> \in Seq(Measurement)
    OBVIOUS
  <2> QED  BY <2>1, BatchesAssumption, Zenon DEF TypeOK
<1>4. ASSUME NEW s \in Senders, SendStats(s) PROVE TypeOK'
  <2>1. statStream' \in Seq(Seq(Measurement)) /\ Len(statStream') <= StatCap
    BY <1>0, <1>3, <1>4, SMTT(30) DEF TypeOK, SendStats
  <2>2. /\ pc' \in [Senders -> {"idle", "stream", "csv"}]
        /\ DOMAIN batch' = Senders /\ \A t \in Senders : batch'[t] \in Batches[t] \cup {<<>>}
    <3>1. Answered(s) \/ (pc' = [pc EXCEPT ![s] = "csv"] /\ batch' = batch)
      BY <1>4 DEF SendStats
    <3>2. CASE Answered(s)
      BY <1>2, <3>2
    <3>3. CASE pc' = [pc EXCEPT ![s] = "csv"] /\ batch' = batch
      BY <3>3 DEF TypeOK
    <3> QED  BY <3>1, <3>2, <3>3
  <2> QED  BY <1>4, <2>1, <2>2 DEF TypeOK, SendStats, storeVars, ringVars, heapVars
<1>5. ASSUME NEW s \in Senders, SendCsv(s) PROVE TypeOK'
  <2>1. csvStream' \in Seq(Seq(Measurement)) /\ Len(csvStream') <= CsvCap
    BY <1>0, <1>3, <1>5 DEF TypeOK, SendCsv
  <2>2. /\ pc' \in [Senders -> {"idle", "stream", "csv"}]
        /\ DOMAIN batch' = Senders /\ \A t \in Senders : batch'[t] \in Batches[t] \cup {<<>>}
    BY <1>2, <1>5 DEF SendCsv
  <2> QED  BY <1>5, <2>1, <2>2 DEF TypeOK, SendCsv, storeVars, ringVars, heapVars
<1>6. CASE CsvStats
  <2>1. csvStream' \in Seq(Seq(Measurement)) /\ Len(csvStream') <= CsvCap
    BY <1>0, <1>6 DEF TypeOK, CsvStats
  <2> QED  BY <1>6, <2>1 DEF TypeOK, CsvStats, handlerVars, storeVars, ringVars, heapVars
<1>7. CASE TakeBatch
  <2>1. statStream' \in Seq(Seq(Measurement)) /\ Len(statStream') <= StatCap /\ rest' \in Seq(Measurement)
    BY <1>0, <1>7, SMTT(30) DEF TypeOK, TakeBatch
  <2>2. store' \in {"take", "next", "write", "push"} /\ (store' = "take" <=> rest' = <<>>)
    BY <1>7 DEF TakeBatch
  <2> QED  BY <1>7, <2>1, <2>2 DEF TypeOK, TakeBatch, handlerVars, ringVars, heapVars
<1>8. CASE BeginWrite
  <2>1. log' \in Seq(Measurement) /\ Len(log') = Len(log) + 1
    BY <1>8, Begun
  <2>2. /\ latencyRing' \in [1 .. RingLen -> 0 .. Len(log')]
        /\ copy' \in [at : 0 .. RingLen + 1, began : 0 .. Len(log'),
                      slots : [1 .. RingLen -> [Fields -> 0 .. Len(log')]]]
    <3> DEFINE n == Len(log)
    <3>1. /\ latencyRing \in [1 .. RingLen -> 0 .. n]
          /\ copy \in [at : 0 .. RingLen + 1, began : 0 .. n, slots : [1 .. RingLen -> [Fields -> 0 .. n]]]
          /\ n \in Nat /\ UNCHANGED <<latencyRing, copy>>
      BY <1>0, <1>8 DEF TypeOK, BeginWrite
    <3> HIDE DEF n
    <3>2. 0 .. n \subseteq 0 .. n + 1
      BY <3>1
    <3> DEFINE R == 0 .. n
               S == 0 .. n + 1
    <3> HIDE DEF R, S
    <3>3. R \subseteq S
      BY <3>2 DEF R, S
    <3>4. latencyRing' \in [1 .. RingLen -> R] /\ copy' \in [at : 0 .. RingLen + 1, began : R, slots : [1 .. RingLen -> [Fields -> R]]]
      BY <3>1 DEF R
    <3>5. latencyRing' \in [1 .. RingLen -> S] /\ copy' \in [at : 0 .. RingLen + 1, began : S, slots : [1 .. RingLen -> [Fields -> S]]]
      BY <3>3, <3>4
    <3>6. S = 0 .. Len(log')
      BY <2>1 DEF S, n
    <3> QED  BY <3>5, <3>6
  <2>3. store' = "write" /\ UNCHANGED rest /\ rest # <<>>
    BY <1>8 DEF TypeOK, BeginWrite
  <2> QED  BY <1>8, <2>1, <2>2, <2>3 DEF TypeOK, BeginWrite, handlerVars, streamVars, heapVars
<1>9. CASE EndWrite
  <2>0. store = "write" /\ rest # <<>> /\ log' = log
    BY <1>9 DEF TypeOK, EndWrite
  <2>1. latencyRing' \in [1 .. RingLen -> 0 .. Len(log')] /\ ringIdx' \in 1 .. RingLen
    <3>1. ringIdx' \in 1 .. RingLen
      BY <1>0, <1>9 DEF TypeOK, EndWrite, NextSlot
    <3>2. Len(log) \in 0 .. Len(log)
      BY <1>0
    <3> QED  BY <1>9, <2>0, <3>1, <3>2 DEF TypeOK, EndWrite
  <2>2. heapWarmup' \in 0 .. 2 * Warmup + 1
    <3>1. heapWarmup \in 0 .. 2 * Warmup + 1
      BY DEF TypeOK
    <3>2. heapWarmup' = heapWarmup \/ (heapWarmup <= 2 * Warmup /\ heapWarmup' = heapWarmup + 1)
      BY <1>9 DEF EndWrite
    <3> QED  BY <1>0, <3>1, <3>2
  <2>3. /\ totalReqs' \in [Types -> Nat] /\ rest' \in Seq(Measurement)
        /\ store' = "take" <=> rest' = <<>>
        /\ store' \in {"take", "next", "write", "push"}
    <3>1. Counted \/ (store' = "push" /\ UNCHANGED <<rest, totalReqs>>)
      BY <1>9 DEF EndWrite
    <3>2. CASE Counted
      BY <2>0, <3>2, CountedType
    <3>3. CASE store' = "push" /\ UNCHANGED <<rest, totalReqs>>
      BY <2>0, <3>3 DEF TypeOK
    <3> QED  BY <3>1, <3>2, <3>3
  <2> QED  BY <1>9, <2>0, <2>1, <2>2, <2>3 DEF TypeOK, EndWrite, handlerVars, streamVars
<1>10. CASE Push
  <2>0. store = "push" /\ rest # <<>> /\ Head(rest) \in Measurement
    BY <1>10 DEF TypeOK, Push
  <2>1. latencyHeap' \in Seq(Nat) /\ Len(latencyHeap') <= HeapCap /\ total' \in Nat
    <3>1. Head(rest).lat \in Nat
      BY <2>0 DEF Measurement
    <3> QED  BY <1>10, <3>1, KeptType DEF TypeOK, Push
  <2>2. /\ totalReqs' \in [Types -> Nat] /\ rest' \in Seq(Measurement)
        /\ store' = "take" <=> rest' = <<>>
        /\ store' \in {"take", "next", "write", "push"}
    BY <1>10, <2>0, CountedType DEF Push
  <2> QED  BY <1>10, <2>1, <2>2 DEF TypeOK, Push, handlerVars, streamVars, ringVars
<1>11. CASE BeginCopy
  <2>1. Stored \in 0 .. Len(log)
    BY StoredType
  <2>2. copy' \in [at : 0 .. RingLen + 1, began : 0 .. Len(log),
                   slots : [1 .. RingLen -> [Fields -> 0 .. Len(log)]]]
    <3>1. 1 \in 0 .. RingLen + 1
      BY <1>0
    <3>2. copy' = [copy EXCEPT !.at = 1, !.began = Stored]
      BY <1>11 DEF BeginCopy
    <3> QED  BY <2>1, <3>1, <3>2 DEF TypeOK
  <2> QED  BY <1>11, <2>2 DEF TypeOK, BeginCopy, handlerVars, streamVars, storeVars, ringVars, heapVars
<1>12. CASE CopySlot
  <2>1. PICK slot \in [Fields -> Readable(copy.at)] :
          copy' = [copy EXCEPT !.at = @ + 1, !.slots[copy.at] = slot] /\ copy.at \in 1 .. RingLen
    BY <1>12 DEF CopySlot
  <2>2. Readable(copy.at) \subseteq 0 .. Len(log)
    <3>1. latencyRing[copy.at] \in 0 .. Len(log)
      BY <2>1 DEF TypeOK
    <3>2. Len(log) \in 0 .. Len(log)
      BY <1>0
    <3> QED  BY <3>1, <3>2 DEF Readable
  <2>3. slot \in [Fields -> 0 .. Len(log)] /\ copy.at + 1 \in 0 .. RingLen + 1
    BY <1>0, <2>1, <2>2
  <2>4. copy' \in [at : 0 .. RingLen + 1, began : 0 .. Len(log),
                   slots : [1 .. RingLen -> [Fields -> 0 .. Len(log)]]]
    BY <2>1, <2>3 DEF TypeOK
  <2> QED  BY <1>12, <2>4 DEF TypeOK, CopySlot, handlerVars, streamVars, storeVars, ringVars, heapVars
<1>13. CASE Publish
  <2>1. copy' \in [at : 0 .. RingLen + 1, began : 0 .. Len(log),
                   slots : [1 .. RingLen -> [Fields -> 0 .. Len(log)]]]
    BY <1>0, <1>13 DEF Publish, Unread
  <2> QED  BY <1>13, <2>1 DEF TypeOK, Publish, handlerVars, streamVars, storeVars, ringVars, heapVars
<1>14. CASE GetTailPanics
  BY <1>14 DEF TypeOK, GetTailPanics, handlerVars, streamVars, storeVars, ringVars
<1>15. CASE UNCHANGED vars
  BY <1>15 DEF TypeOK, vars, handlerVars, streamVars, storeVars, ringVars, heapVars
<1> QED  BY <1>1, <1>4, <1>5, <1>6, <1>7, <1>8, <1>9, <1>10, <1>11, <1>12, <1>13, <1>14, <1>15
         DEF Next, StoreStats, RecomputeStats
-----------------------------------------------------------------------------
LEMMA InsertRanked ==
  ASSUME NEW h \in Seq(Nat), Rising(h), NEW x \in Nat, NEW v \in Int, NEW c \in Nat,
         RankedBy(h, v, c), x <= v => c <= Len(h),
         NEW g, IsInserted(g, h, Place(h, x), x)
  PROVE  RankedBy(g, v, IF x > v THEN c + 1 ELSE c)
<1> DEFINE n == Len(h)
           p == Place(h, x)
<1>1. /\ n \in Nat /\ p \in 1 .. n + 1 /\ Len(g) = n + 1
      /\ \A j \in 1 .. n + 1 : g[j] = IF j < p THEN h[j] ELSE IF j = p THEN x ELSE h[j - 1]
  BY DEF IsInserted
<1>2. \A j \in 1 .. n : h[j] \in Nat /\ (h[j] <= x <=> j < p) /\ (h[j] > v <=> n < j + c)
  BY PlaceRight DEF RankedBy
<1>3. x <= v => c <= n
  OBVIOUS
<1> HIDE DEF n, p
<1> SUFFICES ASSUME NEW j \in 1 .. n + 1
             PROVE  g[j] > v <=> n + 1 < j + (IF x > v THEN c + 1 ELSE c)
  BY <1>1 DEF RankedBy
<1>4. CASE j < p
  <2>1. j \in 1 .. n /\ g[j] = h[j]
    BY <1>1, <1>4
  <2> QED  BY <1>1, <1>2, <1>4, <2>1
<1>5. CASE j = p
  <2>1. g[j] = x
    BY <1>1, <1>5
  <2>2. CASE x > v
    <3>1. n < p + c
      <4>1. CASE p = n + 1
        BY <1>1, <4>1
      <4>2. CASE p # n + 1
        <5>1. p \in 1 .. n
          BY <1>1, <4>2
        <5>2. h[p] \in Nat /\ ~(h[p] <= x) /\ (h[p] > v <=> n < p + c)
          BY <1>1, <1>2, <5>1
        <5> QED  BY <2>2, <5>2
      <4> QED  BY <4>1, <4>2
    <3> QED  BY <1>1, <1>5, <2>1, <2>2, <3>1
  <2>3. CASE ~(x > v)
    <3>1. p + c <= n + 1
      <4>1. CASE p = 1
        BY <1>1, <1>3, <2>3, <4>1
      <4>2. CASE p # 1
        <5>1. p - 1 \in 1 .. n /\ p - 1 < p
          BY <1>1, <4>2
        <5>2. h[p - 1] \in Nat /\ h[p - 1] <= x /\ (h[p - 1] > v <=> n < p - 1 + c)
          BY <1>2, <5>1
        <5> QED  BY <1>1, <2>3, <5>1, <5>2
      <4> QED  BY <4>1, <4>2
    <3> QED  BY <1>1, <1>5, <2>1, <2>3, <3>1
  <2> QED  BY <2>2, <2>3
<1>6. CASE j > p
  <2>1. PICK k \in 1 .. n : j = k + 1 /\ k = j - 1 /\ ~(k < p)
    <3>1. j - 1 \in 1 .. n /\ j = (j - 1) + 1 /\ ~(j - 1 < p)
      BY <1>1, <1>6
    <3> QED  BY <3>1
  <2>2. g[j] = h[k]
    BY <1>1, <1>6, <2>1
  <2> QED  BY <1>1, <1>2, <2>1, <2>2
<1> QED  BY <1>1, <1>4, <1>5, <1>6

LEMMA Entries ==
  ASSUME NEW h \in Seq(Nat), NEW i \in 1 .. Len(h)
  PROVE  Len(h) \in Nat /\ h[i] \in Nat /\ \E v \in Int : h[i] = v + 1
<1>1. Len(h) \in Nat /\ h[i] \in Nat
  OBVIOUS
<1>2. \A a \in Nat : a - 1 \in Int /\ a = (a - 1) + 1
  OBVIOUS
<1> QED  BY <1>1, <1>2

LEMMA RankedRises ==
  ASSUME NEW h \in Seq(Nat), NEW c, \A v \in Int : c[v] \in Nat /\ RankedBy(h, v, c[v])
  PROVE  Rising(h)
<1> SUFFICES ASSUME NEW i \in 1 .. Len(h), NEW j \in 1 .. Len(h), i < j PROVE h[i] <= h[j]
  BY DEF Rising
<1>1. PICK v \in Int : h[i] = v + 1
  BY Entries
<1>2. Len(h) \in Nat /\ h[j] \in Nat /\ c[v] \in Nat /\ RankedBy(h, v, c[v])
  BY Entries
<1>3. (h[i] > v <=> Len(h) < i + c[v]) /\ (h[j] > v <=> Len(h) < j + c[v])
  BY <1>2 DEF RankedBy
<1> DEFINE n == Len(h)
           m == c[v]
           a == h[i]
           b == h[j]
<1> HIDE DEF n, m, a, b
<1>4. a = v + 1 /\ n \in Nat /\ b \in Nat /\ m \in Nat /\ (a > v <=> n < i + m) /\ (b > v <=> n < j + m)
  BY <1>1, <1>2, <1>3 DEF n, m, a, b
<1>5. i \in Int /\ j \in Int
  OBVIOUS
<1>6. a <= b
  BY <1>4, <1>5
<1> QED  BY <1>6 DEF a, b

(* Keeping the slowest keeps the ranks. *)
LEMMA KeptRanked ==
  ASSUME NEW h \in Seq(Nat), NEW x \in Nat, NEW N \in Nat, Len(h) = Least(N, HeapCap),
         NEW c, \A v \in Int : c[v] \in Nat /\ c[v] <= N /\ RankedBy(h, v, c[v])
  PROVE  /\ Len(Kept(h, x)) = Least(N + 1, HeapCap)
         /\ \A v \in Int : RankedBy(Kept(h, x), v, IF x > v THEN c[v] + 1 ELSE c[v])
<1>0. HeapCap \in Nat \ {0} /\ Len(h) \in Nat
  BY CapAssumption
<1>1. Rising(h)
  BY RankedRises
<1>2. CASE Len(h) < HeapCap
  <2>1. Len(h) = N /\ Least(N + 1, HeapCap) = N + 1
    BY <1>0, <1>2 DEF Least
  <2>2. Kept(h, x) = HeapPush(h, x)
    BY <1>2 DEF Kept
  <2>3. IsInserted(HeapPush(h, x), h, Place(h, x), x)
    BY Pushed
  <2>4. Len(HeapPush(h, x)) = Len(h) + 1
    BY <2>3 DEF IsInserted
  <2>5. ASSUME NEW v \in Int PROVE RankedBy(HeapPush(h, x), v, IF x > v THEN c[v] + 1 ELSE c[v])
    <3>1. PICK m \in Nat : m = c[v] /\ m <= Len(h) /\ RankedBy(h, v, m)
      BY <2>1
    <3>2. RankedBy(HeapPush(h, x), v, IF x > v THEN m + 1 ELSE m)
      BY <1>1, <2>3, <3>1, InsertRanked
    <3> QED  BY <3>1, <3>2
  <2> QED  BY <2>1, <2>2, <2>4, <2>5
<1>3. CASE ~(Len(h) < HeapCap)
  <2>1. Len(h) = HeapCap /\ Least(N + 1, HeapCap) = HeapCap /\ h # <<>>
    <3>1. Len(h) = HeapCap /\ Least(N + 1, HeapCap) = HeapCap
      BY <1>0, <1>3 DEF Least
    <3> QED  BY <1>0, <3>1
  <2>2. Head(h) = h[1] /\ h[1] \in Nat /\ \A j \in 1 .. Len(h) : h[j] \in Nat /\ h[1] <= h[j]
    <3>1. Head(h) = h[1] /\ \A j \in 1 .. Len(h) : h[j] \in Nat
      BY <2>1
    <3>2. 1 \in 1 .. Len(h)
      BY <1>0, <2>1
    <3>3. \A j \in 1 .. Len(h) : j = 1 \/ 1 < j
      BY <1>0
    <3> QED  BY <1>1, <3>1, <3>2, <3>3 DEF Rising
  <2>3. CASE x > Head(h)
    <3> DEFINE t == Tail(h)
    <3>1. t \in Seq(Nat) /\ Len(t) + 1 = Len(h) /\ Len(t) \in Nat /\ \A j \in 1 .. Len(t) : t[j] = h[j + 1]
      BY <1>0, <2>1
    <3>2. Kept(h, x) = HeapPush(t, x)
      BY <1>3, <2>3 DEF Kept
    <3> HIDE DEF t
    <3>3. Rising(t)
      <4> SUFFICES ASSUME NEW i \in 1 .. Len(t), NEW j \in 1 .. Len(t), i < j PROVE t[i] <= t[j]
        BY DEF Rising
      <4>1. i + 1 \in 1 .. Len(h) /\ j + 1 \in 1 .. Len(h) /\ i + 1 < j + 1
        BY <1>0, <3>1, SMTT(30)
      <4>2. h[i + 1] <= h[j + 1]
        BY <1>1, <4>1 DEF Rising
      <4> QED  BY <3>1, <4>2
    <3>4. IsInserted(HeapPush(t, x), t, Place(t, x), x)
      BY <3>1, Pushed
    <3>5. Len(HeapPush(t, x)) = Len(h)
      BY <3>1, <3>4 DEF IsInserted
    <3>6. ASSUME NEW v \in Int PROVE RankedBy(HeapPush(t, x), v, IF x > v THEN c[v] + 1 ELSE c[v])
      <4>1. PICK m \in Nat : m = c[v] /\ RankedBy(h, v, m)
        OBVIOUS
      <4>2. RankedBy(t, v, m)
        <5> SUFFICES ASSUME NEW j \in 1 .. Len(t) PROVE t[j] > v <=> Len(t) < j + m
          BY DEF RankedBy
        <5>1. j + 1 \in 1 .. Len(h)
          BY <1>0, <3>1
        <5>2. h[j + 1] > v <=> Len(h) < (j + 1) + m
          BY <4>1, <5>1 DEF RankedBy
        <5>3. Len(h) < (j + 1) + m <=> Len(t) < j + m
          BY <1>0, <3>1, SMTT(30)
        <5> QED  BY <3>1, <5>2, <5>3
      <4>3. x <= v => m <= Len(t)
        <5> SUFFICES ASSUME x <= v PROVE m <= Len(t)
          OBVIOUS
        <5>1. 1 \in 1 .. Len(h)
          BY <1>0, <2>1
        <5>2. h[1] > v <=> Len(h) < 1 + m
          BY <4>1, <5>1 DEF RankedBy
        <5>3. ~(h[1] > v)
          BY <2>2, <2>3
        <5> QED  BY <1>0, <3>1, <5>2, <5>3
      <4>4. RankedBy(HeapPush(t, x), v, IF x > v THEN m + 1 ELSE m)
        BY <3>1, <3>3, <3>4, <4>2, <4>3, InsertRanked
      <4> QED  BY <4>1, <4>4
    <3> QED  BY <2>1, <3>2, <3>5, <3>6
  <2>4. CASE ~(x > Head(h))
    <3>1. Kept(h, x) = h
      BY <1>3, <2>4 DEF Kept
    <3>2. ASSUME NEW v \in Int PROVE RankedBy(h, v, IF x > v THEN c[v] + 1 ELSE c[v])
      <4>1. PICK m \in Nat : m = c[v] /\ RankedBy(h, v, m)
        OBVIOUS
      <4>2. CASE x > v
        <5>1. ASSUME NEW j \in 1 .. Len(h) PROVE h[j] > v <=> Len(h) < j + (m + 1)
          <6>1. h[j] > v
            BY <2>2, <2>4, <4>2
          <6>2. Len(h) < j + m
            BY <4>1, <6>1 DEF RankedBy
          <6> QED  BY <1>0, <6>1, <6>2
        <5> QED  BY <4>1, <4>2, <5>1 DEF RankedBy
      <4>3. CASE ~(x > v)
        BY <4>1, <4>3
      <4> QED  BY <4>2, <4>3
    <3> QED  BY <2>1, <3>1, <3>2
  <2> QED  BY <2>3, <2>4
<1> QED  BY <1>2, <1>3
-----------------------------------------------------------------------------
LEMMA RequestsType ==
  ASSUME TypeOK, Storing, NEW v
  PROVE  /\ IsFiniteSet(Requests) /\ Cardinality(Requests) \in Nat
         /\ IsFiniteSet(Above(v)) /\ Cardinality(Above(v)) \in Nat
         /\ Cardinality(Above(v)) <= Cardinality(Requests)
         /\ Requests \subseteq 1 .. Done /\ Above(v) \subseteq Requests
<1>1. Done \in Nat
  BY StoredType
<1>2. Requests \subseteq 1 .. Done /\ Above(v) \subseteq Requests /\ IsFiniteSet(1 .. Done)
  BY <1>1, FS_Interval DEF Requests, RequestsUpTo, Above
<1>3. IsFiniteSet(Requests) /\ IsFiniteSet(Above(v)) /\ Cardinality(Above(v)) <= Cardinality(Requests)
  BY <1>2, FS_Subset
<1> QED  BY <1>2, <1>3, FS_CardinalityType

(* Nothing but a request that is done with after the warm-up adds to them. *)
LEMMA RequestsNext ==
  ASSUME TypeOK, Storing, WarmedUp, [Next]_vars
  PROVE  IF Push
         THEN /\ Len(log) \notin Requests /\ log' = log
              /\ Requests' = Requests \cup {Len(log)}
         ELSE /\ Requests' = Requests
              /\ \A i \in Requests : log'[i] = log[i]
<1>0. Done \in 0 .. Len(log) /\ Len(log) \in Nat /\ Warmup \in Nat
  <2>1. Stored \in 0 .. Len(log) /\ Done \in 0 .. Stored /\ Len(log) \in Nat
    BY StoredType
  <2> QED  BY <2>1, HeapAssumption
<1>1. ASSUME Done' = Done PROVE Requests' = Requests /\ \A i \in Requests : log'[i] = log[i]
  <2>1. RequestsUpTo(Done)' = RequestsUpTo(Done) /\ \A i \in 1 .. Done : log'[i] = log[i]
    BY <1>0, <1>1, SameRequests DEF RequestsUpTo
  <2>2. \A i \in 1 .. Done : RequestsUpTo(i)' = RequestsUpTo(i)
    <3>1. \A i \in 1 .. Done : i \in 0 .. Len(log)
      BY <1>0
    <3> QED  BY <3>1, SameRequests
  <2>3. RequestsUpTo(Done) \subseteq 1 .. Done
    BY DEF RequestsUpTo
  <2>4. Requests \subseteq 1 .. Done
    BY <2>3 DEF Requests
  <2>5. Requests' = {i \in RequestsUpTo(Done)' : Cardinality(RequestsUpTo(i)') > Warmup}
    BY DEF Requests
  <2> HIDE DEF RequestsUpTo
  <2> QED  BY <2>1, <2>2, <2>3, <2>4, <2>5 DEF Requests
<1>2. ASSUME log' = log, store \in {"write", "push"}, store' \notin {"write", "push"}
      PROVE  /\ Len(log) \notin Requests
             /\ Requests' = IF IsReq(log[Len(log)]) /\ Cardinality(RequestsUpTo(Len(log))) > Warmup
                            THEN Requests \cup {Len(log)} ELSE Requests
  <2>1. PICK n \in Nat : n = Done /\ Len(log) = n + 1
    BY <1>0, <1>2, StoredType
  <2>2. Done' = n + 1
    BY <1>2, <2>1 DEF Done
  <2>3. Requests' = {i \in RequestsUpTo(n + 1) : Cardinality(RequestsUpTo(i)) > Warmup}
    BY <1>2, <2>2 DEF Requests, RequestsUpTo
  <2>4. Requests = {i \in RequestsUpTo(n) : Cardinality(RequestsUpTo(i)) > Warmup}
    BY <2>1 DEF Requests
  <2>5. RequestsUpTo(n + 1) = RequestsUpTo(n) \cup (IF IsReq(log[n + 1]) THEN {n + 1} ELSE {})
    BY DEF RequestsUpTo
  <2>6. n + 1 \notin RequestsUpTo(n)
    BY DEF RequestsUpTo
  <2> HIDE DEF RequestsUpTo
  <2> QED  BY <2>1, <2>3, <2>4, <2>5, <2>6
<1>3. CASE Push
  <2>1. log' = log /\ store = "push" /\ store' \notin {"write", "push"}
    BY <1>3 DEF Push, Counted, ringVars
  <2>2. IsReq(log[Len(log)]) /\ Cardinality(RequestsUpTo(Len(log))) > Warmup
    BY <2>1 DEF Storing
  <2> QED  BY <1>2, <1>3, <2>1, <2>2
<1>4. CASE BeginWrite
  <2>1. Len(log') = Len(log) + 1 /\ store = "next" /\ store' = "write"
    BY <1>4, Begun DEF BeginWrite
  <2>2. Done' = Done
    BY <1>0, <2>1 DEF Done
  <2>3. ~Push
    BY <2>1 DEF Push
  <2> QED  BY <1>1, <2>2, <2>3
<1>5. CASE EndWrite
  <2>1. log' = log /\ store = "write" /\ ~Push
    BY <1>5 DEF EndWrite, Push
  <2>2. CASE store' = "push"
    <3>1. Done' = Done
      BY <2>1, <2>2 DEF Done
    <3> QED  BY <1>1, <2>1, <3>1
  <2>3. CASE store' # "push"
    <3>1. store' \notin {"write", "push"} /\ ~(IsReq(Head(rest)) /\ heapWarmup' > Warmup)
      BY <1>5, <2>3 DEF EndWrite, Counted
    <3>2. Head(rest) = log[Len(log)]
      BY <2>1 DEF Storing
    <3>3. heapWarmup' = Least(Cardinality(RequestsUpTo(Len(log))), 2 * Warmup + 1)
      <4>1. WarmedUp'
        BY WarmedStep
      <4>2. Stored' = Len(log)
        BY <2>1, <3>1 DEF Stored
      <4>3. RequestsUpTo(Stored)' = RequestsUpTo(Len(log))
        BY <2>1, <4>2 DEF RequestsUpTo
      <4> QED  BY <4>1, <4>3 DEF WarmedUp, Least
    <3>4. Cardinality(RequestsUpTo(Len(log))) \in Nat
      BY <1>0, CountType
    <3>5. ~(IsReq(log[Len(log)]) /\ Cardinality(RequestsUpTo(Len(log))) > Warmup)
      <4> DEFINE r == Cardinality(RequestsUpTo(Len(log)))
      <4>1. r \in Nat /\ heapWarmup' = Least(r, 2 * Warmup + 1)
        BY <3>3, <3>4
      <4> HIDE DEF r
      <4>2. r > Warmup => heapWarmup' > Warmup
        BY <1>0, <4>1 DEF Least
      <4> QED  BY <3>1, <3>2, <4>2 DEF r
    <3> QED  BY <1>2, <2>1, <3>1, <3>5
  <2> QED  BY <2>2, <2>3
<1>6. CASE Aside /\ ~Push
  <2>1. log' = log /\ (store' = store \/ (store = "take" /\ store' \in {"take", "next"}))
    BY <1>6 DEF Aside, ringVars
  <2>2. Done' = Done
    BY <2>1 DEF Done
  <2> QED  BY <1>1, <1>6, <2>2
<1> QED  BY <1>3, <1>4, <1>5, <1>6, Steps

LEMMA RankedStep == TypeOK /\ Storing /\ WarmedUp /\ Ranked /\ [Next]_vars => Ranked'
<1> SUFFICES ASSUME TypeOK, Storing, WarmedUp, Ranked, [Next]_vars PROVE Ranked'
  OBVIOUS
<1>1. CASE Push
  <2> DEFINE h == latencyHeap
             n == Len(log)
             x == Head(rest).lat
             c == [v \in Int |-> Cardinality(Above(v))]
             N == Cardinality(Requests)
  <2>1. n \notin Requests /\ log' = log /\ Requests' = Requests \cup {n}
    BY <1>1, RequestsNext
  <2>2. /\ total' = total + 1 /\ latencyHeap' = Kept(h, x)
        /\ h \in Seq(Nat) /\ total = N /\ Len(h) = Least(N, HeapCap)
    BY <1>1 DEF Push, TypeOK, Ranked
  <2>3. x \in Nat /\ x = log[n].lat
    <3>1. store = "push" /\ rest \in Seq(Measurement) /\ rest # <<>>
      BY <1>1 DEF Push, TypeOK
    <3>2. Head(rest) \in Measurement /\ Head(rest) = log[n]
      BY <3>1 DEF Storing
    <3> QED  BY <3>2 DEF Measurement
  <2>4. IsFiniteSet(Requests) /\ N \in Nat
    BY RequestsType
  <2>5. \A v \in Int : c[v] \in Nat /\ c[v] <= N /\ RankedBy(h, v, c[v])
    BY RequestsType DEF Ranked
  <2>6. Cardinality(Requests') = N + 1
    BY <2>1, <2>4, FS_AddElement
  <2>7. ASSUME NEW v \in Int PROVE Cardinality(Above(v))' = IF x > v THEN c[v] + 1 ELSE c[v]
    <3>1. Above(v)' = {i \in Requests' : log[i].lat > v}
      BY <2>1 DEF Above
    <3>2. Above(v)' = IF x > v THEN Above(v) \cup {n} ELSE Above(v)
      <4> HIDE DEF n
      <4> QED  BY <2>1, <2>3, <3>1 DEF Above
    <3>3. n \notin Above(v) /\ IsFiniteSet(Above(v)) /\ c[v] = Cardinality(Above(v))
      BY <2>1, RequestsType DEF Above
    <3>4. CASE x > v
      <4> HIDE DEF n, x, c
      <4>1. Above(v)' = Above(v) \cup {n}
        BY <3>2, <3>4
      <4>2. Cardinality(Above(v) \cup {n}) = Cardinality(Above(v)) + 1
        BY <3>3, FS_AddElement
      <4> QED  BY <3>3, <3>4, <4>1, <4>2
    <3>5. CASE ~(x > v)
      <4> HIDE DEF n, x, c
      <4>1. Above(v)' = Above(v)
        BY <3>2, <3>5
      <4> QED  BY <3>3, <3>5, <4>1
    <3> QED  BY <3>4, <3>5
  <2> HIDE DEF n, x, c, N, h
  <2>8. /\ Len(Kept(h, x)) = Least(N + 1, HeapCap)
        /\ \A v \in Int : RankedBy(Kept(h, x), v, IF x > v THEN c[v] + 1 ELSE c[v])
    BY <2>2, <2>3, <2>4, <2>5, KeptRanked
  <2>9. \A v \in Int : RankedBy(latencyHeap', v, Cardinality(Above(v))')
    BY <2>2, <2>7, <2>8
  <2>10. total' = Cardinality(Requests') /\ Len(latencyHeap') = Least(total', HeapCap)
    BY <2>2, <2>6, <2>8
  <2> QED  BY <2>9, <2>10 DEF Ranked, RankedBy, Least
<1>2. CASE ~Push
  <2>1. Requests' = Requests /\ \A i \in Requests : log'[i] = log[i]
    BY <1>2, RequestsNext
  <2>2. UNCHANGED <<total, latencyHeap>>
    BY <1>2, Steps DEF BeginWrite, EndWrite, Aside, heapVars
  <2>3. \A v : Above(v)' = Above(v)
    BY <2>1 DEF Above
  <2>4. \A v \in Int : RankedBy(latencyHeap', v, Cardinality(Above(v)'))
    BY <2>2, <2>3 DEF Ranked
  <2> QED  BY <2>1, <2>2, <2>4 DEF Ranked, RankedBy, Least
<1> QED  BY <1>1, <1>2
-----------------------------------------------------------------------------
LEMMA KnownBatches ==
  ASSUME TypeOK, NEW s \in Senders PROVE batch[s] \in Seq(Known)
<1>1. CASE batch[s] = <<>>
  BY <1>1
<1>2. CASE batch[s] \in Batches[s]
  <2> DEFINE b == batch[s]
  <2>1. b \in Seq(Measurement)
    BY <1>2, BatchesAssumption
  <2>2. b \in UNION {Batches[t] : t \in Senders}
    BY <1>2
  <2>3. \A i \in DOMAIN b : b[i].tp \in Types
    BY <2>2 DEF Types
  <2> HIDE DEF b
  <2>4. \A i \in 1 .. Len(b) : b[i] \in Known
    BY <2>1, <2>3 DEF Known
  <2>5. b \in Seq(Known)
    BY <2>1, <2>4
  <2> QED  BY <2>5 DEF b
<1> QED  BY <1>1, <1>2 DEF TypeOK

LEMMA TypedStep == TypeOK /\ Typed /\ [Next]_vars => Typed'
<1> SUFFICES ASSUME TypeOK, Typed, [Next]_vars PROVE Typed'
  OBVIOUS
<1>1. ASSUME NEW s \in Senders, SendStats(s) PROVE Typed'
  BY <1>1, KnownBatches DEF Typed, SendStats, storeVars
<1>2. CASE TakeBatch
  BY <1>2 DEF Typed, TakeBatch
<1>3. rest # <<>> /\ Counted => rest' \in Seq(Known)
  BY DEF Typed, Counted
<1>4. CASE EndWrite
  <2>1. rest # <<>> /\ statStream' = statStream /\ (Counted \/ rest' = rest)
    BY <1>4 DEF EndWrite, TypeOK, streamVars
  <2> QED  BY <1>3, <2>1 DEF Typed
<1>5. CASE Push
  <2>1. rest # <<>> /\ statStream' = statStream /\ Counted
    BY <1>5 DEF Push, TypeOK, streamVars
  <2> QED  BY <1>3, <2>1 DEF Typed
<1>6. CASE UNCHANGED <<statStream, rest>>
  BY <1>6 DEF Typed
<1> QED
  BY <1>1, <1>2, <1>4, <1>5, <1>6
  DEF Next, StoreStats, RecomputeStats, Post, SendCsv, CsvStats, BeginWrite, BeginCopy, CopySlot, Publish,
      GetTailPanics, vars, streamVars, storeVars

LEMMA OfTypeType ==
  ASSUME NEW tp, NEW n \in Nat PROVE IsFiniteSet(OfType(tp, n)) /\ Cardinality(OfType(tp, n)) \in Nat
<1>1. OfType(tp, n) \subseteq 1 .. n /\ IsFiniteSet(1 .. n)
  BY FS_Interval DEF OfType
<1> QED  BY <1>1, FS_Subset, FS_CardinalityType

LEMMA OfTypeNext ==
  ASSUME NEW tp, NEW n \in Nat
  PROVE  Cardinality(OfType(tp, n + 1)) =
           Cardinality(OfType(tp, n)) + (IF log[n + 1].tp = tp THEN 1 ELSE 0)
<1> DEFINE S == OfType(tp, n)
<1>1. IsFiniteSet(S) /\ Cardinality(S) \in Nat /\ n + 1 \notin S
  <2>1. n + 1 \notin S
    BY DEF OfType
  <2> QED  BY <2>1, OfTypeType
<1>2. CASE log[n + 1].tp = tp
  <2>1. OfType(tp, n + 1) = S \cup {n + 1}
    BY <1>2 DEF OfType
  <2> HIDE DEF S
  <2> QED  BY <1>1, <1>2, <2>1, FS_AddElement DEF S
<1>3. CASE log[n + 1].tp # tp
  <2>1. OfType(tp, n + 1) = S
    BY <1>3 DEF OfType
  <2> QED  BY <1>1, <1>3, <2>1
<1> QED  BY <1>2, <1>3

LEMMA CountsStep == TypeOK /\ Storing /\ Typed /\ CountsRight /\ [Next]_vars => CountsRight'
<1> SUFFICES ASSUME TypeOK, Storing, Typed, CountsRight, [Next]_vars PROVE CountsRight'
  OBVIOUS
<1>1. Len(log) \in Nat /\ Done \in 0 .. Len(log) /\ Done \in Nat
  BY StoredType
<1>2. ASSUME Done' = Done, UNCHANGED totalReqs PROVE CountsRight'
  <2>1. \A i \in 1 .. Done : log'[i] = log[i]
    BY <1>1, SameRequests
  <2>2. \A tp \in Types : OfType(tp, Done)' = OfType(tp, Done)
    BY <1>2, <2>1 DEF OfType
  <2> QED  BY <1>2, <2>2 DEF CountsRight
<1>3. ASSUME store \in {"write", "push"}, Counted, log' = log PROVE CountsRight'
  <2>1. PICK n \in Nat : n = Done /\ Len(log) = n + 1
    <3>1. Len(log) # 0 /\ Done = Len(log) - 1
      BY <1>3, StoredType
    <3>2. Done + 1 = Len(log)
      BY <1>1, <3>1
    <3> QED  BY <1>1, <3>2
  <2>2. Done' = n + 1
    BY <1>3, <2>1 DEF Counted, Done
  <2>3. Head(rest) = log[n + 1] /\ Head(rest).tp \in Types
    <3>1. Head(rest) = log[n + 1]
      BY <1>3, <2>1 DEF Storing
    <3>2. rest # <<>>
      BY <1>3 DEF TypeOK
    <3>3. Head(rest) \in Known
      BY <3>2 DEF Typed
    <3> QED  BY <3>1, <3>3 DEF Known
  <2>4. totalReqs' = [totalReqs EXCEPT ![log[n + 1].tp] = @ + 1] /\ totalReqs \in [Types -> Nat]
    BY <1>3, <2>3 DEF Counted, TypeOK
  <2>5. ASSUME NEW tp \in Types PROVE totalReqs'[tp] = Cardinality(OfType(tp, Done)')
    <3>1. OfType(tp, Done)' = OfType(tp, n + 1)
      BY <1>3, <2>2 DEF OfType
    <3>2. Cardinality(OfType(tp, n + 1)) = Cardinality(OfType(tp, n)) + (IF log[n + 1].tp = tp THEN 1 ELSE 0)
      BY OfTypeNext
    <3>3. totalReqs[tp] = Cardinality(OfType(tp, n)) /\ totalReqs[tp] \in Nat
      BY <2>1, <2>4 DEF CountsRight
    <3>4. totalReqs'[tp] = totalReqs[tp] + (IF log[n + 1].tp = tp THEN 1 ELSE 0)
      BY <2>4, <3>3
    <3> QED  BY <3>1, <3>2, <3>3, <3>4
  <2> QED  BY <2>5 DEF CountsRight
<1>4. CASE BeginWrite
  <2>1. store = "next" /\ store' = "write" /\ Len(log') = Len(log) + 1 /\ totalReqs' = totalReqs
    BY <1>4, Begun DEF BeginWrite
  <2>2. Done' = Done
    BY <1>1, <2>1 DEF Done
  <2> QED  BY <1>2, <2>1, <2>2
<1>5. CASE EndWrite
  <2>1. store = "write" /\ log' = log /\ (Counted \/ (store' = "push" /\ UNCHANGED totalReqs))
    BY <1>5 DEF EndWrite
  <2>2. CASE store' = "push" /\ UNCHANGED totalReqs
    BY <1>2, <2>1, <2>2 DEF Done
  <2> QED  BY <1>3, <2>1, <2>2
<1>6. CASE Push
  BY <1>3, <1>6 DEF Push, ringVars
<1>7. CASE Aside /\ UNCHANGED totalReqs
  <2>1. log' = log /\ (store' = store \/ (store = "take" /\ store' \in {"take", "next"}))
    BY <1>7 DEF Aside, ringVars
  <2>2. Done' = Done
    BY <2>1 DEF Done
  <2> QED  BY <1>2, <1>7, <2>2
<1>8. BeginWrite \/ EndWrite \/ Push \/ UNCHANGED totalReqs
  BY DEF Next, StoreStats, RecomputeStats, Post, SendStats, SendCsv, CsvStats, TakeBatch, BeginCopy, CopySlot,
         Publish, GetTailPanics, vars
<1> QED  BY <1>4, <1>5, <1>6, <1>7, <1>8, Steps
-----------------------------------------------------------------------------
LEMMA InitIInv == Init => IInv
<1> SUFFICES ASSUME Init PROVE IInv
  OBVIOUS
<1>0. RingLen \in Nat \ {0} /\ HeapCap \in Nat \ {0} /\ Warmup \in Nat
  BY CapAssumption, HeapAssumption
<1>1. Storing
  BY DEF Init, Storing
<1>2. Stored = 0 /\ Done = 0 /\ Len(log) = 0
  BY DEF Init, Stored, Done
<1>3. RingRight
  <2>1. Belongs(1, 1)
    BY <1>0, Multiple DEF Belongs
  <2> QED  BY <1>0, <1>2, <2>1 DEF Init, RingRight
<1>4. CopyBegan /\ CopyRecent
  <2>1. copy.at = 0 /\ copy.began = 0
    BY DEF Init
  <2>2. \A i \in 1 .. RingLen : ~(i < copy.at)
    BY <1>0, <2>1
  <2> QED  BY <1>2, <2>1, <2>2 DEF CopyBegan, CopyRecent
<1>5. RequestsUpTo(0) = {} /\ Cardinality({}) = 0
  BY FS_EmptySet DEF RequestsUpTo
<1>6. WarmedUp
  <2>1. Cardinality(RequestsUpTo(Stored)) = 0
    BY <1>2, <1>5
  <2>2. Least(0, 2 * Warmup + 1) = 0
    BY <1>0 DEF Least
  <2> QED  BY <2>1, <2>2 DEF Init, WarmedUp
<1>7. Requests = {}
  BY <1>2, <1>5 DEF Requests
<1>8. Ranked
  BY <1>0, <1>5, <1>7 DEF Init, Ranked, RankedBy, Least
<1>9. Typed
  BY DEF Init, Typed
<1>10. CountsRight
  <2>1. \A tp : OfType(tp, 0) = {}
    BY DEF OfType
  <2> QED  BY <1>2, <1>5, <2>1 DEF Init, CountsRight
<1> QED  BY InitType, <1>1, <1>3, <1>4, <1>6, <1>8, <1>9, <1>10 DEF IInv

(* Whatever is posted and however the handlers interleave, IInv holds. *)
THEOREM Invariant == Safety => []IInv
<1>1. IInv /\ [Next]_vars => IInv'
  BY TypeStep, StoringStep, RingStep, CopyStep, WarmedStep, RankedStep, TypedStep, CountsStep DEF IInv
<1> QED  BY InitIInv, <1>1, PTL DEF Safety

(* Every variable has its type: no channel and no heap exceeds its         *)
(* capacity, and the ring holds nothing that was not stored.               *)
THEOREM TypeCorrect == Safety => []TypeOK
<1>1. IInv => TypeOK
  BY DEF IInv
<1> QED  BY <1>1, Invariant, PTL

(* However long the ring and however far StoreStats gets while             *)
(* RecomputeStats copies, what it reads belongs where it reads it and had  *)
(* not been overwritten when it began.                                     *)
THEOREM CopyIsRecent == Safety => []CopyRecent
<1>1. IInv => CopyRecent
  BY DEF IInv
<1> QED  BY <1>1, Invariant, PTL
-----------------------------------------------------------------------------
LEMMA ProductBound ==
  ASSUME NEW a \in Nat, NEW d \in Nat \ {0}, NEW n \in Nat, a <= d PROVE a * n \in Nat /\ a * n <= d * n
<1>1. PICK e \in Nat : d = a + e
  BY d - a \in Nat
<1>2. a * n \in Nat /\ e * n \in Nat /\ d * n = a * n + e * n
  BY <1>1
<1> DEFINE p == a * n
           q == e * n
<1>3. p \in Nat /\ q \in Nat /\ d * n = p + q
  BY <1>2
<1> HIDE DEF p, q
<1>4. p <= d * n
  BY <1>3
<1> QED  BY <1>3, <1>4 DEF p

LEMMA DivBound ==
  ASSUME NEW d \in Nat \ {0}, NEW n \in Nat, NEW x \in Nat, x <= d * n PROVE x \div d \in 0 .. n
<1>1. PICK q \in Int, r \in 0 .. d - 1 : q = x \div d /\ x = d * q + r
  <2>1. x \div d \in Int /\ x % d \in 0 .. d - 1 /\ x = d * (x \div d) + (x % d)
    OBVIOUS
  <2> QED  BY <2>1
<1>2. q >= 0
  <2> SUFFICES ASSUME q <= -1 PROVE FALSE
    BY <1>1
  <2>1. PICK e \in Nat : q = -1 - e
    BY <1>1, -1 - q \in Nat
  <2>2. d * q = -d - d * e /\ d * e \in Nat
    BY <2>1
  <2> QED  BY <1>1, <2>2
<1>3. q <= n
  <2> SUFFICES ASSUME q >= n + 1 PROVE FALSE
    BY <1>1
  <2>1. PICK e \in Nat : q = n + 1 + e
    BY <1>1, q - (n + 1) \in Nat
  <2>2. d * q = d * n + d + d * e /\ d * e \in Nat /\ d * n \in Nat
    BY <2>1
  <2> QED  BY <1>1, <2>2
<1> QED  BY <1>1, <1>2, <1>3

(* A part of n is no more than n. *)
LEMMA PartBound ==
  ASSUME NEW f, IsFraction(f), NEW n \in Nat PROVE Part(f, n) \in 0 .. n
<1>1. f[1] \in Nat /\ f[2] \in Nat \ {0} /\ f[1] <= f[2]
  BY DEF IsFraction
<1>2. f[1] * n \in Nat /\ f[1] * n <= f[2] * n
  BY <1>1, ProductBound
<1>3. (f[1] * n) \div f[2] \in 0 .. n
  BY <1>1, <1>2, DivBound
<1> QED  BY <1>3 DEF Part

(* What ranks the requests finds the m-th slowest at the m-th place. *)
LEMMA AtPlace ==
  ASSUME NEW h \in Seq(Nat), NEW j \in 1 .. Len(h), NEW c \in Nat, NEW b \in Nat,
         RankedBy(h, h[j], c), RankedBy(h, h[j] - 1, b)
  PROVE  ~(Len(h) < j + c) /\ Len(h) < j + b
<1>1. h[j] \in Nat
  OBVIOUS
<1>2. h[j] > h[j] <=> Len(h) < j + c
  BY DEF RankedBy
<1>3. h[j] > h[j] - 1 <=> Len(h) < j + b
  BY DEF RankedBy
<1>4. ~(h[j] > h[j]) /\ h[j] > h[j] - 1
  BY <1>1
<1> QED  BY <1>2, <1>3, <1>4

LEMMA FromTop ==
  ASSUME NEW l \in Nat, NEW m \in 1 .. l, NEW c \in Nat, NEW b \in Nat,
         ~(l < (l - m + 1) + c), l < (l - m + 1) + b
  PROVE  c < m /\ b >= m
OBVIOUS

LEMMA MthSlowest ==
  ASSUME NEW h \in Seq(Nat), NEW m \in 1 .. Len(h),
         \A v \in Int : RankedBy(h, v, Cardinality(Above(v))) /\ Cardinality(Above(v)) \in Nat
  PROVE  IsNth(h[Len(h) - m + 1], m)
<1>1. PICK l \in Nat : l = Len(h) /\ m \in 1 .. l
  BY LenProperties
<1>2. PICK j \in 1 .. l : j = l - m + 1
  <2>1. l - m + 1 \in 1 .. l
    BY <1>1
  <2> QED  BY <2>1
<1>3. PICK v \in Nat : v = h[j]
  BY <1>1, <1>2, ElementOfSeq
<1>4. v \in Int /\ v - 1 \in Int
  OBVIOUS
<1>5. PICK c \in Nat : c = Cardinality(Above(v))
  BY <1>4
<1>6. PICK b \in Nat : b = Cardinality(Above(v - 1))
  BY <1>4
<1>7. RankedBy(h, v, c) /\ RankedBy(h, v - 1, b)
  BY <1>4, <1>5, <1>6
<1>8. ~(l < j + c) /\ l < j + b
  BY <1>1, <1>2, <1>3, <1>7, AtPlace
<1>9. c < m /\ b >= m
  BY <1>1, <1>2, <1>8, FromTop
<1> QED  BY <1>1, <1>2, <1>3, <1>5, <1>6, <1>9 DEF IsNth

(* The tails asked for, and the root of the heap for a part that is more   *)
(* than it holds.                                                          *)
LEMMA TailsRight == IInv => TailRight
<1> SUFFICES ASSUME IInv, HasTail, ~Smallest(total) PROVE
      /\ TailAnswer.total = Cardinality(Requests)
      /\ \A f \in Tails : LET n == Part(f, total) IN
           /\ IsNth(TailAnswer.lat[f], IF n < HeapCap THEN n ELSE HeapCap)
           /\ n > HeapCap => TailAnswer.overflow
  BY DEF TailRight
<1>1. TailAnswer.total = Cardinality(Requests)
  BY DEF IInv, Ranked, TailAnswer
<1> SUFFICES ASSUME NEW f \in Tails PROVE
      /\ IsNth(TailAnswer.lat[f], IF Part(f, total) < HeapCap THEN Part(f, total) ELSE HeapCap)
      /\ Part(f, total) > HeapCap => TailAnswer.overflow
  BY <1>1
<1> DEFINE h == latencyHeap
           l == Len(latencyHeap)
           n == Part(f, total)
           m == IF n < HeapCap THEN n ELSE HeapCap
<1>2. h \in Seq(Nat) /\ l \in Nat /\ HeapCap \in Nat \ {0} /\ total \in Nat /\ l = Least(total, HeapCap)
  BY CapAssumption DEF IInv, TypeOK, Ranked
<1>3. n \in 1 .. total
  BY <1>2, PartBound, FractionAssumption DEF Smallest
<1>4. m \in 1 .. l /\ (n >= l => m = l) /\ (n < l => m = n) /\ (n > HeapCap => n >= l)
  BY <1>2, <1>3 DEF Least
<1>5. IsNth(h[l - m + 1], m)
  <2>1. \A v \in Int : RankedBy(h, v, Cardinality(Above(v))) /\ Cardinality(Above(v)) \in Nat
    BY RequestsType DEF IInv, Ranked
  <2> QED  BY <1>2, <1>4, <2>1, MthSlowest
<1>6. TailAnswer.lat[f] = InTail(n)
  BY DEF TailAnswer
<1>7. InTail(n) = h[l - m + 1]
  <2>1. CASE n >= l
    BY <2>1, <1>2, <1>4 DEF InTail
  <2>2. CASE ~(n >= l)
    BY <2>2, <1>2, <1>3, <1>4 DEF InTail
  <2> QED  BY <2>1, <2>2
<1>8. n > HeapCap => TailAnswer.overflow
  BY <1>4 DEF TailAnswer
<1> QED  BY <1>5, <1>6, <1>7, <1>8

(* Whatever was stored, and whenever GetTailHandler sorts the heap that    *)
(* StoreStats fills: an answer has for every tail the latency that so many *)
(* of all requests since the warm-up reach, or is flagged.                 *)
THEOREM TailsAreRight == Safety => []TailRight
BY TailsRight, Invariant, PTL
-----------------------------------------------------------------------------
(* Sorting.  The members of S in the order of their values, those of equal *)
(* value in the order of their numbers.                                    *)
Before(val, a, b) == val[a] < val[b] \/ (val[a] = val[b] /\ a < b)
RankIn(S, val, a) == Cardinality({b \in S : Before(val, b, a)}) + 1

LEMMA RankLess ==
  ASSUME NEW S, IsFiniteSet(S), S \subseteq Int, NEW val \in [S -> Int],
         NEW a \in S, NEW b \in S, Before(val, a, b)
  PROVE  RankIn(S, val, a) < RankIn(S, val, b)
<1> DEFINE A == {c \in S : Before(val, c, a)}
           B == {c \in S : Before(val, c, b)}
<1>1. \A c \in S : c \in Int /\ val[c] \in Int
  OBVIOUS
<1>2. A \subseteq B \ {a}
  <2> SUFFICES ASSUME NEW c \in S, Before(val, c, a) PROVE Before(val, c, b) /\ c # a
    OBVIOUS
  <2>1. {a, b, c, val[a], val[b], val[c]} \subseteq Int
    BY <1>1
  <2> QED  BY <2>1 DEF Before
<1>3. IsFiniteSet(B) /\ a \in B
  BY FS_Subset
<1>4. /\ IsFiniteSet(B \ {a}) /\ Cardinality(B \ {a}) = Cardinality(B) - 1
      /\ Cardinality(B) \in Nat
  <2> HIDE DEF B
  <2> QED  BY <1>3, FS_RemoveElement, FS_CardinalityType
<1>5. IsFiniteSet(A) /\ Cardinality(A) <= Cardinality(B \ {a}) /\ Cardinality(A) \in Nat
  <2> HIDE DEF A, B
  <2> QED  BY <1>2, <1>4, FS_Subset, FS_CardinalityType
<1>6. Cardinality(A) + 1 < Cardinality(B) + 1
  <2> HIDE DEF A, B
  <2> QED  BY <1>4, <1>5
<1> QED  BY <1>6 DEF RankIn

LEMMA RankType ==
  ASSUME NEW S, IsFiniteSet(S), S \subseteq Int, NEW val \in [S -> Int], NEW a \in S
  PROVE  RankIn(S, val, a) \in 1 .. Cardinality(S)
<1> DEFINE A == {c \in S : Before(val, c, a)}
<1>1. A \subseteq S \ {a}
  BY DEF Before
<1>2. /\ IsFiniteSet(S \ {a}) /\ Cardinality(S \ {a}) = Cardinality(S) - 1 /\ Cardinality(S) \in Nat
  BY FS_RemoveElement, FS_CardinalityType
<1>3. IsFiniteSet(A) /\ Cardinality(A) <= Cardinality(S \ {a}) /\ Cardinality(A) \in Nat
  <2> HIDE DEF A
  <2> QED  BY <1>1, <1>2, FS_Subset, FS_CardinalityType
<1>4. Cardinality(A) + 1 \in 1 .. Cardinality(S)
  <2> HIDE DEF A
  <2> QED  BY <1>2, <1>3
<1> QED  BY <1>4 DEF RankIn

(* Whatever the values, they can be sorted. *)
LEMMA CanBeSorted ==
  ASSUME NEW S, IsFiniteSet(S), S \subseteq Int, NEW val \in [S -> Int]
  PROVE  \E order \in SetToSeqs(S) : \A i, j \in DOMAIN order : i < j => val[order[i]] <= val[order[j]]
<1> DEFINE n == Cardinality(S)
           rank == [a \in S |-> RankIn(S, val, a)]
<1>1. n \in Nat
  BY FS_CardinalityType
<1>2. \A a, b \in S : a = b \/ Before(val, a, b) \/ Before(val, b, a)
  <2>1. \A c \in S : c \in Int /\ val[c] \in Int
    OBVIOUS
  <2> QED  BY <2>1 DEF Before
<1>3. rank \in [S -> 1 .. n]
  BY RankType
<1>4. \A a, b \in S : Before(val, a, b) => rank[a] < rank[b]
  BY RankLess
<1> HIDE DEF rank
<1>5. \A a, b \in S : rank[a] = rank[b] => a = b
  <2>1. \A a \in S : rank[a] \in Int
    BY <1>3
  <2> QED  BY <1>2, <1>4, <2>1
<1>6. rank \in Injection(S, 1 .. n)
  BY <1>3, <1>5 DEF Injection, IsInjective
<1>7. rank \in Surjection(S, 1 .. n)
  <2>1. IsFiniteSet(1 .. n) /\ Cardinality(1 .. n) = n
    BY <1>1, FS_Interval
  <2> QED  BY <1>6, <2>1, FS_Injection
<1>8. \A i \in 1 .. n : \E a \in S : rank[a] = i
  BY <1>7 DEF Surjection
<1> DEFINE order == [i \in 1 .. n |-> CHOOSE a \in S : rank[a] = i]
<1>9. \A i \in 1 .. n : order[i] \in S /\ rank[order[i]] = i
  BY <1>8
<1>10. order \in [1 .. n -> S]
  BY <1>9
<1> HIDE DEF order
<1>11. \A i, j \in 1 .. n : i # j => order[i] # order[j]
  BY <1>9
<1>12. order \in SetToSeqs(S)
  BY <1>10, <1>11 DEF SetToSeqs
<1>13. \A i, j \in 1 .. n : i < j => val[order[i]] <= val[order[j]]
  <2> SUFFICES ASSUME NEW i \in 1 .. n, NEW j \in 1 .. n, i < j PROVE val[order[i]] <= val[order[j]]
    OBVIOUS
  <2>1. order[i] \in S /\ order[j] \in S /\ rank[order[i]] = i /\ rank[order[j]] = j
    BY <1>9
  <2>2. order[i] # order[j]
    BY <1>11
  <2>3. ~Before(val, order[j], order[i])
    <3>1. ~(j < i)
      OBVIOUS
    <3> QED  BY <1>4, <2>1, <3>1
  <2>4. Before(val, order[i], order[j])
    BY <1>2, <2>1, <2>2, <2>3
  <2>5. val[order[i]] \in Int /\ val[order[j]] \in Int
    BY <2>1
  <2> QED  BY <2>4, <2>5 DEF Before
<1> QED  BY <1>10, <1>12, <1>13

(* An order of S goes through all of it. *)
IsOrder(order, S) ==
  order \in [1 .. Cardinality(S) -> S] /\ \A i, j \in 1 .. Cardinality(S) : i # j => order[i] # order[j]

LEMMA OrderType ==
  ASSUME NEW S, IsFiniteSet(S), NEW order \in SetToSeqs(S)
  PROVE  /\ IsOrder(order, S) /\ DOMAIN order = 1 .. Cardinality(S)
         /\ Len(order) = Cardinality(S) /\ Cardinality(S) \in Nat
<1>1. IsOrder(order, S)
  BY DEF SetToSeqs, IsOrder
<1>2. Cardinality(S) \in Nat
  BY FS_CardinalityType
<1>3. DOMAIN order = 1 .. Cardinality(S)
  BY <1>1 DEF IsOrder
<1>4. order \in Seq(S)
  BY <1>1, <1>2 DEF IsOrder
<1> QED  BY <1>1, <1>2, <1>3, <1>4, LenProperties

(* The members of a part of S are as many as their places. *)
LEMMA Places ==
  ASSUME NEW S, IsFiniteSet(S), NEW order, IsOrder(order, S), NEW T \in SUBSET S
  PROVE  /\ IsFiniteSet(T) /\ IsFiniteSet({i \in 1 .. Cardinality(S) : order[i] \in T})
         /\ Cardinality(T) = Cardinality({i \in 1 .. Cardinality(S) : order[i] \in T})
         /\ Cardinality(T) \in Nat
<1> DEFINE n == Cardinality(S)
           P == {i \in 1 .. n : order[i] \in T}
<1>1. n \in Nat /\ IsFiniteSet(1 .. n) /\ Cardinality(1 .. n) = n
  BY FS_CardinalityType, FS_Interval
<1>2. order \in Injection(1 .. n, S)
  BY DEF IsOrder, Injection, IsInjective
<1>3. order \in Surjection(1 .. n, S)
  BY <1>1, <1>2, FS_Injection
<1>4. IsFiniteSet(P)
  BY <1>1, FS_Subset
<1> DEFINE f == [i \in P |-> order[i]]
<1>5. f \in [P -> T] /\ (\A i, j \in P : f[i] = f[j] => i = j) /\ \A t \in T : \E i \in P : f[i] = t
  <2>1. \A t \in T : \E i \in 1 .. n : order[i] = t
    BY <1>3 DEF Surjection
  <2>2. \A i, j \in 1 .. n : i # j => order[i] # order[j]
    BY DEF IsOrder
  <2> QED  BY <2>1, <2>2
<1>6. f \in Bijection(P, T)
  <2> HIDE DEF f, P
  <2> QED  BY <1>5 DEF Bijection, Injection, IsInjective, Surjection
<1>7. ExistsBijection(P, T)
  BY <1>6 DEF ExistsBijection
<1> HIDE DEF P
<1>8. IsFiniteSet(T) /\ Cardinality(T) = Cardinality(P) /\ Cardinality(T) \in Nat
  BY <1>4, <1>7, FS_Bijection, FS_CardinalityType
<1> QED  BY <1>4, <1>8 DEF P

(* In a sorted order val of S, with the n-th place of n in all. *)
SortedBy(order, S, val) ==
  /\ IsOrder(order, S)
  /\ \A i, j \in 1 .. Cardinality(S) : i < j => val[order[i]] <= val[order[j]]

LEMMA SortedMore ==
  ASSUME NEW S, IsFiniteSet(S), NEW val \in [S -> Int], NEW order, SortedBy(order, S, val),
         NEW p \in 1 .. Cardinality(S), NEW v \in Int, val[order[p]] <= v
  PROVE  Cardinality({a \in S : val[a] <= v}) >= p
<1> DEFINE T == {a \in S : val[a] <= v}
           P == {i \in 1 .. Cardinality(S) : order[i] \in T}
<1>0. Cardinality(S) \in Nat /\ IsOrder(order, S)
  BY FS_CardinalityType DEF SortedBy
<1>1. IsFiniteSet(P) /\ Cardinality(T) = Cardinality(P) /\ Cardinality(T) \in Nat
  <2>1. T \in SUBSET S
    OBVIOUS
  <2> HIDE DEF T
  <2> QED  BY <1>0, <2>1, Places
<1>2. 1 .. p \subseteq P
  <2> SUFFICES ASSUME NEW i \in 1 .. p PROVE i \in 1 .. Cardinality(S) /\ order[i] \in T
    OBVIOUS
  <2>1. i \in 1 .. Cardinality(S) /\ (i < p \/ i = p)
    BY <1>0
  <2>2. order[i] \in S /\ order[p] \in S
    BY <1>0, <2>1 DEF IsOrder
  <2>3. val[order[i]] \in Int /\ val[order[p]] \in Int
    BY <2>2
  <2>4. val[order[i]] <= val[order[p]]
    BY <2>1, <2>3 DEF SortedBy
  <2> QED  BY <2>1, <2>2, <2>3, <2>4
<1>3. IsFiniteSet(1 .. p) /\ Cardinality(1 .. p) = p
  BY FS_Interval
<1>4. Cardinality(1 .. p) <= Cardinality(P)
  <2> HIDE DEF P
  <2> QED  BY <1>1, <1>2, FS_Subset
<1> HIDE DEF P
<1> QED  BY <1>1, <1>3, <1>4

LEMMA SortedLess ==
  ASSUME NEW S, IsFiniteSet(S), NEW val \in [S -> Int], NEW order, SortedBy(order, S, val),
         NEW p \in 1 .. Cardinality(S), NEW v \in Int, v <= val[order[p]]
  PROVE  Cardinality({a \in S : val[a] < v}) <= p - 1
<1> DEFINE T == {a \in S : val[a] < v}
           P == {i \in 1 .. Cardinality(S) : order[i] \in T}
<1>0. Cardinality(S) \in Nat /\ IsOrder(order, S)
  BY FS_CardinalityType DEF SortedBy
<1>1. IsFiniteSet(P) /\ Cardinality(T) = Cardinality(P) /\ Cardinality(T) \in Nat
  <2>1. T \in SUBSET S
    OBVIOUS
  <2> HIDE DEF T
  <2> QED  BY <1>0, <2>1, Places
<1>2. P \subseteq 1 .. p - 1
  <2> SUFFICES ASSUME NEW i \in 1 .. Cardinality(S), val[order[i]] < v PROVE i \in 1 .. p - 1
    OBVIOUS
  <2>1. order[i] \in S /\ order[p] \in S
    BY <1>0 DEF IsOrder
  <2>2. val[order[i]] \in Int /\ val[order[p]] \in Int
    BY <2>1
  <2>3. ~(p < i) /\ i # p
    BY <2>2 DEF SortedBy
  <2> QED  BY <1>0, <2>3
<1>3. IsFiniteSet(1 .. p - 1) /\ Cardinality(1 .. p - 1) = p - 1
  BY FS_Interval
<1>4. Cardinality(P) <= Cardinality(1 .. p - 1)
  <2> HIDE DEF P
  <2> QED  BY <1>2, <1>3, FS_Subset
<1> HIDE DEF P
<1> QED  BY <1>1, <1>3, <1>4

(* Those that are as slow as i, and those that are slower. *)
AsSlowAs(S, val, i) == {b \in S : val[b] >= val[i]}
SlowerThan(S, val, i) == {b \in S : val[b] > val[i]}

LEMMA SortedAbove ==
  ASSUME NEW S, IsFiniteSet(S), NEW val \in [S -> Int], NEW order, SortedBy(order, S, val),
         NEW p \in 1 .. Cardinality(S)
  PROVE  /\ Cardinality(AsSlowAs(S, val, order[p])) >= Cardinality(S) - p + 1
         /\ Cardinality(SlowerThan(S, val, order[p])) <= Cardinality(S) - p
         /\ Cardinality(AsSlowAs(S, val, order[p])) \in Nat
         /\ Cardinality(SlowerThan(S, val, order[p])) \in Nat
<1> DEFINE n == Cardinality(S)
           v == val[order[p]]
           T == {a \in S : val[a] >= v}
           U == {a \in S : val[a] > v}
           P == {i \in 1 .. Cardinality(S) : order[i] \in T}
           Q == {i \in 1 .. Cardinality(S) : order[i] \in U}
<1>0. n \in Nat /\ IsOrder(order, S) /\ p \in 1 .. n
  BY FS_CardinalityType DEF SortedBy
<1>1. /\ IsFiniteSet(P) /\ Cardinality(T) = Cardinality(P) /\ Cardinality(T) \in Nat
      /\ IsFiniteSet(Q) /\ Cardinality(U) = Cardinality(Q) /\ Cardinality(U) \in Nat
  <2>1. T \in SUBSET S /\ U \in SUBSET S
    OBVIOUS
  <2> HIDE DEF T, U
  <2> QED  BY <1>0, <2>1, Places
<1>2. \A i \in 1 .. n : order[i] \in S /\ val[order[i]] \in Int
  BY DEF SortedBy, IsOrder
<1>3. \A i, j \in 1 .. n : i < j => val[order[i]] <= val[order[j]]
  BY DEF SortedBy
<1>4. p .. n \subseteq P
  <2> SUFFICES ASSUME NEW i \in p .. n PROVE i \in 1 .. n /\ order[i] \in T
    OBVIOUS
  <2>1. i \in 1 .. n /\ (p < i \/ i = p)
    BY <1>0
  <2>2. val[order[p]] <= val[order[i]]
    BY <1>0, <1>2, <1>3, <2>1
  <2> QED  BY <1>0, <1>2, <2>1, <2>2
<1>5. Q \subseteq p + 1 .. n
  <2> SUFFICES ASSUME NEW i \in 1 .. n, val[order[i]] > val[order[p]] PROVE i \in p + 1 .. n
    OBVIOUS
  <2>1. ~(i < p) /\ i # p
    BY <1>0, <1>2, <1>3
  <2> QED  BY <1>0, <2>1
<1>6. /\ IsFiniteSet(p .. n) /\ Cardinality(p .. n) = n - p + 1
      /\ IsFiniteSet(p + 1 .. n) /\ Cardinality(p + 1 .. n) = n - p
  <2> HIDE DEF n
  <2>1. IsFiniteSet(p .. n) /\ Cardinality(p .. n) = n - p + 1
    BY <1>0, FS_Interval
  <2>2. IsFiniteSet(p + 1 .. n) /\ Cardinality(p + 1 .. n) = (IF p + 1 > n THEN 0 ELSE n - (p + 1) + 1)
    BY <1>0, FS_Interval
  <2> QED  BY <1>0, <2>1, <2>2
<1>7. Cardinality(p .. n) <= Cardinality(P) /\ Cardinality(Q) <= Cardinality(p + 1 .. n)
  <2> HIDE DEF P, Q, n
  <2> QED  BY <1>1, <1>4, <1>5, <1>6, FS_Subset
<1>8. T = AsSlowAs(S, val, order[p]) /\ U = SlowerThan(S, val, order[p])
  BY DEF AsSlowAs, SlowerThan
<1> HIDE DEF P, Q, T, U
<1> QED  BY <1>0, <1>1, <1>6, <1>7, <1>8

(* What makes a part a percentile. *)
LEMMA PartRight ==
  ASSUME NEW f, IsFraction(f), NEW n \in Nat
  PROVE  /\ Part(f, n) \in 0 .. n
         /\ Part(f, n) * f[2] <= f[1] * n
         /\ f[1] * n < (Part(f, n) + 1) * f[2]
         /\ f[1] < f[2] /\ n > 0 => Part(f, n) < n
<1>1. f[1] \in Nat /\ f[2] \in Nat \ {0}
  BY DEF IsFraction
<1> DEFINE x == f[1] * n
<1>2. x \in Nat
  BY <1>1
<1> HIDE DEF x
<1>3. PICK q \in Int, r \in 0 .. f[2] - 1 : q = x \div f[2] /\ x = f[2] * q + r
  <2>1. ASSUME NEW d \in Nat \ {0}
        PROVE  x \div d \in Int /\ x % d \in 0 .. d - 1 /\ x = d * (x \div d) + (x % d)
    BY <1>2
  <2> QED  BY <1>1, <2>1
<1>4. q = Part(f, n)
  BY <1>3 DEF Part, x
<1>5. q \in 0 .. n
  BY <1>4, PartBound
<1> DEFINE d == f[2]
           y == d * q
<1>6. y \in Int /\ d \in Nat /\ q * d = y /\ (q + 1) * d = y + d
  BY <1>1, <1>3
<1>7. q * d <= x /\ x < (q + 1) * d
  <2>1. x = y + r /\ r \in Int /\ 0 <= r /\ r < d
    BY <1>1, <1>3
  <2> HIDE DEF d, y
  <2> QED  BY <1>6, <2>1
<1>8. ASSUME f[1] < f[2], n > 0 PROVE q < n
  <2> SUFFICES ASSUME q = n PROVE FALSE
    BY <1>5
  <2>1. f[1] + 1 \in Nat /\ f[1] + 1 <= d
    BY <1>1, <1>8
  <2>2. (f[1] + 1) * n <= d * n
    BY <1>1, <2>1, ProductBound
  <2>3. (f[1] + 1) * n = x + n
    BY <1>1 DEF x
  <2>4. q * d = d * n
    BY <1>1
  <2>5. PICK z \in Int : z = q * d
    BY <1>6
  <2>6. x + n <= z /\ z <= x
    BY <1>7, <2>2, <2>3, <2>4, <2>5
  <2> QED  BY <1>2, <1>8, <2>6
<1> QED  BY <1>4, <1>5, <1>7, <1>8 DEF x

(* The places of S with a value up to v, and below it. *)
UpTo(S, val, v) == {i \in S : val[i] <= v}
Below(S, val, v) == {i \in S : val[i] < v}

LEMMA PercentileRight ==
  ASSUME NEW S, IsFiniteSet(S), NEW val \in [S -> Int], NEW order, SortedBy(order, S, val),
         NEW f, IsFraction(f), NEW n, n = Cardinality(S), n > 1, NEW v,
         v = val[IF Part(f, n) < n THEN order[Part(f, n) + 1] ELSE order[1]]
  PROVE  /\ f[1] < f[2] => Cardinality(UpTo(S, val, v)) * f[2] > f[1] * n
         /\ Cardinality(Below(S, val, v)) * f[2] <= f[1] * n
<1> USE DEF UpTo, Below
<1> DEFINE i == Part(f, n)
           upTo == Cardinality({a \in S : val[a] <= v})
           below == Cardinality({a \in S : val[a] < v})
<1>1. n \in Nat /\ n > 1 /\ f[1] \in Nat /\ f[2] \in Nat \ {0}
  BY FS_CardinalityType DEF IsFraction
<1>2. i \in 0 .. n /\ i * f[2] <= f[1] * n /\ f[1] * n < (i + 1) * f[2] /\ (f[1] < f[2] => i < n)
  BY <1>1, PartRight
<1>3. upTo \in Nat /\ below \in Nat
  <2>1. {a \in S : val[a] <= v} \in SUBSET S /\ {a \in S : val[a] < v} \in SUBSET S
    OBVIOUS
  <2> QED  BY <2>1, FS_Subset, FS_CardinalityType
<1>4. \A p \in 1 .. n : order[p] \in S /\ val[order[p]] \in Int
  BY DEF SortedBy, IsOrder
<1>5. CASE i < n
  <2>1. i + 1 \in 1 .. n /\ v = val[order[i + 1]] /\ v \in Int
    BY <1>1, <1>2, <1>4, <1>5
  <2>2. upTo >= i + 1 /\ below <= (i + 1) - 1
    <3>1. upTo >= i + 1
      <4> HIDE DEF i
      <4> QED  BY <2>1, SortedMore
    <3>2. below <= (i + 1) - 1
      <4> HIDE DEF i
      <4> QED  BY <2>1, SortedLess
    <3> QED  BY <3>1, <3>2
  <2>3. i \in Nat /\ below <= i
    BY <1>2, <1>3, <2>2
  <2> HIDE DEF i, upTo, below
  <2>4. /\ (i + 1) * f[2] <= upTo * f[2] /\ (i + 1) * f[2] \in Nat
        /\ below * f[2] <= i * f[2] /\ below * f[2] \in Nat
    BY <1>1, <1>3, <2>2, <2>3, ProductBound
  <2>5. upTo * f[2] \in Nat /\ i * f[2] \in Nat /\ f[1] * n \in Nat
    BY <1>1, <1>3, <2>3
  <2>6. PICK a \in Nat, b \in Nat, c \in Nat, d \in Nat, e \in Nat :
          a = (i + 1) * f[2] /\ b = upTo * f[2] /\ c = below * f[2] /\ d = i * f[2] /\ e = f[1] * n
    BY <2>4, <2>5
  <2>7. b > e /\ c <= e
    <3>1. a <= b /\ c <= d /\ d <= e /\ e < a
      BY <1>2, <2>4, <2>6
    <3> QED  BY <3>1
  <2> QED  BY <2>6, <2>7 DEF upTo, below
<1>6. CASE ~(i < n)
  <2>1. v = val[order[1]] /\ 1 \in 1 .. n /\ v \in Int
    BY <1>1, <1>4, <1>6
  <2>2. below <= 1 - 1
    BY <2>1, SortedLess
  <2>3. below = 0 /\ 0 * f[2] = 0 /\ f[1] * n \in Nat
    BY <1>1, <1>3, <2>2
  <2>4. below * f[2] <= f[1] * n
    BY <2>3
  <2> QED  BY <1>2, <1>6, <2>4
<1> QED  BY <1>5, <1>6

(* The places of T that are among the m slowest of S; those that are if    *)
(* equal values count for them; those of T from place a of an order on.    *)
SlowestOf(T, S, val, m) == {i \in T : Cardinality(AsSlowAs(S, val, i)) <= m}
SlowOf(T, S, val, m) == {i \in T : Cardinality(SlowerThan(S, val, i)) < m}
FromPlace(order, a, n, T) == {j \in a .. n - 1 : order[j + 1] \in T}

(* The slowest from place a on are between those that not more than so     *)
(* many are as slow as, and those that fewer are slower than.              *)
LEMMA SlowestRight ==
  ASSUME NEW S, IsFiniteSet(S), NEW val \in [S -> Int], NEW order, SortedBy(order, S, val),
         NEW n, n = Cardinality(S), NEW a \in 0 .. n, NEW T \in SUBSET S
  PROVE  /\ Cardinality(FromPlace(order, a, n, T)) >= Cardinality(SlowestOf(T, S, val, n - a))
         /\ Cardinality(FromPlace(order, a, n, T)) <= Cardinality(SlowOf(T, S, val, n - a))
<1> DEFINE J == {j \in a .. n - 1 : order[j + 1] \in T}
           PJ == {p \in a + 1 .. n : order[p] \in T}
           Low == {i \in T : Cardinality(AsSlowAs(S, val, i)) <= n - a}
           High == {i \in T : Cardinality(SlowerThan(S, val, i)) < n - a}
           PLow == {p \in 1 .. n : order[p] \in Low}
           PHigh == {p \in 1 .. n : order[p] \in High}
<1>1. n \in Nat /\ a \in 0 .. n /\ IsOrder(order, S)
  BY FS_CardinalityType DEF SortedBy
<1>2. \A p \in 1 .. n : order[p] \in S
  BY <1>1 DEF IsOrder
<1>3. \A p \in 1 .. n :
         /\ Cardinality(AsSlowAs(S, val, order[p])) >= n - p + 1
         /\ Cardinality(SlowerThan(S, val, order[p])) <= n - p
         /\ Cardinality(AsSlowAs(S, val, order[p])) \in Nat
         /\ Cardinality(SlowerThan(S, val, order[p])) \in Nat
  <2> HIDE DEF J, PJ, Low, High, PLow, PHigh
  <2> QED  BY SortedAbove
<1>4. PLow \subseteq PJ
  <2> SUFFICES ASSUME NEW p \in 1 .. n, order[p] \in Low PROVE p \in a + 1 .. n /\ order[p] \in T
    OBVIOUS
  <2>1. PICK c \in Nat : c = Cardinality(AsSlowAs(S, val, order[p]))
    BY <1>3
  <2>2. c >= n - p + 1 /\ c <= n - a
    BY <1>3, <2>1
  <2>3. p \in a + 1 .. n
    BY <1>1, <2>2
  <2> QED  BY <2>3
<1>5. PJ \subseteq PHigh
  <2> SUFFICES ASSUME NEW p \in a + 1 .. n, order[p] \in T PROVE p \in 1 .. n /\ order[p] \in High
    OBVIOUS
  <2>1. p \in 1 .. n
    BY <1>1
  <2>2. PICK c \in Nat : c = Cardinality(SlowerThan(S, val, order[p]))
    BY <1>3, <2>1
  <2>3. c <= n - p
    BY <1>3, <2>1, <2>2
  <2>4. c < n - a
    BY <1>1, <2>3
  <2> QED  BY <2>1, <2>2, <2>4
<1>6. /\ IsFiniteSet(PLow) /\ Cardinality(Low) = Cardinality(PLow)
      /\ IsFiniteSet(PHigh) /\ Cardinality(High) = Cardinality(PHigh)
  <2>1. Low \in SUBSET S /\ High \in SUBSET S
    OBVIOUS
  <2> HIDE DEF Low, High
  <2> QED  BY <1>1, <2>1, Places
<1>7. IsFiniteSet(PJ) /\ Cardinality(PJ) \in Nat /\ Cardinality(PLow) <= Cardinality(PJ) /\ Cardinality(PJ) <= Cardinality(PHigh)
  <2> HIDE DEF PLow, PJ, PHigh
  <2> QED  BY <1>4, <1>5, <1>6, FS_Subset, FS_CardinalityType
<1>8. Cardinality(J) = Cardinality(PJ)
  <2> DEFINE f == [p \in PJ |-> p - 1]
  <2>1. \A p \in PJ : p - 1 \in J
    BY <1>1
  <2>2. \A j \in J : j + 1 \in PJ /\ (j + 1) - 1 = j
    BY <1>1
  <2>3. \A p, q \in PJ : p - 1 = q - 1 => p = q
    BY <1>1
  <2>4. f \in [PJ -> J] /\ (\A p, q \in PJ : f[p] = f[q] => p = q) /\ \A j \in J : \E p \in PJ : f[p] = j
    <3> HIDE DEF PJ, J
    <3> QED  BY <2>1, <2>2, <2>3
  <2>5. f \in Bijection(PJ, J)
    <3> HIDE DEF f, PJ, J
    <3> QED  BY <2>4 DEF Bijection, Injection, IsInjective, Surjection
  <2>6. ExistsBijection(PJ, J)
    BY <2>5 DEF ExistsBijection
  <2> HIDE DEF PJ, J
  <2> QED  BY <1>7, <2>6, FS_Bijection
<1> HIDE DEF PJ, PLow, PHigh, J, Low, High
<1>9. Cardinality(J) >= Cardinality(Low) /\ Cardinality(J) <= Cardinality(High)
  BY <1>6, <1>7, <1>8, FS_CardinalityType
<1> QED  BY <1>9 DEF J, Low, High, FromPlace, SlowestOf, SlowOf
-----------------------------------------------------------------------------
(* What is published of a copy. *)
Latencies(tp) == [i \in SlotsOf(tp) |-> Copied[i].lat]

LEMMA SlotType ==
  ASSUME TypeOK, NEW i \in 1 .. RingLen, NEW f \in Fields
  PROVE  copy.slots[i][f] \in 0 .. Len(log) /\ Len(log) \in Nat
<1>1. copy.slots \in [1 .. RingLen -> [Fields -> 0 .. Len(log)]] /\ Len(log) \in Nat
  BY DEF TypeOK
<1>2. copy.slots[i] \in [Fields -> 0 .. Len(log)]
  BY <1>1
<1> QED  BY <1>1, <1>2

LEMMA CopiedLatency == TypeOK => \A i \in 1 .. RingLen : Copied[i].lat \in Nat
<1> SUFFICES ASSUME TypeOK, NEW i \in 1 .. RingLen PROVE Copied[i].lat \in Nat
  OBVIOUS
<1> DEFINE k == copy.slots[i]["lat"]
<1>1. k \in 0 .. Len(log) /\ Len(log) \in Nat
  <2>1. "lat" \in Fields
    BY DEF Fields
  <2> QED  BY <2>1, SlotType
<1>2. Copied[i].lat = (IF k = 0 THEN Nothing["lat"] ELSE log[k]["lat"])
  BY DEF Copied, Entry, Fields
<1>3. k # 0 => log[k]["lat"] \in Nat
  <2>1. k # 0 => log[k] \in Measurement
    BY <1>1, SMTT(30) DEF TypeOK
  <2> QED  BY <2>1 DEF Measurement
<1> QED  BY <1>2, <1>3 DEF Nothing

LEMMA SlotsType ==
  ASSUME TypeOK, NEW tp
  PROVE  /\ SlotsOf(tp) \subseteq 1 .. RingLen /\ SlotsOf(tp) \subseteq Int
         /\ IsFiniteSet(SlotsOf(tp)) /\ Cardinality(SlotsOf(tp)) \in Nat
         /\ Latencies(tp) \in [SlotsOf(tp) -> Int]
<1>1. RingLen \in Nat
  BY CapAssumption
<1>2. SlotsOf(tp) \subseteq 1 .. RingLen
  BY DEF SlotsOf
<1>3. IsFiniteSet(SlotsOf(tp))
  <2>1. IsFiniteSet(1 .. RingLen)
    BY <1>1, FS_Interval
  <2> QED  BY <1>2, <2>1, FS_Subset
<1>4. \A i \in SlotsOf(tp) : Copied[i].lat \in Int
  BY <1>2, CopiedLatency
<1> QED  BY <1>1, <1>2, <1>3, <1>4, FS_CardinalityType DEF Latencies

LEMMA SortedRight ==
  ASSUME TypeOK, NEW tp, NEW order \in Sorted(SlotsOf(tp))
  PROVE  /\ SortedBy(order, SlotsOf(tp), Latencies(tp))
         /\ Len(order) = Cardinality(SlotsOf(tp))
         /\ \A p \in 1 .. Len(order) : order[p] \in SlotsOf(tp)
<1> DEFINE S == SlotsOf(tp)
<1>1. order \in SetToSeqs(S) /\ Ascending(order)
  BY DEF Sorted
<1>2. IsFiniteSet(S)
  BY SlotsType
<1> HIDE DEF S
<1>3. /\ IsOrder(order, S) /\ DOMAIN order = 1 .. Cardinality(S)
      /\ Len(order) = Cardinality(S)
  BY <1>1, <1>2, OrderType
<1>4. \A p \in 1 .. Cardinality(S) : order[p] \in S
  BY <1>3 DEF IsOrder
<1>5. \A i, j \in 1 .. Cardinality(S) : i < j => Copied[order[i]].lat <= Copied[order[j]].lat
  BY <1>1, <1>3 DEF Ascending
<1>6. \A p \in 1 .. Cardinality(S) : Latencies(tp)[order[p]] = Copied[order[p]].lat
  BY <1>4 DEF Latencies, S
<1>7. SortedBy(order, S, Latencies(tp))
  BY <1>3, <1>5, <1>6 DEF SortedBy
<1> QED  BY <1>3, <1>4, <1>7 DEF S

LEMMA SortedExists ==
  ASSUME TypeOK, NEW tp PROVE (CHOOSE order \in Sorted(SlotsOf(tp)) : TRUE) \in Sorted(SlotsOf(tp))
<1> DEFINE S == SlotsOf(tp)
           val == Latencies(tp)
<1>1. IsFiniteSet(S) /\ S \subseteq Int /\ val \in [S -> Int]
  BY SlotsType
<1>2. PICK order \in SetToSeqs(S) : \A i, j \in DOMAIN order : i < j => val[order[i]] <= val[order[j]]
  <2> HIDE DEF S, val
  <2> QED  BY <1>1, CanBeSorted
<1>3. \A i \in DOMAIN order : order[i] \in S
  BY DEF SetToSeqs
<1>4. \A i \in DOMAIN order : val[order[i]] = Copied[order[i]].lat
  BY <1>3 DEF Latencies
<1>5. Ascending(order)
  <2> HIDE DEF val
  <2> QED  BY <1>2, <1>4 DEF Ascending
<1>6. order \in Sorted(S)
  BY <1>5 DEF Sorted
<1> HIDE DEF S
<1> QED  BY <1>6 DEF S

(* No slot of a type is more than was counted, but for the last.  Each has *)
(* its type from a measurement of its own.                                 *)
LEMMA CountRight ==
  ASSUME IInv, copy.at = RingLen + 1, NEW tp \in Types
  PROVE  Cardinality(SlotsOf(tp)) <= totalReqs[tp] + 1
<1> DEFINE n == Len(log)
           S == SlotsOf(tp)
           K == OfType(tp, n)
           f == [i \in S |-> copy.slots[i]["tp"]]
<1>0. TypeOK /\ Storing /\ CopyRecent /\ CountsRight /\ RingLen \in Nat \ {0}
  BY CapAssumption DEF IInv
<1>1. n \in Nat /\ Done \in 0 .. n /\ (n = Done \/ n = Done + 1)
  BY <1>0, StoredType
<1>2. \A i \in S : f[i] \in 1 .. n /\ log[f[i]].tp = tp /\ Belongs(f[i], i) /\ i \in 1 .. RingLen
  <2> TAKE i \in S
  <2> DEFINE k == copy.slots[i]["tp"]
  <2>1. i \in 1 .. RingLen /\ i < copy.at /\ Copied[i].tp = tp
    BY <1>0 DEF SlotsOf
  <2>2. k \in 0 .. n
    <3>1. "tp" \in Fields
      BY DEF Fields
    <3> QED  BY <1>0, <2>1, <3>1, SlotType
  <2>3. Copied[i].tp = (IF k = 0 THEN Nothing["tp"] ELSE log[k]["tp"])
    BY <2>1 DEF Copied, Entry, Fields
  <2>4. k # 0
    BY <2>1, <2>3, TypesAssumption
  <2>5. Belongs(k, i)
    BY <1>0, <2>1, <2>4 DEF CopyRecent, Fields
  <2> QED  BY <1>1, <2>1, <2>2, <2>3, <2>4, <2>5
<1>3. \A i, j \in S : f[i] = f[j] => i = j
  <2> SUFFICES ASSUME NEW i \in S, NEW j \in S, f[i] = f[j] PROVE i = j
    OBVIOUS
  <2> HIDE DEF f
  <2> QED  BY <1>2, BelongsOnce
<1>4. f \in [S -> K]
  BY <1>2 DEF OfType
<1>5. f \in Injection(S, K)
  <2> HIDE DEF f, S, K
  <2> QED  BY <1>3, <1>4 DEF Injection, IsInjective
<1>6. Cardinality(S) <= Cardinality(K)
  <2>1. IsFiniteSet(K)
    BY <1>1, OfTypeType
  <2> HIDE DEF f, S, K
  <2> QED  BY <1>5, <2>1, FS_Injection
<1>7. Cardinality(K) <= totalReqs[tp] + 1
  <2>1. totalReqs[tp] = Cardinality(OfType(tp, Done)) /\ totalReqs[tp] \in Nat
    BY <1>0 DEF CountsRight, TypeOK
  <2>2. CASE n = Done
    BY <2>1, <2>2
  <2>3. CASE n = Done + 1
    <3>1. PICK m \in Nat : m = Done
      BY <1>1
    <3>2. Cardinality(OfType(tp, m + 1)) = Cardinality(OfType(tp, m)) + (IF log[m + 1].tp = tp THEN 1 ELSE 0)
      BY OfTypeNext
    <3> QED  BY <2>1, <2>3, <3>1, <3>2
  <2> QED  BY <1>1, <2>2, <2>3
<1>8. Cardinality(S) \in Nat /\ Cardinality(K) \in Nat /\ totalReqs[tp] \in Nat
  BY <1>0, <1>1, SlotsType, OfTypeType DEF TypeOK
<1> HIDE DEF S, K, f
<1>9. Cardinality(S) <= totalReqs[tp] + 1
  BY <1>6, <1>7, <1>8
<1> QED  BY <1>9 DEF S

LEMMA PublishedRight ==
  ASSUME TypeOK, NEW tp, NEW f \in Percentiles, NEW lats \in Sorted(SlotsOf(tp)), Len(lats) > 1
  PROVE  LET v == SortedPercentile(lats, f) IN
           /\ f[1] < f[2] =>
                Cardinality({i \in SlotsOf(tp) : Copied[i].lat <= v}) * f[2] > f[1] * Len(lats)
           /\ Cardinality({i \in SlotsOf(tp) : Copied[i].lat < v}) * f[2] <= f[1] * Len(lats)
<1> DEFINE S == SlotsOf(tp)
           val == Latencies(tp)
           v == SortedPercentile(lats, f)
           n == Len(lats)
<1>1. /\ IsFiniteSet(S) /\ val \in [S -> Int] /\ SortedBy(lats, S, val)
      /\ n = Cardinality(S) /\ n \in Nat /\ \A p \in 1 .. n : lats[p] \in S
  BY SlotsType, SortedRight
<1>2. IsFraction(f)
  BY FractionAssumption
<1>3. Part(f, n) \in 0 .. n
  BY <1>1, <1>2, PartBound
<1>4. v = val[IF Part(f, n) < n THEN lats[Part(f, n) + 1] ELSE lats[1]]
  <2>1. \A p \in 1 .. n : val[lats[p]] = Copied[lats[p]].lat
    BY <1>1 DEF Latencies
  <2>2. 1 \in 1 .. n /\ (Part(f, n) < n => Part(f, n) + 1 \in 1 .. n)
    BY <1>1, <1>3
  <2>3. v = Copied[IF Part(f, n) < n THEN lats[Part(f, n) + 1] ELSE lats[1]].lat
    BY DEF SortedPercentile
  <2> HIDE DEF v, val, n
  <2> QED  BY <2>1, <2>2, <2>3
<1>5. \A w : /\ {i \in S : Copied[i].lat <= w} = UpTo(S, val, w)
             /\ {i \in S : Copied[i].lat < w} = Below(S, val, w)
  BY DEF Latencies, UpTo, Below
<1>6. /\ f[1] < f[2] => Cardinality(UpTo(S, val, v)) * f[2] > f[1] * n
      /\ Cardinality(Below(S, val, v)) * f[2] <= f[1] * n
  <2>1. n > 1
    OBVIOUS
  <2> HIDE DEF S, val, v, n
  <2> QED  BY <1>1, <1>2, <1>4, <2>1, PercentileRight
<1> HIDE DEF S, val, v, n
<1>7. /\ f[1] < f[2] => Cardinality({i \in S : Copied[i].lat <= v}) * f[2] > f[1] * n
      /\ Cardinality({i \in S : Copied[i].lat < v}) * f[2] <= f[1] * n
  BY <1>5, <1>6
<1> QED  BY <1>7 DEF S, v, n

LEMMA CriticalRight ==
  ASSUME TypeOK, NEW lt \in Sorted(SlotsOf("req")), NEW tp,
         Cardinality(SlotsOf("req")) > 1, CritRange[2][1] = CritRange[2][2]
  PROVE  LET n == Cardinality(SlotsOf("req"))
             top == n - Part(CritRange[1], n)
             count == CountCritPath(lt, CritRange, tp)
         IN  /\ count >= Cardinality({i \in SlotsOf("req") : Copied[i].cp = tp /\ Cardinality(AsSlow(i)) <= top})
             /\ count <= Cardinality({i \in SlotsOf("req") : Copied[i].cp = tp /\ Cardinality(Slower(i)) < top})
<1> DEFINE S == SlotsOf("req")
           val == Latencies("req")
           n == Cardinality(S)
           a == Part(CritRange[1], n)
           T == {i \in S : Copied[i].cp = tp}
           J == FromPlace(lt, a, n, T)
<1>1. /\ IsFiniteSet(S) /\ val \in [S -> Int] /\ SortedBy(lt, S, val)
      /\ Len(lt) = n /\ n \in Nat /\ \A p \in 1 .. n : lt[p] \in S
  BY SlotsType, SortedRight
<1>2. IsFraction(CritRange[1]) /\ IsFraction(CritRange[2])
  BY FractionAssumption
<1>3. a \in 0 .. n
  BY <1>1, <1>2, PartBound
<1>4. Part(CritRange[2], n) = n
  <2>1. PICK d \in Nat \ {0} : CritRange[2][1] = d /\ CritRange[2][2] = d
    BY <1>2 DEF IsFraction
  <2>2. n % d \in Nat /\ (d * n) \div d \in 0 .. n
    <3>1. d * n \in Nat /\ d * n <= d * n
      BY <1>1
    <3>2. (d * n) \div d \in 0 .. n
      BY <1>1, <2>1, <3>1, DivBound
    <3> QED  BY <1>1, <2>1, <3>2
  <2>3. Part(CritRange[2], n) * d <= d * n /\ d * n < (Part(CritRange[2], n) + 1) * d /\ Part(CritRange[2], n) \in 0 .. n
    BY <1>1, <1>2, <2>1, PartRight
  <2>4. PICK q \in 0 .. n : q = Part(CritRange[2], n)
    BY <2>3
  <2>5. d * n < (q + 1) * d
    BY <2>3, <2>4
  <2>6. ASSUME q + 1 <= n PROVE FALSE
    <3>1. (q + 1) * d <= n * d
      <4>1. q + 1 \in Nat /\ n \in Nat \ {0} /\ d \in Nat
        BY <1>1, <2>4, <2>6
      <4> HIDE DEF n
      <4> QED  BY <2>6, <4>1, ProductBound
    <3>2. PICK x \in Nat, y \in Nat : x = (q + 1) * d /\ y = d * n /\ y = n * d
      BY <1>1, <2>4
    <3> QED  BY <2>5, <3>1, <3>2
  <2> QED  BY <1>1, <2>4, <2>6
<1>5. CountCritPath(lt, CritRange, tp) = Cardinality(J)
  <2>1. \A j \in a .. n - 1 : lt[j + 1] \in S
    BY <1>1, <1>3
  <2>2. J = {j \in a .. n - 1 : Copied[lt[j + 1]].cp = tp}
    BY <2>1 DEF FromPlace
  <2>3. CountCritPath(lt, CritRange, tp) =
          Cardinality({j \in Part(CritRange[1], n) .. Part(CritRange[2], n) - 1 : Copied[lt[j + 1]].cp = tp})
    BY <1>1 DEF CountCritPath
  <2> QED  BY <1>4, <2>2, <2>3
<1>6. \A i \in S : AsSlow(i) = AsSlowAs(S, val, i) /\ Slower(i) = SlowerThan(S, val, i)
  BY DEF AsSlow, Slower, AsSlowAs, SlowerThan, Latencies
<1>7. /\ {i \in S : Copied[i].cp = tp /\ Cardinality(AsSlow(i)) <= n - a} = SlowestOf(T, S, val, n - a)
      /\ {i \in S : Copied[i].cp = tp /\ Cardinality(Slower(i)) < n - a} = SlowOf(T, S, val, n - a)
  <2> HIDE DEF S, val, n, a
  <2> QED  BY <1>6 DEF SlowestOf, SlowOf
<1>8. /\ Cardinality(J) >= Cardinality(SlowestOf(T, S, val, n - a))
      /\ Cardinality(J) <= Cardinality(SlowOf(T, S, val, n - a))
  <2>1. T \in SUBSET S /\ n = Cardinality(S)
    OBVIOUS
  <2> HIDE DEF S, val, a, T, n
  <2> QED  BY <1>1, <1>3, <2>1, SlowestRight
<1> HIDE DEF J, T
<1> QED  BY <1>5, <1>7, <1>8

LEMMA AllStatsRight == IInv => StatsRight
<1> SUFFICES ASSUME IInv, copy.at = RingLen + 1, NEW lt \in Sorted(SlotsOf("req")), NEW tp \in DOMAIN Stats(lt)
    PROVE
      LET s == Stats(lt)[tp]
          n == Cardinality(SlotsOf("req"))
          top == n - Part(CritRange[1], n)
      IN
        /\ tp \in Types => s.count <= s.totalreqs + 1
        /\ s.count > 1 => \A f \in Percentiles : LET v == s.percentile[f] IN
             /\ f[1] < f[2] => Cardinality({i \in SlotsOf(tp) : Copied[i].lat <= v}) * f[2] > f[1] * s.count
             /\ Cardinality({i \in SlotsOf(tp) : Copied[i].lat < v}) * f[2] <= f[1] * s.count
        /\ n > 1 /\ CritRange[2][1] = CritRange[2][2] =>
             /\ s.crit_count >= Cardinality({i \in SlotsOf("req") : Copied[i].cp = tp /\ Cardinality(AsSlow(i)) <= top})
             /\ s.crit_count <= Cardinality({i \in SlotsOf("req") : Copied[i].cp = tp /\ Cardinality(Slower(i)) < top})
  BY DEF StatsRight
<1>1. TypeOK
  BY DEF IInv
<1> DEFINE s == Stats(lt)[tp]
           lats == CHOOSE order \in Sorted(SlotsOf(tp)) : TRUE
<1>2. lats \in Sorted(SlotsOf(tp))
  BY <1>1, SortedExists
<1>3. /\ s.count = Len(lats)
      /\ s.percentile = [f \in Percentiles |-> SortedPercentile(lats, f)]
      /\ s.crit_count = CountCritPath(lt, CritRange, tp)
      /\ tp \in Types => s.totalreqs = totalReqs[tp]
  BY DEF Stats
<1> HIDE DEF s, lats
<1>4. tp \in Types => s.count <= s.totalreqs + 1
  BY <1>1, <1>2, <1>3, CountRight, SortedRight
<1>5. ASSUME s.count > 1, NEW f \in Percentiles
      PROVE  LET v == s.percentile[f] IN
               /\ f[1] < f[2] => Cardinality({i \in SlotsOf(tp) : Copied[i].lat <= v}) * f[2] > f[1] * s.count
               /\ Cardinality({i \in SlotsOf(tp) : Copied[i].lat < v}) * f[2] <= f[1] * s.count
  <2>1. s.percentile[f] = SortedPercentile(lats, f) /\ s.count = Len(lats)
    BY <1>3
  <2>2. Len(lats) > 1
    BY <1>5, <2>1
  <2> QED  BY <1>1, <1>2, <2>1, <2>2, PublishedRight
<1>6. ASSUME Cardinality(SlotsOf("req")) > 1, CritRange[2][1] = CritRange[2][2]
      PROVE  LET n == Cardinality(SlotsOf("req"))
                 top == n - Part(CritRange[1], n)
             IN
               /\ s.crit_count >= Cardinality({i \in SlotsOf("req") : Copied[i].cp = tp /\ Cardinality(AsSlow(i)) <= top})
               /\ s.crit_count <= Cardinality({i \in SlotsOf("req") : Copied[i].cp = tp /\ Cardinality(Slower(i)) < top})
  BY <1>1, <1>3, <1>6, CriticalRight
<1> QED  BY <1>4, <1>5, <1>6 DEF s

(* However the sort orders equal latencies and whatever was written while  *)
(* the ring was copied: what RecomputeStats publishes is right for its     *)
(* copy, and no type is counted more than once beyond its total.           *)
THEOREM StatsAreRight == Safety => []StatsRight
BY AllStatsRight, Invariant, PTL
=============================================================================

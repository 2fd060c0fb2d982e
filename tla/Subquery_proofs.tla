-------------------------- MODULE Subquery_proofs --------------------------
(***************************************************************************)
(* Proofs about Subquery, for any number of subqueries, flushers, keys and *)
(* slots: type correctness, that every key is asked for once, the balance  *)
(* of the two semaphores, the number the sanity check relies on, and the   *)
(* honesty of the reported status.                                         *)
(***************************************************************************)
EXTENDS Subquery, FiniteSetTheorems, FunctionTheorems, TLAPS

(* A worker that has not come to know any size. *)
Early == {"new", "getWait", "getting"}

(* What the variables of one worker have to do with each other. *)
Job(w) ==
  /\ Known(realSize[w]) \subseteq want[w]
  /\ Known(todo[w]) \subseteq backQueries[w]
  /\ backQueries[w] \subseteq want[w]
  /\ Known(realSize[w]) \cap Known(todo[w]) = {}
  /\ pc[w] \in Early => Known(realSize[w]) = {} /\ fulfilled[w] = 0 /\ hits[w] = {}
  /\ pc[w] \in Early \cup {"backWait", "backend"} => Known(todo[w]) = {}
  /\ pc[w] \in {"backWait", "backend"} => Known(realSize[w]) \cap backQueries[w] = {}
  /\ pc[w] \notin Early /\ ~hasError[w] =>
       hits[w] \subseteq want[w] /\ backQueries[w] = want[w] \ hits[w]
  /\ report[w] # NoReport => pc[w] = "done"
  /\ IsFiniteSet(asked[w]) /\ Cardinality(asked[w]) <= owed[w]

Jobs == \A w \in Workers : Job(w)

IInv == TypeOK /\ SemaBalance /\ Jobs /\ FulfilledCounts /\ HonestStatus
-----------------------------------------------------------------------------
LEMMA KeysFinite == IsFiniteSet(Keys) /\ IsFiniteSet(SUBSET SUBSET Keys)
<1>1. Lower \in Surjection(Urls, Keys)
  BY UrlsAssumption DEF Keys, Surjection
<1>2. IsFiniteSet(Keys)
  BY <1>1, UrlsAssumption, FS_Surjection
<1> QED  BY <1>2, FS_SUBSET

(* So many calls of size keys, and less than one more, are n keys. *)
LEMMA CallsOfKeys ==
  ASSUME NEW n \in Nat, NEW size \in Nat \ {0}
  PROVE  /\ Calls(n, size) \in Nat \ {0}
         /\ n >= size => Calls(n, size) * size <= n
         /\ n < size => Calls(n, size) = 1
         /\ (Calls(n, size) - 1) * size <= n
         /\ n < (Calls(n, size) - 1) * size + 2 * size
<1>1. size \in Nat \ {0}
  OBVIOUS
<1>2. CASE n < size
  BY <1>1, <1>2 DEF Calls
<1>3. CASE n >= size
  <2> DEFINE q == n \div size
  <2>1. q \in Int /\ n % size \in 0 .. size - 1 /\ n = size * q + (n % size)
    BY <1>1
  <2>2. Calls(n, size) = q
    BY <1>1, <1>3 DEF Calls
  <2> HIDE DEF q
  <2>3. PICK rest \in 0 .. size - 1 : n = size * q + rest
    BY <2>1
  <2>4. q >= 1
    BY <1>1, <1>3, <2>1, <2>3
  <2>5. (q - 1) * size = size * q - size /\ q * size = size * q
    BY <1>1, <2>1
  <2>6. size * q \in Int
    BY <1>1, <2>1
  <2> HIDE DEF Calls
  <2> QED  BY <1>1, <1>3, <2>1, <2>2, <2>3, <2>4, <2>5, <2>6
<1> QED  BY <1>1, <1>2, <1>3

(* The size of an interval. *)
LEMMA IntervalSize ==
  ASSUME NEW a \in Int, NEW b \in Int
  PROVE  /\ IsFiniteSet(a .. b)
         /\ Cardinality(a .. b) = IF a > b THEN 0 ELSE b - a + 1
  BY FS_Interval

(* Where the calls begin. *)
LEMMA Steps ==
  ASSUME NEW i \in Nat, NEW k \in Nat, NEW size \in Nat \ {0}
  PROVE  /\ i * size \in Nat /\ (i + 1) * size = i * size + size
         /\ i <= k => i * size <= k * size
<1>1. size \in Nat
  OBVIOUS
<1>2. i * size \in Nat /\ (i + 1) * size = i * size + size
  BY <1>1
<1>3. ASSUME i <= k PROVE i * size <= k * size
  <2>1. k * size = i * size + (k - i) * size /\ k - i \in Nat
    BY <1>1, <1>3
  <2>2. (k - i) * size \in Nat /\ k * size \in Nat
    BY <1>1, <2>1
  <2> QED  BY <1>2, <2>1, <2>2
<1> QED  BY <1>2, <1>3

(* The slice of a call is an interval of the keys' places, not too long,   *)
(* and not empty if there are keys.                                        *)
LEMMA SliceOfCall ==
  ASSUME NEW n \in Nat, NEW size \in Nat \ {0}, NEW i \in 0 .. Calls(n, size) - 1
  PROVE  /\ Slice(n, i, size) \in SUBSET (1 .. n)
         /\ IsFiniteSet(Slice(n, i, size)) /\ Cardinality(Slice(n, i, size)) < 2 * size
         /\ n > 0 => Slice(n, i, size) # {}
         /\ \A j \in Slice(n, i, size) : i * size < j
         /\ i # Calls(n, size) - 1 => \A j \in Slice(n, i, size) : j <= (i + 1) * size
<1> DEFINE calls == Calls(n, size)
           first == i * size + 1
           last  == IF i = calls - 1 THEN n ELSE (i + 1) * size
<1>1. /\ size \in Nat \ {0} /\ calls \in Nat \ {0} /\ i \in Nat
      /\ n >= size => calls * size <= n
      /\ n < size => calls = 1
      /\ (calls - 1) * size <= n
      /\ n < (calls - 1) * size + 2 * size
  BY CallsOfKeys
<1>2. Slice(n, i, size) = first .. last
  BY DEF Slice
<1> HIDE DEF calls
<1>3. i * size \in Nat /\ (i + 1) * size = i * size + size
  BY <1>1, Steps
<1>4. CASE i = calls - 1
  <2>1. calls * size = i * size + size
    BY <1>1, <1>3, <1>4
  <2>2. i = 0 => i * size = 0
    BY <1>1
  <2>3. last = n /\ i * size <= n /\ n < i * size + 2 * size
    BY <1>1, <1>4
  <2>4. n > 0 => first <= n
    BY <1>1, <1>3, <1>4, <2>1, <2>2
  <2> HIDE DEF last
  <2>5. first \in Nat /\ last \in Nat
    BY <1>3, <2>3
  <2>6. Slice(n, i, size) \in SUBSET (1 .. n) /\ (n > 0 => Slice(n, i, size) # {})
    <3>1. first >= 1 /\ first \in Nat /\ last = n
      BY <1>3, <2>3
    <3> HIDE DEF first
    <3> QED  BY <1>2, <2>4, <3>1
  <2>7. IsFiniteSet(Slice(n, i, size)) /\ Cardinality(Slice(n, i, size)) < 2 * size
    <3>1. IsFiniteSet(first .. last)
          /\ Cardinality(first .. last) = IF first > last THEN 0 ELSE last - first + 1
      <4> HIDE DEF first
      <4>1. first \in Int /\ last \in Int
        BY <2>5
      <4> QED  BY <4>1, IntervalSize
    <3> QED  BY <1>1, <1>2, <1>3, <2>3, <2>5, <3>1
  <2> QED  BY <1>2, <1>3, <1>4, <2>5, <2>6, <2>7 DEF calls
<1>5. CASE i # calls - 1
  <2>1. i + 1 \in Nat /\ calls - 1 \in Nat /\ i + 1 <= calls - 1
    BY <1>1, <1>5 DEF calls
  <2>2. (i + 1) * size <= (calls - 1) * size /\ (calls - 1) * size \in Nat
    BY <2>1, Steps
  <2>3. last = i * size + size /\ last <= n
    BY <1>1, <1>3, <1>5, <2>2
  <2> HIDE DEF last
  <2>4. first \in Nat /\ last \in Nat /\ first <= last
    BY <1>1, <1>3, <2>3
  <2>5. Slice(n, i, size) \in SUBSET (1 .. n) /\ Slice(n, i, size) # {}
    <3>1. first >= 1 /\ last <= n
      BY <1>3, <2>3
    <3> HIDE DEF first
    <3>2. first .. last \in SUBSET (1 .. n)
      BY <2>4, <3>1
    <3>3. first \in first .. last
      BY <2>4
    <3> QED  BY <1>2, <3>2, <3>3
  <2>6. IsFiniteSet(Slice(n, i, size)) /\ Cardinality(Slice(n, i, size)) < 2 * size
    <3>1. IsFiniteSet(first .. last)
          /\ Cardinality(first .. last) = IF first > last THEN 0 ELSE last - first + 1
      <4> HIDE DEF first
      <4>1. first \in Int /\ last \in Int
        BY <2>4
      <4> QED  BY <4>1, IntervalSize
    <3> QED  BY <1>1, <1>2, <1>3, <2>3, <2>4, <3>1
  <2> QED  BY <1>2, <1>3, <2>3, <2>4, <2>5, <2>6
<1> QED  BY <1>4, <1>5

(* Every place is in the slice of exactly one call. *)
LEMMA SlicesCover ==
  ASSUME NEW n \in Nat, NEW size \in Nat \ {0}, NEW j \in 1 .. n
  PROVE  \E i \in 0 .. Calls(n, size) - 1 : j \in Slice(n, i, size)
<1>1. size \in Nat \ {0} /\ Calls(n, size) \in Nat \ {0} /\ j - 1 \in Nat
  BY CallsOfKeys
<1> DEFINE q == (j - 1) \div size
<1>2. q \in Int /\ (j - 1) % size \in 0 .. size - 1
      /\ j - 1 = size * q + ((j - 1) % size)
  BY <1>1
<1> HIDE DEF q
<1>3. PICK rest \in 0 .. size - 1 : j - 1 = size * q + rest
  BY <1>2
<1>4. q \in Nat /\ q * size = size * q
  BY <1>1, <1>2, <1>3
<1>5. q * size \in Nat /\ (q + 1) * size = q * size + size
  BY <1>4, Steps
<1>6. q * size + 1 <= j /\ j <= (q + 1) * size
  BY <1>1, <1>3, <1>4, <1>5
<1>7. CASE q < Calls(n, size) - 1
  BY <1>1, <1>4, <1>5, <1>6, <1>7 DEF Slice
<1>8. CASE q >= Calls(n, size) - 1
  <2>1. Calls(n, size) - 1 \in Nat
    BY <1>1
  <2>2. (Calls(n, size) - 1) * size <= q * size /\ (Calls(n, size) - 1) * size \in Nat
    BY <1>4, <1>8, <2>1, Steps
  <2>3. j \in Slice(n, Calls(n, size) - 1, size)
    BY <1>5, <1>6, <2>1, <2>2 DEF Slice
  <2> QED  BY <2>1, <2>3
<1> QED  BY <1>1, <1>4, <1>7, <1>8

LEMMA SlicesApart ==
  ASSUME NEW n \in Nat, NEW size \in Nat \ {0}, NEW i \in 0 .. Calls(n, size) - 1, NEW k \in 0 .. Calls(n, size) - 1, i # k
  PROVE  Slice(n, i, size) \cap Slice(n, k, size) = {}
<1>1. Calls(n, size) \in Nat \ {0}
  BY CallsOfKeys
<1>2. ASSUME NEW a \in 0 .. Calls(n, size) - 1, NEW b \in 0 .. Calls(n, size) - 1, a < b,
             NEW j \in Slice(n, a, size), j \in Slice(n, b, size)
      PROVE  FALSE
  <2>1. a # Calls(n, size) - 1 /\ a + 1 \in Nat /\ b \in Nat /\ a + 1 <= b
    BY <1>1, <1>2
  <2>2. j <= (a + 1) * size /\ b * size < j /\ j \in Int
    BY <1>2, <2>1, SliceOfCall
  <2>3. (a + 1) * size <= b * size /\ (a + 1) * size \in Nat /\ b * size \in Nat
    BY <2>1, Steps
  <2> QED  BY <2>2, <2>3
<1>3. i < k \/ k < i
  BY <1>1
<1> QED  BY <1>2, <1>3

LEMMA CutsAllWell ==
  ASSUME NEW n \in Nat, NEW size \in Nat \ {0}
  PROVE  CutsWell(n, size)
<1>1. \A i \in 0 .. Calls(n, size) - 1 :
        /\ Slice(n, i, size) \in SUBSET (1 .. n)
        /\ Cardinality(Slice(n, i, size)) < 2 * size
  BY SliceOfCall
<1>2. \A j \in 1 .. n : \E i \in 0 .. Calls(n, size) - 1 : j \in Slice(n, i, size)
  BY SlicesCover
<1>3. \A i, k \in 0 .. Calls(n, size) - 1 : i # k => Slice(n, i, size) \cap Slice(n, k, size) = {}
  BY SlicesApart
<1> HIDE DEF Slice, Calls
<1>4. UNION {Slice(n, i, size) : i \in 0 .. Calls(n, size) - 1} = 1 .. n
  BY <1>1, <1>2
<1> QED  BY <1>1, <1>3, <1>4 DEF CutsWell

(* What the calls ask for. *)
LEMMA ChunksOfKeys ==
  ASSUME NEW ks \in SUBSET Keys, NEW P \in Chunkings(ks)
  PROVE  /\ P \in SUBSET SUBSET Keys /\ IsFiniteSet(P)
         /\ Calls(Cardinality(ks), ChunkSize) \in Nat /\ Cardinality(P) = Calls(Cardinality(ks), ChunkSize)
         /\ UNION P = ks
         /\ \A c, d \in P : c # d => c \cap d = {}
<1> DEFINE n == Cardinality(ks)
           calls == Calls(n, ChunkSize)
<1>1. IsFiniteSet(ks) /\ n \in Nat
  BY KeysFinite, FS_Subset, FS_CardinalityType
<1>2. calls \in Nat \ {0}
  BY <1>1, CallsOfKeys, ChunkAssumption
<1>3. PICK order \in Bijection(1 .. n, ks) :
        P = {{order[j] : j \in Slice(n, i, ChunkSize)} : i \in 0 .. calls - 1}
  BY DEF Chunkings
<1> HIDE DEF n, calls
<1>4. /\ order \in [1 .. n -> ks]
      /\ \A a, b \in 1 .. n : order[a] = order[b] => a = b
      /\ \A k \in ks : \E a \in 1 .. n : order[a] = k
  <2> HIDE DEF n
  <2>1. order \in Bijection(1 .. n, ks)
    BY <1>3
  <2>2. /\ order \in [1 .. n -> ks] /\ IsInjective(order)
        /\ \A k \in ks : \E a \in 1 .. n : order[a] = k
    BY <2>1 DEF Bijection, Injection, Surjection
  <2> QED  BY <2>2 DEF IsInjective
<1> DEFINE Chunk(i) == {order[j] : j \in Slice(n, i, ChunkSize)}
<1>5. ASSUME NEW i \in 0 .. calls - 1
      PROVE  /\ Slice(n, i, ChunkSize) \in SUBSET (1 .. n) /\ Chunk(i) \in SUBSET ks
             /\ n > 0 => Slice(n, i, ChunkSize) # {} /\ Chunk(i) # {}
  <2>1. Slice(n, i, ChunkSize) \in SUBSET (1 .. n) /\ (n > 0 => Slice(n, i, ChunkSize) # {})
    BY <1>1, SliceOfCall, ChunkAssumption DEF n, calls
  <2> QED  BY <1>4, <2>1
<1>6. ASSUME NEW i \in 0 .. calls - 1, NEW k \in 0 .. calls - 1, i # k
      PROVE  Chunk(i) \cap Chunk(k) = {}
  <2>1. Slice(n, i, ChunkSize) \cap Slice(n, k, ChunkSize) = {}
    BY <1>1, <1>6, SlicesApart, ChunkAssumption DEF n, calls
  <2>2. ASSUME NEW x, x \in Chunk(i), x \in Chunk(k) PROVE FALSE
    <3>1. PICK a \in Slice(n, i, ChunkSize) : x = order[a]
      BY <2>2
    <3>2. PICK b \in Slice(n, k, ChunkSize) : x = order[b]
      BY <2>2
    <3>3. a \in 1 .. n /\ b \in 1 .. n /\ order[a] = order[b]
      BY <1>5, <3>1, <3>2
    <3>4. a = b
      BY <1>4, <3>3
    <3> QED  BY <2>1, <3>1, <3>2, <3>4
  <2> HIDE DEF Chunk
  <2> QED  BY <2>2
<1>7. P = {Chunk(i) : i \in 0 .. calls - 1}
  BY <1>3
<1>8. UNION P = ks
  <2>1. ASSUME NEW k \in ks PROVE \E i \in 0 .. calls - 1 : k \in Chunk(i)
    <3>1. PICK a \in 1 .. n : order[a] = k
      BY <1>4
    <3>2. PICK i \in 0 .. calls - 1 : a \in Slice(n, i, ChunkSize)
      BY <1>1, SlicesCover, ChunkAssumption DEF n, calls
    <3> QED  BY <3>1, <3>2
  <2> HIDE DEF Chunk
  <2> QED  BY <1>5, <1>7, <2>1
<1>9. IsFiniteSet(P) /\ Cardinality(P) = calls
  <2> DEFINE chunk == [i \in 0 .. calls - 1 |-> Chunk(i)]
  <2>1. chunk \in Surjection(0 .. calls - 1, P)
    BY <1>7 DEF Surjection
  <2>2. IsFiniteSet(0 .. calls - 1) /\ Cardinality(0 .. calls - 1) = calls
    <3>1. 0 \in Int /\ calls - 1 \in Int /\ ~(0 > calls - 1)
      BY <1>2
    <3> QED  BY <1>2, <3>1, FS_Interval
  <2>3. chunk \in Injection(0 .. calls - 1, P)
    <3>1. ASSUME NEW i \in 0 .. calls - 1, NEW k \in 0 .. calls - 1, i # k
          PROVE  Chunk(i) # Chunk(k)
      <4>1. CASE n > 0
        BY <1>5, <1>6, <3>1, <4>1
      <4>2. CASE n = 0
        <5>1. calls = 1
          BY <4>2, CallsOfKeys, ChunkAssumption DEF calls
        <5>2. i = 0 /\ k = 0
          BY <5>1
        <5> QED  BY <3>1, <5>2
      <4>3. n > 0 \/ n = 0
        BY <1>1
      <4> HIDE DEF Chunk
      <4> QED  BY <4>1, <4>2, <4>3
    <3>2. chunk \in [0 .. calls - 1 -> P] /\ \A i \in 0 .. calls - 1 : chunk[i] = Chunk(i)
      BY <1>7
    <3> HIDE DEF chunk, Chunk
    <3>3. \A a, b \in 0 .. calls - 1 : chunk[a] = chunk[b] => a = b
      BY <3>1, <3>2
    <3> QED  BY <3>2, <3>3, Fun_IsInj
  <2> QED  BY <2>1, <2>2, <2>3, FS_Surjection
<1>10. \A c, d \in P : c # d => c \cap d = {}
  <2> HIDE DEF Chunk
  <2> QED  BY <1>6, <1>7
<1>11. P \in SUBSET SUBSET Keys
  <2> HIDE DEF Chunk
  <2> QED  BY <1>5, <1>7
<1> QED  BY <1>2, <1>8, <1>9, <1>10, <1>11 DEF n, calls

LEMMA InitIInv == Init => IInv
<1> SUFFICES ASSUME Init PROVE IInv
  OBVIOUS
<1> USE DEF Init
<1>1. TypeOK
  BY SlotsAssumption DEF TypeOK, Sizes, Unknown
<1>2. SemaBalance
  <2>1. CacheHolders = {} /\ FlushHolders = {} /\ BackHolders = {}
    BY DEF CacheHolders, FlushHolders, BackHolders
  <2> QED  BY <2>1, FS_EmptySet DEF SemaBalance
<1>3. \A w \in Workers : Known(realSize[w]) = {} /\ Known(todo[w]) = {}
  BY DEF Known
<1>4. ASSUME NEW w \in Workers PROVE Job(w)
  <2>1. /\ pc[w] = "new" /\ want[w] = {} /\ backQueries[w] = {} /\ fulfilled[w] = 0
        /\ asked[w] = {} /\ owed[w] = 0 /\ report[w] = NoReport /\ hits[w] = {}
    OBVIOUS
  <2>2. IsFiniteSet(asked[w]) /\ Cardinality(asked[w]) <= owed[w]
    BY <2>1, FS_EmptySet
  <2> QED  BY <1>3, <2>1, <2>2 DEF Job, Early
<1>5. FulfilledCounts
  BY <1>3, FS_EmptySet DEF FulfilledCounts
<1>6. HonestStatus
  BY DEF HonestStatus
<1> QED  BY <1>1, <1>2, <1>4, <1>5, <1>6 DEF IInv, Jobs

(* The sets that SemaBalance counts are finite. *)
LEMMA HoldersFinite ==
  /\ IsFiniteSet(CacheHolders) /\ Cardinality(CacheHolders) \in Nat
  /\ IsFiniteSet(FlushHolders) /\ Cardinality(FlushHolders) \in Nat
  /\ IsFiniteSet(BackHolders) /\ Cardinality(BackHolders) \in Nat
<1>1. /\ CacheHolders \in SUBSET Workers
      /\ FlushHolders \in SUBSET Flushers
      /\ BackHolders \in SUBSET Workers
  BY DEF CacheHolders, FlushHolders, BackHolders
<1> QED  BY <1>1, WorkersAssumption, FS_Subset, FS_CardinalityType

(* A chunk still counts among those the loop waits for. *)
LEMMA ChunkIsOwed ==
  ASSUME IInv, NEW w \in Workers, NEW c \in asked[w]
  PROVE  /\ owed[w] - 1 \in Nat
         /\ IsFiniteSet(asked[w] \ {c})
         /\ Cardinality(asked[w] \ {c}) <= owed[w] - 1
<1>1. /\ IsFiniteSet(asked[w]) /\ Cardinality(asked[w]) <= owed[w]
      /\ owed[w] \in Nat
  BY DEF IInv, Jobs, Job, TypeOK
<1>2. Cardinality(asked[w]) \in Nat /\ Cardinality(asked[w] \ {c}) \in Nat
  BY <1>1, FS_CardinalityType, FS_RemoveElement
<1>3. Cardinality(asked[w] \ {c}) = Cardinality(asked[w]) - 1
  BY <1>1, FS_RemoveElement
<1> QED  BY <1>1, <1>2, <1>3, FS_RemoveElement

(* A worker that asks the backend holds one of its tokens. *)
LEMMA BackendHolds ==
  ASSUME IInv, NEW w \in Workers, pc[w] = "backend"
  PROVE  backSema - 1 \in 0 .. BackSlots
<1>1. w \in BackHolders /\ IsFiniteSet(BackHolders)
  BY HoldersFinite DEF BackHolders
<1>2. Cardinality(BackHolders) # 0
  BY <1>1, FS_EmptySet
<1>3. backSema = Cardinality(BackHolders) /\ backSema \in 0 .. BackSlots
  BY DEF IInv, SemaBalance, TypeOK
<1> QED  BY <1>2, <1>3, SlotsAssumption

LEMMA TypeStep == IInv /\ [Next]_vars => TypeOK'
<1> SUFFICES ASSUME IInv, [Next]_vars PROVE TypeOK'
  OBVIOUS
<1>0. TypeOK
  BY DEF IInv
<1> USE DEF TypeOK, Goto, Fail, cacheVars, getVars, jobVars
<1> USE SlotsAssumption
<1>a. Unknown \in Sizes /\ Full \in Sizes
  BY DEF Sizes
<1>1. ASSUME NEW w \in Workers, Start(w) PROVE TypeOK'
  <2>1. PICK us \in Requests[w] :
          LET ks == {Lower[u] : u \in us} IN
            /\ want' = [want EXCEPT ![w] = ks]
            /\ backQueries' = [backQueries EXCEPT ![w] = IF bypass THEN ks ELSE {}]
            /\ Goto(w, IF ~bypass THEN "getWait" ELSE IF ks # {} THEN "backWait" ELSE "report")
    BY <1>1 DEF Start
  <2>2. {Lower[u] : u \in us} \in SUBSET Keys
    BY RequestsAssumption DEF Keys
  <2> QED  BY <1>0, <1>1, <2>1, <2>2 DEF Start
<1>2. ASSUME NEW w \in Workers, GetAcquire(w) PROVE TypeOK'
  <2>1. PICK P \in Chunkings(want[w]) :
          /\ asked' = [asked EXCEPT ![w] = P]
          /\ owed' = [owed EXCEPT ![w] = Calls(Cardinality(want[w]), ChunkSize)]
    BY <1>2 DEF GetAcquire
  <2>2. want[w] \in SUBSET Keys
    BY <1>0
  <2>3. P \in SUBSET SUBSET Keys /\ Calls(Cardinality(want[w]), ChunkSize) \in Nat
    BY <2>2, ChunksOfKeys
  <2> QED  BY <1>0, <1>2, <2>1, <2>3 DEF GetAcquire
<1>3. ASSUME NEW w \in Workers, GetTimeout(w) PROVE TypeOK'
  BY <1>0, <1>3 DEF GetTimeout
<1>4. ASSUME NEW w \in Workers, GetRelease(w) PROVE TypeOK'
  <2> DEFINE found == {k \in want[w] : itemMap[w][k] = Full}
  <2>1. found \in SUBSET Keys /\ Cardinality(found) \in Nat
    BY <1>0, KeysFinite, FS_Subset, FS_CardinalityType
  <2>2. realSize' \in [Workers -> [Keys -> Sizes]]
    <3> DEFINE g == [k \in Keys |-> IF k \in found THEN Full ELSE realSize[w][k]]
    <3>1. g \in [Keys -> Sizes]
      BY <1>0, <1>a
    <3>2. realSize' = [realSize EXCEPT ![w] = g]
      BY <1>4 DEF GetRelease
    <3> HIDE DEF g
    <3> QED  BY <1>0, <3>1, <3>2
  <2> QED  BY <1>0, <1>4, <2>1, <2>2 DEF GetRelease
<1>5. ASSUME NEW w \in Workers, NEW c \in asked[w], ChunkFound(w, c) PROVE TypeOK'
  <2>1. owed[w] - 1 \in Nat
    BY ChunkIsOwed
  <2>2. itemMap' \in [Workers -> [Keys -> Sizes]]
    <3> DEFINE g == [k \in Keys |-> IF k \in c THEN cache[k] ELSE itemMap[w][k]]
    <3>1. g \in [Keys -> Sizes]
      BY <1>0
    <3>2. itemMap' = [itemMap EXCEPT ![w] = g]
      BY <1>5 DEF ChunkFound
    <3> HIDE DEF g
    <3> QED  BY <1>0, <3>1, <3>2
  <2> QED  BY <1>0, <1>5, <2>1, <2>2 DEF ChunkFound
<1>6. ASSUME NEW w \in Workers, NEW c \in asked[w], ChunkFailed(w, c) PROVE TypeOK'
  BY <1>0, <1>6 DEF ChunkFailed
<1>7. ASSUME NEW w \in Workers, BackAcquire(w) \/ BackTimeout(w) PROVE TypeOK'
  <2>1. CASE BackAcquire(w)
    BY <1>0, <2>1 DEF BackAcquire
  <2>2. CASE BackTimeout(w)
    BY <1>0, <2>2 DEF BackTimeout
  <2> QED  BY <1>7, <2>1, <2>2
<1>8. ASSUME NEW w \in Workers, BackSuccess(w) PROVE TypeOK'
  <2>1. backSema - 1 \in 0 .. BackSlots
    BY <1>8, BackendHolds DEF BackSuccess
  <2>2. todo' \in [Workers -> [Keys -> Sizes]]
    <3>1. PICK vals \in [backQueries[w] -> Sizes] :
            todo' = [todo EXCEPT ![w] =
                       [k \in Keys |-> IF k \in backQueries[w] THEN vals[k] ELSE Unknown]]
      BY <1>8 DEF BackSuccess
    <3>2. [k \in Keys |-> IF k \in backQueries[w] THEN vals[k] ELSE Unknown] \in [Keys -> Sizes]
      BY <1>a
    <3> QED  BY <1>0, <3>1, <3>2
  <2> QED  BY <1>0, <1>8, <2>1, <2>2 DEF BackSuccess
<1>9. ASSUME NEW w \in Workers, BackError(w) PROVE TypeOK'
  <2>1. backSema - 1 \in 0 .. BackSlots
    BY <1>9, BackendHolds DEF BackError
  <2> QED  BY <1>0, <1>9, <2>1 DEF BackError
<1>10. ASSUME NEW w \in Workers, NEW k \in Keys, Record(w, k) PROVE TypeOK'
  <2>1. /\ realSize' \in [Workers -> [Keys -> Sizes]]
        /\ todo' \in [Workers -> [Keys -> Sizes]]
    <3>1. todo[w][k] \in Sizes
      BY <1>0
    <3>2. /\ [realSize[w] EXCEPT ![k] = todo[w][k]] \in [Keys -> Sizes]
          /\ [todo[w] EXCEPT ![k] = Unknown] \in [Keys -> Sizes]
      BY <1>0, <1>a, <3>1
    <3>3. /\ realSize' = [realSize EXCEPT ![w] = [realSize[w] EXCEPT ![k] = todo[w][k]]]
          /\ todo' = [todo EXCEPT ![w] = [todo[w] EXCEPT ![k] = Unknown]]
      BY <1>0, <1>10 DEF Record
    <3> QED  BY <1>0, <3>2, <3>3
  <2>2. pc' \in [Workers -> {"new", "getWait", "getting", "backWait", "backend", "store",
                           "setWait", "setting", "stored", "report", "done"}]
    <3>1. pc' = pc \/ pc' = [pc EXCEPT ![w] = "setWait"]
      BY <1>10 DEF Record, Goto
    <3> QED  BY <1>0, <3>1
  <2>3. setting' \in [Workers -> SUBSET Keys]
    <3>1. {k} \in SUBSET Keys
      OBVIOUS
    <3>2. CASE bypass
      BY <1>0, <1>10, <3>2 DEF Record
    <3>3. CASE ~bypass
      <4>1. setting' = [setting EXCEPT ![w] = {k}]
        BY <1>10, <3>3 DEF Record
      <4> QED  BY <1>0, <3>1, <4>1
    <3> QED  BY <3>2, <3>3
  <2>4. fulfilled' \in [Workers -> Nat]
    BY <1>0, <1>10 DEF Record
  <2>5. /\ bypass' = bypass /\ backSema' = backSema /\ flush' = flush
        /\ cacheSema' = cacheSema /\ cache' = cache /\ stolen' = stolen
        /\ asked' = asked /\ owed' = owed /\ itemMap' = itemMap
        /\ want' = want /\ hits' = hits /\ backQueries' = backQueries
        /\ hasError' = hasError /\ report' = report
    BY <1>10 DEF Record
  <2> QED  BY <1>0, <2>1, <2>2, <2>3, <2>4, <2>5
<1>11. ASSUME NEW w \in Workers, SetAcquire(w) \/ SetTimeout(w) \/ SetFailed(w) PROVE TypeOK'
  <2>1. CASE SetAcquire(w)
    BY <1>0, <2>1 DEF SetAcquire
  <2>2. CASE SetTimeout(w)
    BY <1>0, <2>2 DEF SetTimeout
  <2>3. CASE SetFailed(w)
    BY <1>0, <2>3 DEF SetFailed
  <2> QED  BY <1>11, <2>1, <2>2, <2>3
<1>12. ASSUME NEW w \in Workers, SetDone(w) PROVE TypeOK'
  <2>1. cache' \in [Keys -> Sizes]
    BY <1>0, <1>12 DEF SetDone
  <2> QED  BY <1>0, <1>12, <2>1 DEF SetDone
<1>13. ASSUME NEW w \in Workers, SetRelease(w) PROVE TypeOK'
  BY <1>0, <1>13 DEF SetRelease
<1>14. ASSUME NEW w \in Workers, Report(w) PROVE TypeOK'
  <2>1. Status(w) \in {-1, 0, 1}
    BY DEF Status
  <2> QED  BY <1>0, <1>14, <2>1 DEF Report
<1>15. ASSUME NEW k \in Keys, Evict(k) PROVE TypeOK'
  BY <1>0, <1>15, <1>a DEF Evict
<1>16. ASSUME NEW f \in Flushers, FlushAcquire(f) \/ FlushTimeout(f) PROVE TypeOK'
  <2>1. CASE FlushAcquire(f)
    BY <1>0, <2>1 DEF FlushAcquire
  <2>2. CASE FlushTimeout(f)
    BY <1>0, <2>2 DEF FlushTimeout
  <2> QED  BY <1>16, <2>1, <2>2
<1>17. ASSUME NEW f \in Flushers, FlushAll(f) PROVE TypeOK'
  BY <1>0, <1>17, <1>a DEF FlushAll
<1>18. ASSUME NEW f \in Flushers, FlushRelease(f) PROVE TypeOK'
  BY <1>0, <1>18 DEF FlushRelease
<1>19. CASE UNCHANGED vars
  BY <1>0, <1>19 DEF vars
<1> QED
  BY <1>1, <1>2, <1>3, <1>4, <1>5, <1>6, <1>7, <1>8, <1>9, <1>10, <1>11, <1>12, <1>13,
     <1>14, <1>15, <1>16, <1>17, <1>18, <1>19
     DEF Next, WorkerStep, CacheStep, StoreStep, BackendStep, FlushStep

(* A step that leaves everybody's hold on both semaphores as it is. *)
LEMMA SameHolders ==
  ASSUME IInv, CacheHolders' = CacheHolders, FlushHolders' = FlushHolders,
         BackHolders' = BackHolders, UNCHANGED <<cacheSema, stolen, backSema>>
  PROVE  SemaBalance'
BY DEF IInv, SemaBalance

LEMMA BalanceStep == IInv /\ [Next]_vars => SemaBalance'
<1> SUFFICES ASSUME IInv, [Next]_vars PROVE SemaBalance'
  OBVIOUS
<1>0. TypeOK /\ SemaBalance
  BY DEF IInv
<1>a. \A l : \A w \in Workers : Goto(w, l) =>
        /\ pc'[w] = l
        /\ \A v \in Workers : v # w => pc'[v] = pc[v]
  BY <1>0 DEF Goto, TypeOK
<1>b. /\ IsFiniteSet(CacheHolders) /\ Cardinality(CacheHolders) \in Nat
      /\ IsFiniteSet(FlushHolders) /\ Cardinality(FlushHolders) \in Nat
      /\ IsFiniteSet(BackHolders) /\ Cardinality(BackHolders) \in Nat
  BY HoldersFinite
<1>c. cacheSema \in Nat /\ stolen \in Nat /\ backSema \in Nat
  BY <1>0, SlotsAssumption DEF TypeOK
<1> USE DEF CacheHolders, FlushHolders, BackHolders
<1>1. ASSUME NEW w \in Workers,
             \/ pc[w] \in {"new", "getWait", "backWait", "setWait", "report", "store"}
                  /\ pc'[w] \in {"getWait", "backWait", "setWait", "report", "store", "done"}
             \/ pc[w] = "setting" /\ pc'[w] = "stored",
             \A v \in Workers : v # w => pc'[v] = pc[v],
             UNCHANGED <<cacheSema, stolen, backSema, flush>>
      PROVE  SemaBalance'
  BY <1>1, SameHolders
<1>2. ASSUME NEW w \in Workers,
             pc[w] \in {"getWait", "setWait"}, pc'[w] \in {"getting", "setting"},
             \A v \in Workers : v # w => pc'[v] = pc[v],
             cacheSema' = cacheSema + 1, UNCHANGED <<stolen, backSema, flush>>
      PROVE  SemaBalance'
  <2>1. CacheHolders' = CacheHolders \cup {w} /\ w \notin CacheHolders
    BY <1>2
  <2>2. FlushHolders' = FlushHolders /\ BackHolders' = BackHolders
    BY <1>2
  <2>3. Cardinality(CacheHolders') = Cardinality(CacheHolders) + 1
    BY <1>b, <2>1, FS_AddElement
  <2>4. cacheSema' = cacheSema + 1 /\ stolen' = stolen /\ backSema' = backSema
    BY <1>2
  <2> HIDE DEF CacheHolders, FlushHolders, BackHolders
  <2> QED  BY <1>0, <1>b, <1>c, <2>2, <2>3, <2>4 DEF SemaBalance
<1>3. ASSUME NEW w \in Workers,
             pc[w] \in {"getting", "stored"}, pc'[w] \in {"report", "backWait", "store"},
             \A v \in Workers : v # w => pc'[v] = pc[v],
             cacheSema' = cacheSema - 1, UNCHANGED <<stolen, backSema, flush>>
      PROVE  SemaBalance'
  <2>1. CacheHolders' = CacheHolders \ {w} /\ w \in CacheHolders
    BY <1>3
  <2>2. FlushHolders' = FlushHolders /\ BackHolders' = BackHolders
    BY <1>3
  <2>3. Cardinality(CacheHolders') = Cardinality(CacheHolders) - 1
    BY <1>b, <2>1, FS_RemoveElement
  <2>4. cacheSema' = cacheSema - 1 /\ stolen' = stolen /\ backSema' = backSema
    BY <1>3
  <2> HIDE DEF CacheHolders, FlushHolders, BackHolders
  <2> QED  BY <1>0, <1>b, <1>c, <2>2, <2>3, <2>4 DEF SemaBalance
<1>4. ASSUME NEW w \in Workers, pc[w] = "backWait", pc'[w] = "backend",
             \A v \in Workers : v # w => pc'[v] = pc[v],
             backSema' = backSema + 1, UNCHANGED <<cacheSema, stolen, flush>>
      PROVE  SemaBalance'
  <2>1. BackHolders' = BackHolders \cup {w} /\ w \notin BackHolders
    BY <1>4
  <2>2. FlushHolders' = FlushHolders /\ CacheHolders' = CacheHolders
    BY <1>4
  <2>3. Cardinality(BackHolders') = Cardinality(BackHolders) + 1
    BY <1>b, <2>1, FS_AddElement
  <2>4. cacheSema' = cacheSema /\ stolen' = stolen /\ backSema' = backSema + 1
    BY <1>4
  <2> HIDE DEF CacheHolders, FlushHolders, BackHolders
  <2> QED  BY <1>0, <1>b, <1>c, <2>2, <2>3, <2>4 DEF SemaBalance
<1>5. ASSUME NEW w \in Workers, pc[w] = "backend", pc'[w] \in {"store", "report"},
             \A v \in Workers : v # w => pc'[v] = pc[v],
             backSema' = backSema - 1, UNCHANGED <<cacheSema, stolen, flush>>
      PROVE  SemaBalance'
  <2>1. BackHolders' = BackHolders \ {w} /\ w \in BackHolders
    BY <1>5
  <2>2. FlushHolders' = FlushHolders /\ CacheHolders' = CacheHolders
    BY <1>5
  <2>3. Cardinality(BackHolders') = Cardinality(BackHolders) - 1
    BY <1>b, <2>1, FS_RemoveElement
  <2>4. cacheSema' = cacheSema /\ stolen' = stolen /\ backSema' = backSema - 1
    BY <1>5
  <2> HIDE DEF CacheHolders, FlushHolders, BackHolders
  <2> QED  BY <1>0, <1>b, <1>c, <2>2, <2>3, <2>4 DEF SemaBalance
<1> USE DEF cacheVars, getVars, jobVars
<1>6. ASSUME NEW w \in Workers, Start(w) PROVE SemaBalance'
  <2>1. /\ pc'[w] \in {"getWait", "backWait", "report"}
        /\ \A v \in Workers : v # w => pc'[v] = pc[v]
    BY <1>0, <1>6 DEF Start, Goto, TypeOK
  <2>2. pc[w] = "new" /\ UNCHANGED <<cacheSema, stolen, backSema, flush>>
    BY <1>6 DEF Start
  <2> QED  BY <1>1, <2>1, <2>2
<1>7. ASSUME NEW w \in Workers, GetTimeout(w) \/ BackTimeout(w) PROVE SemaBalance'
  BY <1>7, <1>a, <1>1 DEF GetTimeout, BackTimeout
<1>8. ASSUME NEW w \in Workers, SetTimeout(w) \/ Report(w) PROVE SemaBalance'
  BY <1>8, <1>a, <1>1 DEF SetTimeout, Report
<1>9. ASSUME NEW w \in Workers, SetDone(w) \/ SetFailed(w) PROVE SemaBalance'
  BY <1>9, <1>a, <1>1 DEF SetDone, SetFailed
<1>10. ASSUME NEW w \in Workers, NEW k \in Keys, Record(w, k) PROVE SemaBalance'
  <2>1. CASE bypass
    BY <1>10, <2>1, SameHolders DEF Record
  <2>2. CASE ~bypass
    BY <1>10, <2>2, <1>a, <1>1 DEF Record
  <2> QED  BY <2>1, <2>2
<1>11. ASSUME NEW w \in Workers, GetAcquire(w) \/ SetAcquire(w) PROVE SemaBalance'
  BY <1>11, <1>a, <1>2 DEF GetAcquire, SetAcquire
<1>12. ASSUME NEW w \in Workers, GetRelease(w) PROVE SemaBalance'
  BY <1>12, <1>a, <1>3 DEF GetRelease
<1>13. ASSUME NEW w \in Workers, SetRelease(w) PROVE SemaBalance'
  BY <1>13, <1>a, <1>3 DEF SetRelease
<1>14. ASSUME NEW w \in Workers, BackAcquire(w) PROVE SemaBalance'
  BY <1>14, <1>a, <1>4 DEF BackAcquire
<1>15. ASSUME NEW w \in Workers, BackendStep(w) PROVE SemaBalance'
  BY <1>15, <1>a, <1>5 DEF BackendStep, BackSuccess, BackError
<1>16. ASSUME NEW w \in Workers, NEW c \in asked[w], ChunkFound(w, c) \/ ChunkFailed(w, c)
       PROVE  SemaBalance'
  BY <1>16, SameHolders DEF ChunkFound, ChunkFailed
<1>17. ASSUME NEW k \in Keys, Evict(k) PROVE SemaBalance'
  BY <1>17, SameHolders DEF Evict
<1>18. ASSUME NEW f \in Flushers, FlushAcquire(f) PROVE SemaBalance'
  <2>1. FlushHolders' = FlushHolders \cup {f} /\ f \notin FlushHolders
    BY <1>0, <1>18 DEF FlushAcquire, TypeOK
  <2>2. Cardinality(FlushHolders') = Cardinality(FlushHolders) + 1
    BY <1>b, <2>1, FS_AddElement
  <2>3. CacheHolders' = CacheHolders /\ BackHolders' = BackHolders
    BY <1>18 DEF FlushAcquire
  <2> QED  BY <1>0, <1>18, <1>b, <1>c, <2>2, <2>3 DEF FlushAcquire, SemaBalance
<1>19. ASSUME NEW f \in Flushers, FlushTimeout(f) \/ FlushAll(f) PROVE SemaBalance'
  <2>1. FlushHolders' = FlushHolders
    BY <1>0, <1>19 DEF FlushTimeout, FlushAll, TypeOK
  <2> QED  BY <1>19, <2>1, SameHolders DEF FlushTimeout, FlushAll
<1>20. ASSUME NEW f \in Flushers, FlushRelease(f) PROVE SemaBalance'
  <2>1. CacheHolders' = CacheHolders /\ BackHolders' = BackHolders
    BY <1>20 DEF FlushRelease
  <2>2. CASE flush[f] = "flushed"
    <3>1. FlushHolders' = FlushHolders \ {f} /\ f \in FlushHolders
      BY <1>0, <1>20, <2>2 DEF FlushRelease, TypeOK
    <3>2. Cardinality(FlushHolders') = Cardinality(FlushHolders) - 1
      BY <1>b, <3>1, FS_RemoveElement
    <3> QED  BY <1>0, <1>20, <1>b, <1>c, <2>1, <2>2, <3>2 DEF FlushRelease, SemaBalance
  <2>3. CASE flush[f] = "bareFlushed"
    <3>1. FlushHolders' = FlushHolders
      BY <1>0, <1>20, <2>3 DEF FlushRelease, TypeOK
    <3> QED  BY <1>0, <1>20, <1>b, <1>c, <2>1, <2>3, <3>1 DEF FlushRelease, SemaBalance
  <2> QED  BY <1>20, <2>2, <2>3 DEF FlushRelease
<1>21. CASE UNCHANGED vars
  BY <1>21, SameHolders DEF vars
<1> QED
  BY <1>6, <1>7, <1>8, <1>9, <1>10, <1>11, <1>12, <1>13, <1>14, <1>15, <1>16, <1>17,
     <1>18, <1>19, <1>20, <1>21 DEF Next, WorkerStep, CacheStep, StoreStep, FlushStep
-----------------------------------------------------------------------------
Counted(w) == fulfilled[w] = Cardinality(Known(realSize[w]))

Honest(w) ==
  report[w] # NoReport =>
    /\ report[w] # -1 => want[w] = Known(realSize[w])
    /\ report[w] = 1 => hits[w] = want[w]
    /\ report[w] = -1 => hasError[w] \/ want[w] # Known(realSize[w])

Good(w) == Job(w) /\ Counted(w) /\ Honest(w)

(* What Good depends on. *)
Local(w) == <<pc[w], want[w], realSize[w], asked[w], owed[w], hits[w], backQueries[w],
              fulfilled[w], todo[w], hasError[w], report[w]>>

LEMMA Frame ==
  ASSUME NEW w, Good(w), Local(w)' = Local(w)
  PROVE  Good(w)'
BY DEF Good, Job, Counted, Honest, Local, Known

(* A worker that only moves, without entering the phases with an           *)
(* assumption of their own, or that fails.                                 *)
LEMMA Moves ==
  ASSUME NEW w, Good(w),
         pc'[w] \in {"report", "store", "setWait", "setting", "stored", "backend"},
         pc'[w] = "backend" => pc[w] = "backWait",
         pc[w] \notin Early \/ hasError'[w],
         report[w] = NoReport,
         hasError'[w] = hasError[w] \/ hasError'[w] = TRUE,
         hasError[w] \in BOOLEAN,
         want'[w] = want[w], realSize'[w] = realSize[w], asked'[w] = asked[w],
         owed'[w] = owed[w], hits'[w] = hits[w], backQueries'[w] = backQueries[w],
         fulfilled'[w] = fulfilled[w], todo'[w] = todo[w], report'[w] = report[w]
  PROVE  Good(w)'
<1>1. Job(w)'
  BY DEF Good, Job, Known, Early
<1>2. Counted(w)' /\ Honest(w)'
  BY DEF Good, Counted, Honest, Known
<1> QED  BY <1>1, <1>2 DEF Good

LEMMA IInvGood == IInv <=> TypeOK /\ SemaBalance /\ \A w \in Workers : Good(w)
BY DEF IInv, Jobs, FulfilledCounts, HonestStatus, Good, Counted, Honest

(* A worker that has not reported is not done. *)
LEMMA NotReported ==
  ASSUME IInv, NEW w \in Workers, pc[w] # "done"
  PROVE  report[w] = NoReport
BY DEF IInv, Jobs, Job

LEMMA KnownFinite ==
  ASSUME NEW s
  PROVE  IsFiniteSet(Known(s)) /\ Cardinality(Known(s)) \in Nat
<1>1. Known(s) \in SUBSET Keys
  BY DEF Known
<1> QED  BY <1>1, KeysFinite, FS_Subset, FS_CardinalityType

LEMMA StartStep ==
  ASSUME IInv, NEW w \in Workers, Start(w), NEW v \in Workers
  PROVE  Good(v)'
<1>0. TypeOK /\ Good(v)
  BY IInvGood
<1>1. PICK us \in Requests[w] :
        LET ks == {Lower[u] : u \in us} IN
          /\ want' = [want EXCEPT ![w] = ks]
          /\ backQueries' = [backQueries EXCEPT ![w] = IF bypass THEN ks ELSE {}]
          /\ Goto(w, IF ~bypass THEN "getWait" ELSE IF ks # {} THEN "backWait" ELSE "report")
  BY DEF Start
<1> DEFINE ks == {Lower[u] : u \in us}
<1>2. /\ pc[w] = "new"
      /\ realSize' = realSize /\ asked' = asked /\ owed' = owed /\ hits' = hits
      /\ fulfilled' = fulfilled /\ todo' = todo /\ hasError' = hasError /\ report' = report
  BY DEF Start, getVars
<1>3. CASE v # w
  <2>1. want'[v] = want[v] /\ backQueries'[v] = backQueries[v] /\ pc'[v] = pc[v]
    BY <1>0, <1>1, <1>3 DEF TypeOK, Goto
  <2> QED  BY <1>0, <1>2, <2>1, Frame DEF Local
<1>4. CASE v = w
  <2>1. /\ want'[w] = ks /\ backQueries'[w] = IF bypass THEN ks ELSE {}
        /\ pc'[w] = IF ~bypass THEN "getWait" ELSE IF ks # {} THEN "backWait" ELSE "report"
    BY <1>0, <1>1 DEF TypeOK, Goto
  <2> HIDE DEF ks
  <2>2. Known(realSize[w]) = {} /\ fulfilled[w] = 0 /\ Known(todo[w]) = {}
    BY <1>0, <1>2, <1>4 DEF Good, Job, Early
  <2>3. report[w] = NoReport
    BY <1>2, NotReported
  <2>4. hits[w] = {}
    BY <1>0, <1>2, <1>4 DEF Good, Job, Early
  <2>5. Job(w)'
    BY <1>0, <1>2, <1>4, <2>1, <2>2, <2>3, <2>4 DEF Good, Job, Early, Known
  <2>6. Counted(w)' /\ Honest(w)'
    BY <1>0, <1>2, <1>4, <2>3 DEF Good, Counted, Honest
  <2> QED  BY <1>4, <2>5, <2>6 DEF Good
<1> QED  BY <1>3, <1>4

(* The steps that Moves is about. *)
MoveStep(w) ==
  \/ GetTimeout(w) \/ BackAcquire(w) \/ BackTimeout(w) \/ BackError(w)
  \/ SetAcquire(w) \/ SetTimeout(w) \/ SetDone(w) \/ SetFailed(w) \/ SetRelease(w)

LEMMA MoveStepGood ==
  ASSUME IInv, NEW w \in Workers, MoveStep(w), NEW v \in Workers
  PROVE  Good(v)'
<1>0. TypeOK /\ Good(v)
  BY IInvGood
<1>1. /\ want' = want /\ realSize' = realSize /\ asked' = asked /\ owed' = owed
      /\ hits' = hits /\ backQueries' = backQueries /\ fulfilled' = fulfilled
      /\ todo' = todo /\ report' = report
  BY DEF MoveStep, GetTimeout, BackAcquire, BackTimeout, BackError, SetAcquire, SetTimeout,
         SetDone, SetFailed, SetRelease, getVars, jobVars
<1>2. hasError' = hasError \/ hasError' = [hasError EXCEPT ![w] = TRUE]
  BY DEF MoveStep, GetTimeout, BackAcquire, BackTimeout, BackError, SetAcquire, SetTimeout,
         SetDone, SetFailed, SetRelease, jobVars, Fail
<1>3. PICK l \in {"report", "store", "setting", "stored", "backend"} :
        pc' = [pc EXCEPT ![w] = l] /\ (l = "backend" => pc[w] = "backWait")
  BY DEF MoveStep, GetTimeout, BackAcquire, BackTimeout, BackError, SetAcquire, SetTimeout,
         SetDone, SetFailed, SetRelease, Goto
<1>4. pc[w] # "done" /\ (pc[w] \notin Early \/ hasError' = [hasError EXCEPT ![w] = TRUE])
  BY DEF MoveStep, GetTimeout, BackAcquire, BackTimeout, BackError, SetAcquire, SetTimeout,
         SetDone, SetFailed, SetRelease, Early, Fail
<1>5. CASE v # w
  <2>1. pc'[v] = pc[v] /\ hasError'[v] = hasError[v]
    BY <1>0, <1>2, <1>3, <1>5 DEF TypeOK
  <2> QED  BY <1>0, <1>1, <2>1, Frame DEF Local
<1>6. CASE v = w
  <2>1. /\ pc'[w] \in {"report", "store", "setWait", "setting", "stored", "backend"}
        /\ pc'[w] = "backend" => pc[w] = "backWait"
    BY <1>0, <1>3 DEF TypeOK
  <2>2. /\ hasError'[w] = hasError[w] \/ hasError'[w] = TRUE
        /\ hasError[w] \in BOOLEAN
        /\ pc[w] \notin Early \/ hasError'[w]
    BY <1>0, <1>2, <1>4 DEF TypeOK
  <2>3. report[w] = NoReport
    BY <1>4, NotReported
  <2>4. Good(w)'
    BY <1>0, <1>1, <1>6, <2>1, <2>2, <2>3, Moves
  <2> QED  BY <1>6, <2>4
<1> QED  BY <1>5, <1>6

(* Chunks are started, and return or fail. *)
LEMMA GetAcquireStep ==
  ASSUME IInv, NEW w \in Workers, GetAcquire(w), NEW v \in Workers
  PROVE  Good(v)'
<1>0. TypeOK /\ Good(v)
  BY IInvGood
<1>1. PICK P \in Chunkings(want[w]) :
        /\ asked' = [asked EXCEPT ![w] = P]
        /\ owed' = [owed EXCEPT ![w] = Calls(Cardinality(want[w]), ChunkSize)]
  BY DEF GetAcquire
<1>2. /\ IsFiniteSet(P) /\ Cardinality(P) \in Nat
      /\ Cardinality(P) = Calls(Cardinality(want[w]), ChunkSize)
  <2>1. want[w] \in SUBSET Keys
    BY <1>0 DEF TypeOK
  <2> QED  BY <2>1, ChunksOfKeys
<1>3. /\ pc[w] = "getWait" /\ pc' = [pc EXCEPT ![w] = "getting"]
      /\ want' = want /\ realSize' = realSize /\ hits' = hits
      /\ backQueries' = backQueries /\ fulfilled' = fulfilled
      /\ todo' = todo /\ hasError' = hasError /\ report' = report
  BY DEF GetAcquire, Goto, jobVars
<1>4. CASE v # w
  <2>1. pc'[v] = pc[v] /\ asked'[v] = asked[v] /\ owed'[v] = owed[v]
    BY <1>0, <1>1, <1>3, <1>4 DEF TypeOK
  <2> QED  BY <1>0, <1>3, <2>1, Frame DEF Local
<1>5. CASE v = w
  <2>1. pc'[v] = "getting" /\ asked'[v] = P /\ owed'[v] = Cardinality(P)
    BY <1>0, <1>1, <1>2, <1>3, <1>5 DEF TypeOK
  <2>2. IsFiniteSet(asked'[v]) /\ Cardinality(asked'[v]) <= owed'[v]
    BY <1>2, <2>1
  <2>3. report[v] = NoReport
    BY <1>3, <1>5, NotReported
  <2>4. Job(v)'
    BY <1>0, <1>3, <1>5, <2>1, <2>2, <2>3 DEF Good, Job, Early, Known
  <2>5. Counted(v)' /\ Honest(v)'
    BY <1>0, <1>3, <2>3 DEF Good, Counted, Honest, Known
  <2> QED  BY <2>4, <2>5 DEF Good
<1> QED  BY <1>4, <1>5

LEMMA ChunkStep ==
  ASSUME IInv, NEW w \in Workers, NEW c \in asked[w],
         ChunkFound(w, c) \/ ChunkFailed(w, c), NEW v \in Workers
  PROVE  Good(v)'
<1>0. TypeOK /\ Good(v)
  BY IInvGood
<1>1. /\ asked' = [asked EXCEPT ![w] = asked[w] \ {c}]
      /\ owed' = [owed EXCEPT ![w] = owed[w] - 1] \/ owed' = owed
      /\ pc' = pc /\ want' = want /\ realSize' = realSize /\ hits' = hits
      /\ backQueries' = backQueries /\ fulfilled' = fulfilled
      /\ todo' = todo /\ hasError' = hasError /\ report' = report
  BY DEF ChunkFound, ChunkFailed, jobVars
<1>2. CASE v # w
  <2>1. asked'[v] = asked[v] /\ owed'[v] = owed[v]
    BY <1>0, <1>1, <1>2 DEF TypeOK
  <2> QED  BY <1>0, <1>1, <2>1, Frame DEF Local
<1>3. CASE v = w
  <2>1. IsFiniteSet(asked[w] \ {c}) /\ Cardinality(asked[w] \ {c}) <= owed[w] - 1
    BY ChunkIsOwed
  <2>2. /\ asked'[w] = asked[w] \ {c}
        /\ owed'[w] \in {owed[w] - 1, owed[w]}
        /\ owed[w] \in Nat
    BY <1>0, <1>1 DEF TypeOK
  <2>3. Cardinality(asked[w] \ {c}) \in Nat
    BY <2>1, FS_CardinalityType
  <2>4. IsFiniteSet(asked'[w]) /\ Cardinality(asked'[w]) <= owed'[w]
    BY <2>1, <2>2, <2>3
  <2>5. Job(v)'
    BY <1>0, <1>1, <1>3, <2>4 DEF Good, Job, Known
  <2>6. Counted(v)' /\ Honest(v)'
    BY <1>0, <1>1 DEF Good, Counted, Honest, Known
  <2> QED  BY <2>5, <2>6 DEF Good
<1> QED  BY <1>2, <1>3

(* The cache's answer is taken over: what was found is known. *)
LEMMA GetReleaseStep ==
  ASSUME IInv, NEW w \in Workers, GetRelease(w), NEW v \in Workers
  PROVE  Good(v)'
<1>0. TypeOK /\ Good(v)
  BY IInvGood
<1> DEFINE found == {k \in want[w] : itemMap[w][k] = Full}
           g == [k \in Keys |-> IF k \in found THEN Full ELSE realSize[w][k]]
           l == IF found = want[w] THEN "report" ELSE "backWait"
<1>1. /\ pc[w] = "getting" /\ pc' = [pc EXCEPT ![w] = l]
      /\ hits' = [hits EXCEPT ![w] = found]
      /\ realSize' = [realSize EXCEPT ![w] = g]
      /\ fulfilled' = [fulfilled EXCEPT ![w] = fulfilled[w] + Cardinality(found)]
      /\ backQueries' = [backQueries EXCEPT ![w] = want[w] \ found]
      /\ want' = want /\ todo' = todo /\ hasError' = hasError /\ report' = report
      /\ asked' = asked /\ owed' = owed
  BY DEF GetRelease, Goto, getVars
<1>2. CASE v # w
  <2>1. /\ pc'[v] = pc[v] /\ hits'[v] = hits[v] /\ realSize'[v] = realSize[v]
        /\ fulfilled'[v] = fulfilled[v] /\ backQueries'[v] = backQueries[v]
    <3> HIDE DEF found, g, l
    <3> QED  BY <1>0, <1>1, <1>2 DEF TypeOK
  <2> QED  BY <1>0, <1>1, <2>1, Frame DEF Local
<1>3. CASE v = w
  <2>1. /\ Known(realSize[w]) = {} /\ fulfilled[w] = 0 /\ Known(todo[w]) = {}
        /\ IsFiniteSet(asked[w]) /\ Cardinality(asked[w]) <= owed[w]
    BY <1>0, <1>1, <1>3 DEF Good, Job, Early
  <2>2. /\ pc'[w] = l /\ hits'[w] = found /\ realSize'[w] = g
        /\ fulfilled'[w] = fulfilled[w] + Cardinality(found)
        /\ backQueries'[w] = want[w] \ found
    <3> HIDE DEF found, g, l
    <3> QED  BY <1>0, <1>1 DEF TypeOK
  <2>3. Known(g) = found
    <3>1. found \subseteq Keys
      BY <1>0 DEF TypeOK
    <3>2. \A k \in Keys : g[k] # Unknown <=> k \in found
      BY <2>1 DEF Known, Full, Unknown
    <3> HIDE DEF g, found
    <3> QED  BY <3>1, <3>2 DEF Known
  <2>4. Cardinality(found) \in Nat
    BY <2>3, KnownFinite
  <2>5. report[w] = NoReport
    BY <1>1, NotReported
  <2>6. found \subseteq want[w] /\ l \in {"report", "backWait"}
    OBVIOUS
  <2> HIDE DEF found, g, l
  <2>7. Known(realSize'[w]) = found /\ Known(todo'[w]) = {}
    BY <1>1, <2>1, <2>2, <2>3
  <2>8. Job(w)'
    BY <1>1, <2>1, <2>2, <2>5, <2>6, <2>7 DEF Job, Early
  <2>9. Counted(w)' /\ Honest(w)'
    BY <1>1, <2>1, <2>2, <2>4, <2>5, <2>7 DEF Counted, Honest
  <2> QED  BY <1>3, <2>8, <2>9 DEF Good
<1> QED  BY <1>2, <1>3

(* The backend answers with values for keys that have none yet. *)
LEMMA BackSuccessStep ==
  ASSUME IInv, NEW w \in Workers, BackSuccess(w), NEW v \in Workers
  PROVE  Good(v)'
<1>0. TypeOK /\ Good(v)
  BY IInvGood
<1>1. PICK vals \in [backQueries[w] -> Sizes] :
        todo' = [todo EXCEPT ![w] =
                   [k \in Keys |-> IF k \in backQueries[w] THEN vals[k] ELSE Unknown]]
  BY DEF BackSuccess
<1> DEFINE g == [k \in Keys |-> IF k \in backQueries[w] THEN vals[k] ELSE Unknown]
<1>2. /\ pc[w] = "backend" /\ pc' = [pc EXCEPT ![w] = "store"]
      /\ want' = want /\ realSize' = realSize /\ hits' = hits
      /\ backQueries' = backQueries /\ fulfilled' = fulfilled
      /\ hasError' = hasError /\ report' = report /\ asked' = asked /\ owed' = owed
  BY DEF BackSuccess, Goto, getVars
<1>3. Known(g) \subseteq backQueries[w]
  BY DEF Known
<1> HIDE DEF g
<1>4. CASE v # w
  <2>1. pc'[v] = pc[v] /\ todo'[v] = todo[v]
    BY <1>0, <1>1, <1>2, <1>4 DEF TypeOK
  <2> QED  BY <1>0, <1>2, <2>1, Frame DEF Local
<1>5. CASE v = w
  <2>1. pc'[w] = "store" /\ todo'[w] = g
    BY <1>0, <1>1, <1>2 DEF TypeOK, g
  <2>2. Known(todo'[w]) \subseteq backQueries[w] /\ report[w] = NoReport
    BY <1>2, <1>3, <2>1, NotReported
  <2>3. Known(realSize'[w]) = Known(realSize[w])
    BY <1>2
  <2>4. Job(w)'
    BY <1>0, <1>2, <1>5, <2>1, <2>2, <2>3 DEF Good, Job, Early
  <2>5. Counted(w)' /\ Honest(w)'
    BY <1>0, <1>2, <1>5, <2>2, <2>3 DEF Good, Counted, Honest
  <2> QED  BY <1>5, <2>4, <2>5 DEF Good
<1> QED  BY <1>4, <1>5

(* One value of the backend becomes known, and is counted. *)
LEMMA RecordStep ==
  ASSUME IInv, NEW w \in Workers, NEW k \in Keys, Record(w, k), NEW v \in Workers
  PROVE  Good(v)'
<1>0. TypeOK /\ Good(v) /\ Good(w)
  BY IInvGood
<1>1. /\ pc[w] = "store" /\ todo[w][k] # Unknown
      /\ realSize' = [realSize EXCEPT ![w][k] = todo[w][k]]
      /\ todo' = [todo EXCEPT ![w][k] = Unknown]
      /\ fulfilled' = [fulfilled EXCEPT ![w] = fulfilled[w] + 1]
      /\ want' = want /\ hits' = hits /\ backQueries' = backQueries
      /\ hasError' = hasError /\ report' = report /\ asked' = asked /\ owed' = owed
  BY DEF Record, getVars
<1>2. pc' = pc \/ pc' = [pc EXCEPT ![w] = "setWait"]
  BY DEF Record, Goto
<1>3. CASE v # w
  <2>1. /\ pc'[v] = pc[v] /\ realSize'[v] = realSize[v] /\ todo'[v] = todo[v]
        /\ fulfilled'[v] = fulfilled[v]
    BY <1>0, <1>1, <1>2, <1>3 DEF TypeOK
  <2> QED  BY <1>0, <1>1, <2>1, Frame DEF Local
<1>4. CASE v = w
  <2>1. /\ pc'[w] \in {"store", "setWait"}
        /\ fulfilled'[w] = fulfilled[w] + 1
        /\ \A j \in Keys : realSize'[w][j] = IF j = k THEN todo[w][k] ELSE realSize[w][j]
        /\ \A j \in Keys : todo'[w][j] = IF j = k THEN Unknown ELSE todo[w][j]
    BY <1>0, <1>1, <1>2 DEF TypeOK
  <2>2. Known(realSize'[w]) = Known(realSize[w]) \cup {k}
    BY <1>1, <2>1 DEF Known
  <2>3. Known(todo'[w]) = Known(todo[w]) \ {k}
    BY <1>1, <2>1 DEF Known
  <2>4. k \in Known(todo[w])
    BY <1>1 DEF Known
  <2>5. k \in backQueries[w] /\ k \in want[w] /\ k \notin Known(realSize[w])
    BY <1>0, <2>4 DEF Good, Job
  <2>6. Cardinality(Known(realSize'[w])) = Cardinality(Known(realSize[w])) + 1
    BY <2>2, <2>5, KnownFinite, FS_AddElement
  <2>7. report[w] = NoReport
    BY <1>1, NotReported
  <2>8. Job(w)'
    BY <1>0, <1>1, <2>1, <2>2, <2>3, <2>5, <2>7 DEF Good, Job, Early
  <2>9. Counted(w)' /\ Honest(w)'
    BY <1>0, <1>1, <2>1, <2>6, <2>7 DEF Good, Counted, Honest
  <2> QED  BY <1>4, <2>8, <2>9 DEF Good
<1> QED  BY <1>3, <1>4

(* The status is computed from what is known.  That as many keys are known *)
(* as were wanted means that all of them are.                              *)
LEMMA ReportStep ==
  ASSUME IInv, NEW w \in Workers, Report(w), NEW v \in Workers
  PROVE  Good(v)'
<1>0. TypeOK /\ Good(v) /\ Good(w)
  BY IInvGood
<1>1. /\ pc[w] \in {"report", "store"} /\ pc' = [pc EXCEPT ![w] = "done"]
      /\ report' = [report EXCEPT ![w] = Status(w)]
      /\ want' = want /\ realSize' = realSize /\ hits' = hits /\ asked' = asked
      /\ owed' = owed /\ backQueries' = backQueries /\ fulfilled' = fulfilled
      /\ todo' = todo /\ hasError' = hasError
  BY DEF Report, Goto, getVars
<1>2. CASE v # w
  <2>1. pc'[v] = pc[v] /\ report'[v] = report[v]
    BY <1>0, <1>1, <1>2 DEF TypeOK
  <2> QED  BY <1>0, <1>1, <2>1, Frame DEF Local
<1>3. CASE v = w
  <2>1. pc'[w] = "done" /\ report'[w] = Status(w)
    BY <1>0, <1>1 DEF TypeOK
  <2>2. Known(realSize'[w]) = Known(realSize[w]) /\ Known(todo'[w]) = Known(todo[w])
    BY <1>1
  <2>3. Job(w)' /\ Counted(w)'
    BY <1>0, <1>1, <2>1, <2>2 DEF Good, Job, Counted, Early
  <2>4. /\ Known(realSize[w]) \subseteq want[w] /\ IsFiniteSet(want[w])
        /\ fulfilled[w] = Cardinality(Known(realSize[w]))
    <3>1. want[w] \in SUBSET Keys
      BY <1>0 DEF TypeOK
    <3> QED  BY <1>0, <3>1, KeysFinite, FS_Subset DEF Good, Job, Counted
  <2>5. fulfilled[w] = Cardinality(want[w]) <=> want[w] = Known(realSize[w])
    BY <2>4, FS_Subset
  <2>6. ~hasError[w] => hits[w] \subseteq want[w] /\ backQueries[w] = want[w] \ hits[w]
    BY <1>0, <1>1 DEF Good, Job, Early
  <2>7. Honest(w)'
    BY <1>1, <2>1, <2>2, <2>5, <2>6, SMTT(30) DEF Honest, Status
  <2> QED  BY <1>3, <2>3, <2>7 DEF Good
<1> QED  BY <1>2, <1>3

LEMMA GoodStep == IInv /\ [Next]_vars => \A v \in Workers : Good(v)'
<1> SUFFICES ASSUME IInv, [Next]_vars, NEW v \in Workers PROVE Good(v)'
  OBVIOUS
<1>0. Good(v)
  BY IInvGood
<1>1. CASE \E w \in Workers : Start(w) \/ GetAcquire(w) \/ GetRelease(w)
  BY <1>1, StartStep, GetAcquireStep, GetReleaseStep
<1>2. CASE \E w \in Workers : \E c \in asked[w] : ChunkFound(w, c) \/ ChunkFailed(w, c)
  BY <1>2, ChunkStep
<1>3. CASE \E w \in Workers : MoveStep(w)
  BY <1>3, MoveStepGood
<1>4. CASE \E w \in Workers : BackSuccess(w) \/ Report(w) \/ \E k \in Keys : Record(w, k)
  BY <1>4, BackSuccessStep, ReportStep, RecordStep
<1>5. CASE \/ \E f \in Flushers : FlushStep(f)
           \/ \E k \in Keys : Evict(k)
           \/ UNCHANGED vars
  <2>1. UNCHANGED <<pc, getVars, jobVars>>
    BY <1>5 DEF FlushStep, FlushAcquire, FlushTimeout, FlushAll, FlushRelease, Evict, vars
  <2> QED  BY <1>0, <2>1, Frame DEF Local, getVars, jobVars
<1> QED
  BY <1>1, <1>2, <1>3, <1>4, <1>5
     DEF Next, WorkerStep, CacheStep, StoreStep, BackendStep, MoveStep
-----------------------------------------------------------------------------
THEOREM Invariant == Spec => []IInv
<1>1. IInv /\ [Next]_vars => IInv'
  <2> SUFFICES ASSUME IInv, [Next]_vars PROVE IInv'
    OBVIOUS
  <2>1. TypeOK' /\ SemaBalance' /\ \A w \in Workers : Good(w)'
    BY TypeStep, BalanceStep, GoodStep
  <2> QED  BY <2>1
              DEF IInv, Jobs, FulfilledCounts, HonestStatus, Good, Counted, Honest
<1> QED  BY <1>1, InitIInv, PTL DEF Spec, Safety

(* Every variable keeps its type: no semaphore exceeds its capacity. *)
THEOREM TypeCorrect == Spec => []TypeOK
<1>1. IInv => TypeOK
  BY DEF IInv
<1> QED  BY <1>1, Invariant, PTL

(* For any number of keys and any size of a chunk, the calls to the cache  *)
(* ask for each key once, and their answers are as many as are waited for. *)
THEOREM EachKeyOnce == Spec => KeysAskedOnce
<1>1. IInv /\ [Next]_vars =>
        \A w \in Workers : pc[w] = "getWait" /\ pc'[w] = "getting" =>
          /\ UNION asked'[w] = want[w]
          /\ \A c, d \in asked'[w] : c # d => c \cap d = {}
          /\ owed'[w] = Cardinality(asked'[w])
          /\ \A n \in 0 .. MaxCut, size \in 1 .. MaxCut : CutsWell(n, size)
  <2> SUFFICES ASSUME IInv, [Next]_vars, NEW w \in Workers, pc[w] = "getWait", pc'[w] = "getting"
               PROVE  /\ UNION asked'[w] = want[w]
                      /\ \A c, d \in asked'[w] : c # d => c \cap d = {}
                      /\ owed'[w] = Cardinality(asked'[w])
    <3>1. \A n \in 0 .. MaxCut, size \in 1 .. MaxCut : CutsWell(n, size)
      <4>1. \A n \in 0 .. MaxCut, size \in 1 .. MaxCut : n \in Nat /\ size \in Nat \ {0}
        BY ChunkAssumption
      <4> QED  BY <4>1, CutsAllWell
    <3> QED  BY <3>1
  <2>0. TypeOK
    BY DEF IInv
  <2>1. GetAcquire(w)
    <3>1. ASSUME NEW v \in Workers, Start(v) \/ WorkerStep(v) \/ BackendStep(v) PROVE GetAcquire(w)
      BY <2>0, <3>1 DEF TypeOK, Goto, Start, WorkerStep, CacheStep, StoreStep, BackendStep, GetAcquire,
         GetTimeout, GetRelease, ChunkFound, ChunkFailed, BackAcquire, BackTimeout, BackSuccess, BackError,
         Record, SetAcquire, SetTimeout, SetDone, SetFailed, SetRelease, Report
    <3>2. (\E f \in Flushers : FlushStep(f)) \/ (\E k \in Keys : Evict(k)) \/ UNCHANGED vars
            => UNCHANGED pc
      BY DEF FlushStep, FlushAcquire, FlushTimeout, FlushAll, FlushRelease, Evict, vars
    <3> QED  BY <3>1, <3>2 DEF Next
  <2>2. PICK P \in Chunkings(want[w]) :
          /\ asked' = [asked EXCEPT ![w] = P]
          /\ owed' = [owed EXCEPT ![w] = Calls(Cardinality(want[w]), ChunkSize)]
    BY <2>1 DEF GetAcquire
  <2>3. /\ want[w] \in SUBSET Keys
        /\ asked'[w] = P /\ owed'[w] = Calls(Cardinality(want[w]), ChunkSize)
    BY <2>0, <2>2 DEF TypeOK
  <2> QED  BY <2>3, ChunksOfKeys
<1> QED  BY <1>1, Invariant, PTL DEF Spec, Safety, KeysAskedOnce

(* On no path of a subquery, failing or not, a token leaks or is returned  *)
(* twice; what FlushHandler takes in excess is exactly stolen.             *)
THEOREM Balanced == Spec => []SemaBalance
<1>1. IInv => SemaBalance
  BY DEF IInv
<1> QED  BY <1>1, Invariant, PTL

(* The cache serves at most CacheSlots operations of subqueries at a time, *)
(* plus one for every token a flusher took without holding one; the        *)
(* backend serves at most BackSlots requests.                              *)
THEOREM LoadBounded ==
  Spec => [](/\ Cardinality(CacheHolders) <= CacheSlots + stolen
             /\ Cardinality(BackHolders) <= BackSlots)
<1> DEFINE Bounded == /\ Cardinality(CacheHolders) <= CacheSlots + stolen
                      /\ Cardinality(BackHolders) <= BackSlots
<1>1. IInv => Bounded
  <2> SUFFICES ASSUME IInv PROVE Bounded
    OBVIOUS
  <2>1. /\ cacheSema + stolen = Cardinality(CacheHolders) + Cardinality(FlushHolders)
        /\ backSema = Cardinality(BackHolders)
    BY DEF IInv, SemaBalance
  <2>2. cacheSema \in 0 .. CacheSlots /\ backSema \in 0 .. BackSlots /\ stolen \in Nat
    BY DEF IInv, TypeOK
  <2> QED  BY <2>1, <2>2, HoldersFinite, SlotsAssumption
<1> QED  BY <1>1, Invariant, PTL

(* The sanity check counts what it means to count. *)
THEOREM CountsAreRight == Spec => []FulfilledCounts
<1>1. IInv => FulfilledCounts
  BY DEF IInv
<1> QED  BY <1>1, Invariant, PTL

(* A subquery never reports success without an answer for every key, nor a *)
(* hit with a key the cache did not have, nor an error without cause.      *)
THEOREM StatusIsHonest == Spec => []HonestStatus
<1>1. IInv => HonestStatus
  BY DEF IInv
<1> QED  BY <1>1, Invariant, PTL
=============================================================================

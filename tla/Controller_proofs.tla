-------------------------- MODULE Controller_proofs --------------------------
(***************************************************************************)
(* Proofs about Controller, for any caches, sizes, steps and stages: that  *)
(* the limits of a round that changes all it planned add up to the total,  *)
(* that the next round can take back what a round with failed threads left *)
(* behind, that no round is given up for that, and what the stages of      *)
(* offline_opt leave of the limits.                                        *)
(***************************************************************************)
EXTENDS Controller, SumTheorems

(* Where the main loop is, and what goes with it. *)
Phases ==
  /\ pc = "connect" => limit = CacheSize
  /\ pc \notin {"enforce", "offline"} => Idle
  /\ pc \in {"enforce", "stage"} => algorithm \in Weighted
  /\ pc = "offline" => algorithm = "offline_opt" /\ ptr \in 1 .. Len(Specs)
  /\ pc # "dead" => depth < MaxDepth
  /\ aborted => pc = "stage"

(* A thread that has still to set a limit sets one that is allowed. *)
SafeDeltas ==
  \A k \in Keys : thread[k] = "set" =>
    /\ limit[k] + delta[k] >= 0
    /\ algorithm \in Weighted => Acceptable(k, delta[k])

(* The limits that were planned, set or not, add up to the total. *)
Planned == [k \in Keys |-> IF thread[k] = "set" \/ k \in missed THEN limit[k] + delta[k] ELSE limit[k]]
Balanced ==
  pc = "enforce" =>
    /\ SumFunction(Planned) = total
    /\ \A k \in missed : thread[k] # "set"

(* What cannot be stolen again: of each limit what a step leaves of it, of *)
(* one that is still to be set all of it.  That is within the total, so    *)
(* however many threads fail the next round has enough to steal.           *)
Positive == Weighted \ {"crit_path_w_delta"}
Bound == [k \in Keys |-> IF thread[k] = "set" THEN limit[k] + delta[k] ELSE limit[k] - Steal(k)]
Covered ==
  pc \in {"sleep", "enforce", "stage"} /\ algorithm \in Positive /\ ~short =>
    /\ SumFunction(Bound) <= total
    /\ \A k \in Keys : thread[k] = "set" => limit[k] - Steal(k) <= limit[k] + delta[k]

(* What offline_opt has done of its stage. *)
Staged ==
  pc = "offline" =>
    /\ todo \subseteq DOMAIN Specs[ptr]
    /\ \A k \in Keys : thread[k] = "set" => k \in DOMAIN Specs[ptr] \ todo
    /\ \A k \in DOMAIN Specs[ptr] \ todo :
         limit[k] + (IF thread[k] = "set" THEN delta[k] ELSE 0) = Specs[ptr][k]

IInv == TypeOK /\ Phases /\ SafeDeltas /\ Balanced /\ Covered /\ Staged /\ StagesKept
-----------------------------------------------------------------------------
LEMMA OrderOfKeys ==
  /\ IsFiniteSet(Keys)
  /\ Len(Order) \in Nat \ {0} /\ Keys # {}
  /\ Keys = {Order[i] : i \in 1 .. Len(Order)}
  /\ \A n \in 0 .. Len(Order) : {Order[i] : i \in 1 .. n} \in SUBSET Keys
<1>1. Order \in Seq(Keys) /\ Order # <<>>
  BY OrderAssumption
<1>2. /\ Len(Order) \in Nat \ {0} /\ DOMAIN Order = 1 .. Len(Order)
      /\ Order \in [1 .. Len(Order) -> Keys]
  BY <1>1
<1>3. Keys = {Order[i] : i \in 1 .. Len(Order)}
  BY <1>2 DEF Keys, ToSet
<1>4. Order \in Surjection(1 .. Len(Order), Keys)
  BY <1>2, <1>3 DEF Surjection
<1>5. IsFiniteSet(1 .. Len(Order))
  BY <1>2, FS_Interval
<1>6. IsFiniteSet(Keys)
  BY <1>4, <1>5, FS_Surjection
<1>7. Order[1] \in Keys
  BY <1>2
<1> QED  BY <1>2, <1>3, <1>6, <1>7

LEMMA KeysFinite == IsFiniteSet(Keys)
BY OrderOfKeys

(* Sums over the caches. *)
LEMMA SumOfKeys ==
  ASSUME NEW f \in [Keys -> Int]
  PROVE  /\ SumFunction(f) = SumFunctionOnSet(f, Keys)
         /\ SumFunction(f) \in Int
         /\ \A S \in SUBSET Keys : IsFiniteSet(S) /\ SumFunctionOnSet(f, S) \in Int
<1>1. SumFunction(f) = SumFunctionOnSet(f, Keys)
  BY DEF SumFunction
<1>2. ASSUME NEW S \in SUBSET Keys PROVE IsFiniteSet(S) /\ SumFunctionOnSet(f, S) \in Int
  <2>1. IsFiniteSet(S)
    BY KeysFinite, FS_Subset
  <2> QED  BY <2>1, SumRemove
<1> QED  BY <1>1, <1>2

LEMMA ChangeOfSum ==
  ASSUME NEW f \in [Keys -> Int], NEW g \in [Keys -> Int],
         NEW y \in Keys, \A k \in Keys : k # y => g[k] = f[k]
  PROVE  SumFunction(g) = SumFunction(f) - f[y] + g[y]
BY KeysFinite, SumChange

LEMMA SizeOfFirstType ==
  ASSUME NEW n \in 0 .. Len(Order)
  PROVE  SizeOfFirst(n) \in Nat
<1> DEFINE S == {Order[i] : i \in 1 .. n}
<1>1. S \in SUBSET Keys /\ CacheSize \in [Keys -> Int] /\ \A k \in S : CacheSize[k] >= 0
  BY OrderOfKeys, SizeAssumption
<1> HIDE DEF S
<1>2. SumFunctionOnSet(CacheSize, S) \in Nat
  BY <1>1, SumOfKeys, SumNonNegative
<1> QED  BY <1>2 DEF SizeOfFirst, S

(* What a round steals of a cache is something, and no more than it has. *)
LEMMA StealType ==
  ASSUME limit \in [Keys -> Nat], NEW k \in Keys
  PROVE  Steal(k) \in Nat
<1>1. /\ StepNum \in Nat /\ StepDen \in Nat \ {0} /\ limit[k] \in Nat
  BY StepAssumption
<1>2. StepNum * limit[k] \in Nat
  BY <1>1
<1>3. (StepNum * limit[k]) \div StepDen \in Nat
  BY <1>1, <1>2
<1> QED  BY <1>3 DEF Steal
-----------------------------------------------------------------------------
(* Weights are fractions. *)
IsWeights(w) == w.num \in [Keys -> Int] /\ w.den \in Nat \ {0}

LEMMA ProportionalWeights ==
  ASSUME NEW c \in [Keys -> Int], SumFunction(c) > 0
  PROVE  IsWeights(Proportional(c)) /\ SumFunction(Proportional(c).num) = Proportional(c).den
BY SumOfKeys DEF IsWeights, Proportional

(* Those that give nothing twice: none is negative, and they sum up to 1   *)
(* or to nothing.                                                          *)
Fair(w) == IsWeights(w) /\ (\A k \in Keys : w.num[k] >= 0) /\ SumFunction(w.num) <= w.den

LEMMA CritPathFair == \A w \in CritPathWeights : Fair(w)
<1> SUFFICES ASSUME NEW c \in [Keys -> 0 .. MaxCount], SumFunction(c) > 0
             PROVE  Fair(Proportional(c))
  BY DEF CritPathWeights
<1>1. c \in [Keys -> Int] /\ \A k \in Keys : c[k] >= 0
  BY BoundAssumption
<1>2. Proportional(c).num = c
  BY DEF Proportional
<1> QED  BY <1>1, <1>2, ProportionalWeights DEF Fair, IsWeights

LEMMA CritPathDeltaType == \A w \in CritPathDeltaWeights : IsWeights(w)
<1> SUFFICES ASSUME NEW c \in [Keys -> -MaxCount .. MaxCount], SumFunction(c) > 0
             PROVE  IsWeights(Proportional(c))
  BY DEF CritPathDeltaWeights
<1>1. c \in [Keys -> Int]
  BY BoundAssumption
<1> QED  BY <1>1, ProportionalWeights

(* A slow cache has a latency: the mean is not below -1. *)
LEMMA LatencyFair == \A w \in LatencyWeights : Fair(w)
<1> DEFINE Slow(l) == {k \in Keys : 10 * Cardinality(Keys) * l[k] > 9 * SumFunction(l)}
           Num(l, used) == [k \in Keys |-> IF k \in Slow(l) \cap used THEN l[k] ELSE 0]
           Nums == {Num(l, used) : l \in [Keys -> -1 .. Levels], used \in SUBSET Keys}
<1>1. ASSUME NEW n \in Nums PROVE n \in [Keys -> Int] /\ \A k \in Keys : n[k] >= 0
  <2>1. PICK l \in [Keys -> -1 .. Levels], used \in SUBSET Keys : n = Num(l, used)
    OBVIOUS
  <2>2. l \in [Keys -> Int] /\ \A k \in Keys : l[k] >= -1
    BY BoundAssumption
  <2>3. Cardinality(Keys) \in Nat /\ SumFunction(l) \in Int
    BY <2>2, KeysFinite, FS_CardinalityType, SumOfKeys
  <2>4. SumFunction(l) >= -Cardinality(Keys)
    <3> DEFINE m == [k \in Keys |-> -1]
    <3>1. SumFunctionOnSet(m, Keys) = (-1) * Cardinality(Keys)
      <4>1. \A k \in Keys : m[k] = -1
        OBVIOUS
      <4> HIDE DEF m
      <4> QED  BY <4>1, KeysFinite, SumConstant
    <3>2. \A k \in Keys : m[k] \in Int /\ l[k] \in Int /\ m[k] <= l[k]
      BY <2>2
    <3>3. SumFunctionOnSet(m, Keys) <= SumFunctionOnSet(l, Keys)
      BY <3>2, KeysFinite, SumCompare
    <3> HIDE DEF m
    <3> QED  BY <2>2, <2>3, <3>1, <3>3, SumOfKeys
  <2>5. ASSUME NEW k \in Slow(l) PROVE l[k] >= 0
    <3>1. l[k] \in Int /\ l[k] >= -1 /\ 10 * Cardinality(Keys) * l[k] > 9 * SumFunction(l)
      BY <2>2
    <3>2. l[k] # -1
      <4> SUFFICES ASSUME l[k] = -1 PROVE FALSE
        OBVIOUS
      <4>1. 10 * Cardinality(Keys) * (-1) > 9 * SumFunction(l)
        BY <3>1
      <4> QED  BY <2>3, <2>4, <4>1
    <3> QED  BY <3>1, <3>2
  <2> QED  BY <2>1, <2>2, <2>5
<1>2. ASSUME NEW w \in LatencyWeights
      PROVE  \E n \in Nums : \/ (\A k \in Keys : n[k] = 0) /\ w = [num |-> n, den |-> 1]
                             \/ SumFunction(n) > 0 /\ w = Proportional(n)
  <2>1. LatencyWeights =
          {[num |-> n, den |-> 1] : n \in {m \in Nums : \A k \in Keys : m[k] = 0}}
            \cup {Proportional(n) : n \in {m \in Nums : SumFunction(m) > 0}}
    BY DEF LatencyWeights
  <2> HIDE DEF Nums
  <2> QED  BY <2>1
<1> SUFFICES ASSUME NEW w \in LatencyWeights PROVE Fair(w)
  OBVIOUS
<1>3. PICK n \in Nums : \/ (\A k \in Keys : n[k] = 0) /\ w = [num |-> n, den |-> 1]
                        \/ SumFunction(n) > 0 /\ w = Proportional(n)
  BY <1>2
<1>4. n \in [Keys -> Int] /\ \A k \in Keys : n[k] >= 0
  BY <1>1
<1> HIDE DEF Nums
<1>5. CASE (\A k \in Keys : n[k] = 0) /\ w = [num |-> n, den |-> 1]
  <2>1. SumFunctionOnSet(n, Keys) = 0 * Cardinality(Keys) /\ Cardinality(Keys) \in Nat
    BY <1>5, KeysFinite, SumConstant, FS_CardinalityType
  <2>2. SumFunction(n) = 0
    BY <1>4, <2>1, SumOfKeys
  <2> QED  BY <1>4, <1>5, <2>2 DEF Fair, IsWeights
<1>6. CASE SumFunction(n) > 0 /\ w = Proportional(n)
  <2>1. w.num = n
    BY <1>6 DEF Proportional
  <2> QED  BY <1>4, <1>6, <2>1, ProportionalWeights DEF Fair, IsWeights
<1> QED  BY <1>3, <1>5, <1>6

(* A cache below the mean weighs at least 1. *)
LEMMA HitRatioFair == \A w \in HitRatioWeights : Fair(w)
<1> DEFINE Below(r) == {k \in Keys : r[k] > 0 /\ Cardinality(Keys) * r[k] < SumFunction(r)}
           Num(r, c) == [k \in Keys |-> IF k \in Below(r) THEN c \div r[k] ELSE 0]
           Multiples == {c \in 1 .. Levels ^ Levels : \A l \in 1 .. Levels : c % l = 0}
<1> SUFFICES ASSUME NEW w \in HitRatioWeights PROVE Fair(w)
  OBVIOUS
<1>0. PICK r \in [Keys -> 0 .. Levels], c \in Multiples :
        Below(r) # {} /\ w = Proportional(Num(r, c))
  <2> DEFINE Ratios == {q \in [Keys -> 0 .. Levels] : Below(q) # {}}
  <2>1. HitRatioWeights = {Proportional(Num(r, c)) : r \in Ratios, c \in Multiples}
    BY DEF HitRatioWeights
  <2>2. PICK r \in Ratios, c \in Multiples : w = Proportional(Num(r, c))
    <3> HIDE DEF Ratios, Multiples, Num
    <3> QED  BY <2>1
  <2> QED  BY <2>2
<1>1. Levels \in Nat
  BY BoundAssumption
<1>2. c \in Nat /\ c >= 1 /\ \A l \in 1 .. Levels : c % l = 0
  <2>1. c \in 1 .. Levels ^ Levels
    OBVIOUS
  <2>2. \A l \in 1 .. Levels : c % l = 0
    OBVIOUS
  <2> QED  BY <2>1, <2>2
<1>3. \A k \in Below(r) : r[k] \in 1 .. Levels
  BY <1>1
<1> DEFINE n == Num(r, c)
<1>4. ASSUME NEW k \in Below(r) PROVE n[k] \in Nat /\ n[k] >= 1
  <2>1. r[k] \in Nat \ {0} /\ c % r[k] = 0
    BY <1>1, <1>2, <1>3
  <2>2. c \div r[k] \in Nat /\ c = r[k] * (c \div r[k]) + (c % r[k])
    BY <1>2, <2>1
  <2>3. c \div r[k] # 0
    BY <1>2, <2>1, <2>2
  <2>4. n[k] = c \div r[k]
    OBVIOUS
  <2> QED  BY <2>2, <2>3, <2>4
<1>5. n \in [Keys -> Int] /\ \A k \in Keys : n[k] >= 0
  <2> SUFFICES ASSUME NEW k \in Keys PROVE n[k] \in Int /\ n[k] >= 0
    OBVIOUS
  <2>1. CASE k \in Below(r)
    BY <1>4, <2>1
  <2>2. CASE k \notin Below(r)
    BY <2>2
  <2> QED  BY <2>1, <2>2
<1>6. PICK k \in Below(r) : TRUE
  BY <1>0
<1>7. n[k] >= 1 /\ k \in Keys
  BY <1>4, <1>6
<1> HIDE DEF n
<1>8. SumFunctionOnSet(n, Keys) \in Nat /\ n[k] <= SumFunctionOnSet(n, Keys)
  BY <1>5, <1>7, KeysFinite, SumNonNegative
<1>9. SumFunction(n) > 0
  BY <1>5, <1>7, <1>8, SumOfKeys
<1>10. Proportional(n).num = n
  BY DEF Proportional
<1>11. Fair(Proportional(n))
  BY <1>5, <1>9, <1>10, ProportionalWeights DEF Fair, IsWeights
<1> QED  BY <1>0, <1>11 DEF n

(* The order of the caches by latency. *)
LEMMA Orders ==
  ASSUME NEW s \in SetToSeqs(Keys)
  PROVE  /\ Cardinality(Keys) \in Nat \ {0}
         /\ s \in [1 .. Cardinality(Keys) -> Keys]
         /\ \A i, j \in 1 .. Cardinality(Keys) : s[i] = s[j] => i = j
         /\ \A k \in Keys : \E i \in 1 .. Cardinality(Keys) : s[i] = k
<1> DEFINE N == Cardinality(Keys)
<1>1. N \in Nat /\ N # 0
  <2>1. IsFiniteSet(Keys) /\ Keys # {}
    BY OrderOfKeys
  <2> QED  BY <2>1, FS_CardinalityType, FS_EmptySet
<1>2. s \in [1 .. N -> Keys] /\ \A i, j \in 1 .. N : i # j => s[i] # s[j]
  BY DEF SetToSeqs
<1>3. IsFiniteSet(1 .. N) /\ Cardinality(1 .. N) = N
  BY <1>1, FS_Interval
<1> HIDE DEF N
<1>4. s \in Injection(1 .. N, Keys)
  BY <1>2 DEF Injection, IsInjective
<1>5. s \in Surjection(1 .. N, Keys)
  BY <1>3, <1>4, KeysFinite, FS_Injection DEF N
<1>6. \A k \in Keys : \E i \in 1 .. N : s[i] = k
  BY <1>5 DEF Surjection
<1> QED  BY <1>1, <1>2, <1>6 DEF N

(* While all caches are large enough the fastest of them loses, and what   *)
(* the others weigh is 1 in sum.  No cache ever weighs less than nothing.  *)
LEMMA RobinhoodShares ==
  ASSUME NEW w \in RobinhoodWeights
  PROVE  /\ IsWeights(w)
         /\ \A k \in Keys : w.num[k] >= 0
         /\ (\A k \in Keys : limit[k] > MinSize) /\ limit \in [Keys -> Nat] => Fair(w)
<1> DEFINE valid == Cardinality({k \in Keys : limit[k] > MinSize})
           Loser(s) == CHOOSE i \in DOMAIN s :
                         limit[s[i]] >= MinSize /\ \A j \in 1 .. i - 1 : limit[s[j]] < MinSize
           Num(s, i) == IF i <= Loser(s) THEN 0 ELSE IF i = Len(s) THEN 2 ELSE 1
           At(s, k) == CHOOSE i \in DOMAIN s : s[i] = k
           Numbers(s) == [k \in Keys |-> Num(s, At(s, k))]
           N == Cardinality(Keys)
<1>1. PICK s \in SetToSeqs(Keys) : valid > 1 /\ w = [num |-> Numbers(s), den |-> valid]
  <2> DEFINE Sequences == IF valid > 1 THEN SetToSeqs(Keys) ELSE {}
  <2>1. RobinhoodWeights = {[num |-> Numbers(s), den |-> valid] : s \in Sequences}
    BY DEF RobinhoodWeights
  <2>2. PICK s \in Sequences : w = [num |-> Numbers(s), den |-> valid]
    <3> HIDE DEF Sequences, Numbers
    <3> QED  BY <2>1
  <2> QED  BY <2>2
<1>2. valid \in Nat
  BY KeysFinite, FS_Subset, FS_CardinalityType
<1>3. \A i : Num(s, i) \in Nat
  OBVIOUS
<1>4. w.num = Numbers(s) /\ w.den = valid
  BY <1>1
<1>5. IsWeights(w) /\ \A k \in Keys : w.num[k] >= 0
  <2> HIDE DEF Num, valid
  <2> QED  BY <1>1, <1>2, <1>3, <1>4 DEF IsWeights
<1>6. ASSUME \A k \in Keys : limit[k] > MinSize, limit \in [Keys -> Nat] PROVE Fair(w)
  <2>1. valid = N
    <3>1. {k \in Keys : limit[k] > MinSize} = Keys
      BY <1>6
    <3> QED  BY <3>1
  <2>2. /\ N \in Nat /\ N > 1
        /\ s \in [1 .. N -> Keys]
        /\ \A i, j \in 1 .. N : s[i] = s[j] => i = j
        /\ \A k \in Keys : \E i \in 1 .. N : s[i] = k
    BY <1>1, <2>1, Orders
  <2>3. Len(s) = N /\ DOMAIN s = 1 .. N
    BY <2>2
  <2>4. Loser(s) = 1
    <3>1. 1 \in 1 .. N /\ s[1] \in Keys /\ limit[s[1]] >= MinSize
      <4>1. 1 \in 1 .. N /\ s[1] \in Keys
        BY <2>2
      <4>2. limit[s[1]] \in Nat /\ limit[s[1]] > MinSize
        BY <1>6, <4>1
      <4> QED  BY <4>1, <4>2, SizeAssumption
    <3>2. \A i \in 1 .. N : limit[s[i]] >= MinSize /\ (\A j \in 1 .. i - 1 : limit[s[j]] < MinSize) => i = 1
      <4> SUFFICES ASSUME NEW i \in 1 .. N, \A j \in 1 .. i - 1 : limit[s[j]] < MinSize, i # 1
                   PROVE  FALSE
        OBVIOUS
      <4>1. 1 \in 1 .. i - 1
        BY <2>2
      <4>2. limit[s[1]] < MinSize
        BY <4>1
      <4> QED  BY <1>6, <3>1, <4>2, SizeAssumption
    <3>3. \A j \in 1 .. 1 - 1 : limit[s[j]] < MinSize
      OBVIOUS
    <3> QED  BY <2>3, <3>1, <3>2, <3>3
  <2>5. ASSUME NEW i \in 1 .. N PROVE At(s, s[i]) = i
    BY <2>2, <2>3
  <2> DEFINE ones == [k \in Keys |-> 1]
             g == [k \in Keys |-> IF k = s[N] THEN 2 ELSE 1]
             h == [k \in Keys |-> IF k = s[1] THEN 0 ELSE IF k = s[N] THEN 2 ELSE 1]
  <2>6. 1 \in 1 .. N /\ N \in 1 .. N /\ s[1] \in Keys /\ s[N] \in Keys /\ s[1] # s[N]
    BY <2>2
  <2>7. Numbers(s) = h
    <3>1. ASSUME NEW k \in Keys PROVE Numbers(s)[k] = h[k]
      <4>1. PICK i \in 1 .. N : k = s[i]
        BY <2>2
      <4>2. Numbers(s)[k] = Num(s, i)
        BY <2>5, <4>1
      <4> HIDE DEF At, Loser
      <4>3. Num(s, i) = IF i = 1 THEN 0 ELSE IF i = N THEN 2 ELSE 1
        BY <2>2, <2>3, <2>4
      <4>4. h[k] = IF i = 1 THEN 0 ELSE IF i = N THEN 2 ELSE 1
        BY <2>2, <2>6, <4>1
      <4> QED  BY <4>2, <4>3, <4>4
    <3>2. h = [k \in Keys |-> h[k]] /\ Numbers(s) = [k \in Keys |-> Numbers(s)[k]]
      OBVIOUS
    <3> HIDE DEF h, Numbers
    <3> QED  BY <3>1, <3>2
  <2>8. SumFunction(h) = N
    <3>1. ones \in [Keys -> Int] /\ g \in [Keys -> Int] /\ h \in [Keys -> Int]
      OBVIOUS
    <3>2. SumFunctionOnSet(ones, Keys) = 1 * N
      BY KeysFinite, SumConstant
    <3>3. SumFunction(ones) = N
      BY <2>2, <3>1, <3>2, SumOfKeys
    <3>4. /\ \A k \in Keys : k # s[N] => g[k] = ones[k]
          /\ \A k \in Keys : k # s[1] => h[k] = g[k]
          /\ ones[s[N]] = 1 /\ g[s[N]] = 2 /\ g[s[1]] = 1 /\ h[s[1]] = 0
      BY <2>6
    <3> HIDE DEF ones, g, h
    <3>5. SumFunction(g) = SumFunction(ones) - ones[s[N]] + g[s[N]]
      BY <2>6, <3>1, <3>4, ChangeOfSum
    <3>6. SumFunction(h) = SumFunction(g) - g[s[1]] + h[s[1]]
      BY <2>6, <3>1, <3>4, ChangeOfSum
    <3> QED  BY <2>2, <3>3, <3>4, <3>5, <3>6
  <2>9. w.den = N /\ SumFunction(w.num) = N
    BY <1>4, <2>1, <2>7, <2>8
  <2> QED  BY <1>5, <2>2, <2>9 DEF Fair
<1> QED  BY <1>5, <1>6

(* What the strategies plan with. *)
LEMMA WeightsType ==
  ASSUME NEW w \in Weights
  PROVE  IsWeights(w) /\ algorithm \in Weighted
<1>1. CASE algorithm = "crit_path"
  BY <1>1, CritPathFair DEF Weights, Weighted, Fair
<1>2. CASE algorithm = "crit_path_w_delta"
  BY <1>2, CritPathDeltaType DEF Weights, Weighted
<1>3. CASE algorithm = "latency"
  BY <1>3, LatencyFair DEF Weights, Weighted, Fair
<1>4. CASE algorithm = "hit_ratio"
  BY <1>4, HitRatioFair DEF Weights, Weighted, Fair
<1>5. CASE algorithm = "robinhood"
  BY <1>5, RobinhoodShares DEF Weights, Weighted
<1> QED  BY <1>1, <1>2, <1>3, <1>4, <1>5 DEF Weights

LEMMA WeightsPositive ==
  ASSUME NEW w \in Weights, algorithm \in Positive
  PROVE  /\ \A k \in Keys : w.num[k] >= 0
         /\ (algorithm = "robinhood" => \A k \in Keys : limit[k] > MinSize) /\ limit \in [Keys -> Nat]
              => Fair(w)
<1>1. CASE algorithm = "crit_path"
  BY <1>1, CritPathFair DEF Weights, Fair
<1>2. CASE algorithm = "latency"
  BY <1>2, LatencyFair DEF Weights, Fair
<1>3. CASE algorithm = "hit_ratio"
  BY <1>3, HitRatioFair DEF Weights, Fair
<1>4. CASE algorithm = "robinhood"
  BY <1>4, RobinhoodShares DEF Weights
<1> QED  BY <1>1, <1>2, <1>3, <1>4 DEF Positive, Weighted
-----------------------------------------------------------------------------
LimitsOK == limit \in [Keys -> Nat] /\ total \in Nat

(* The plan of a round. *)
Delta(w, fk) == [k \in Keys |-> Share(w, k) - Steal(k) + IF k = fk THEN Rest(w) ELSE 0]
Shares(w) == [k \in Keys |-> Share(w, k)]
Steals == [k \in Keys |-> Steal(k)]

LEMMA SharesType ==
  ASSUME LimitsOK, NEW w, IsWeights(w)
  PROVE  /\ Stolen = SumFunction(Steals) /\ Steals \in [Keys -> Nat] /\ Stolen \in Nat
         /\ SumFunction(limit) \in Int /\ ToGive = Stolen + (total - SumFunction(limit)) /\ ToGive \in Int
         /\ Shares(w) \in [Keys -> Int] /\ SumFunction(Shares(w)) \in Int
         /\ Remaining(w, Len(Order)) = ToGive - SumFunction(Shares(w))
<1>1. limit \in [Keys -> Int] /\ total \in Int
  BY DEF LimitsOK
<1>2. Steals \in [Keys -> Nat] /\ Stolen = SumFunction(Steals)
  BY StealType DEF LimitsOK, Steals, Stolen
<1>3. Stolen \in Nat
  <2>1. SumFunctionOnSet(Steals, Keys) \in Nat
    BY <1>2, KeysFinite, SumNonNegative
  <2> QED  BY <1>2, <2>1, SumOfKeys
<1>4. SumFunction(limit) \in Int
  BY <1>1, SumOfKeys
<1>5. ToGive = Stolen + (total - SumFunction(limit)) /\ ToGive \in Int
  BY <1>1, <1>3, <1>4 DEF ToGive
<1>6. ASSUME NEW k \in Keys PROVE Share(w, k) \in Int
  <2>1. w.num[k] \in Int /\ w.den \in Nat \ {0}
    BY DEF IsWeights
  <2>2. w.num[k] * ToGive \in Int
    BY <1>5, <2>1
  <2> DEFINE p == w.num[k] * ToGive
  <2>3. Share(w, k) = IF p >= 0 THEN p \div w.den ELSE -((-p) \div w.den)
    BY DEF Share
  <2> HIDE DEF p
  <2>4. p \in Int
    BY <2>2 DEF p
  <2>5. p \div w.den \in Int /\ (-p) \div w.den \in Int
    BY <2>1, <2>4
  <2> QED  BY <2>3, <2>5
<1>7. Shares(w) \in [Keys -> Int]
  BY <1>6 DEF Shares
<1>8. Remaining(w, Len(Order)) = ToGive - SumFunctionOnSet(Shares(w), Keys)
  BY OrderOfKeys DEF Remaining, Shares
<1> QED  BY <1>2, <1>3, <1>4, <1>5, <1>7, <1>8, SumOfKeys

(* A round that is not OVERALLOCATED plans limits that add up to the total. *)
LEMMA PlanAddsUp ==
  ASSUME LimitsOK, NEW w, IsWeights(w), NEW fk \in Keys, ~Overallocated(w)
  PROVE  /\ Delta(w, fk) \in [Keys -> Int] /\ Rest(w) \in Nat
         /\ SumFunction([k \in Keys |-> limit[k] + Delta(w, fk)[k]]) = total
<1> DEFINE rest == [k \in Keys |-> IF k = fk THEN Rest(w) ELSE 0]
           none == [k \in Keys |-> 0]
           left == [k \in Keys |-> limit[k] - Steal(k)]
           given == [k \in Keys |-> Share(w, k) + rest[k]]
           plan == [k \in Keys |-> limit[k] + Delta(w, fk)[k]]
<1>1. /\ Stolen = SumFunction(Steals) /\ Steals \in [Keys -> Nat] /\ Stolen \in Nat
      /\ SumFunction(limit) \in Int /\ ToGive = Stolen + (total - SumFunction(limit))
      /\ Shares(w) \in [Keys -> Int] /\ SumFunction(Shares(w)) \in Int
      /\ Remaining(w, Len(Order)) = ToGive - SumFunction(Shares(w))
      /\ limit \in [Keys -> Nat] /\ total \in Nat /\ ToGive \in Int
  BY SharesType DEF LimitsOK
<1>2. Remaining(w, Len(Order)) >= 0 /\ Remaining(w, Len(Order)) \in Int
  <2>1. Len(Order) \in 1 .. Len(Order)
    BY OrderOfKeys
  <2>2. Remaining(w, Len(Order)) \in Int
    BY <1>1
  <2>3. ~(Remaining(w, Len(Order)) < 0)
    BY <2>1 DEF Overallocated
  <2> QED  BY <2>2, <2>3
<1>3. Rest(w) = ToGive - SumFunction(Shares(w)) /\ Rest(w) \in Nat
  BY <1>1, <1>2, SMTT(30) DEF Rest
<1>4. \A k \in Keys : Share(w, k) \in Int /\ Steal(k) \in Nat /\ limit[k] \in Nat /\ rest[k] \in Nat
  BY <1>1, <1>3 DEF Shares, Steals
<1>5. SumFunctionOnSet(rest, Keys) = Rest(w)
  <2>1. SumFunction(none) = 0
    <3>1. SumFunctionOnSet(none, Keys) = 0 * Cardinality(Keys) /\ Cardinality(Keys) \in Nat
      <4>1. \A k \in Keys : none[k] = 0
        OBVIOUS
      <4> HIDE DEF none
      <4> QED  BY <4>1, KeysFinite, SumConstant, FS_CardinalityType
    <3>2. none \in [Keys -> Int]
      OBVIOUS
    <3> HIDE DEF none
    <3> QED  BY <3>1, <3>2, SumOfKeys
  <2>2. /\ none \in [Keys -> Int] /\ rest \in [Keys -> Int] /\ none[fk] = 0 /\ rest[fk] = Rest(w)
        /\ \A k \in Keys : k # fk => rest[k] = none[k]
    BY <1>3
  <2> HIDE DEF none, rest
  <2>3. SumFunction(rest) = SumFunction(none) - none[fk] + rest[fk]
    BY <2>2, ChangeOfSum
  <2>4. SumFunction(rest) = SumFunctionOnSet(rest, Keys)
    BY <2>2, SumOfKeys
  <2> QED  BY <1>3, <2>1, <2>2, <2>3, <2>4
<1>6. SumFunctionOnSet(limit, Keys) = SumFunctionOnSet(left, Keys) + SumFunctionOnSet(Steals, Keys)
  <2>1. \A k \in Keys : left[k] \in Int /\ Steals[k] \in Int /\ limit[k] = left[k] + Steals[k]
    BY <1>4 DEF Steals
  <2> HIDE DEF left
  <2> QED  BY <2>1, KeysFinite, SumAdd
<1>7. SumFunctionOnSet(given, Keys) = SumFunctionOnSet(Shares(w), Keys) + SumFunctionOnSet(rest, Keys)
  <2>1. \A k \in Keys : Shares(w)[k] \in Int /\ rest[k] \in Int /\ given[k] = Shares(w)[k] + rest[k]
    BY <1>4 DEF Shares
  <2> HIDE DEF given, rest
  <2> QED  BY <2>1, KeysFinite, SumAdd
<1>8. SumFunctionOnSet(plan, Keys) = SumFunctionOnSet(left, Keys) + SumFunctionOnSet(given, Keys)
  <2>1. \A k \in Keys : left[k] \in Int /\ given[k] \in Int /\ plan[k] = left[k] + given[k]
    BY <1>4 DEF Delta
  <2> HIDE DEF plan, left, given
  <2> QED  BY <2>1, KeysFinite, SumAdd
<1>9. Delta(w, fk) \in [Keys -> Int] /\ plan \in [Keys -> Int] /\ left \in [Keys -> Int]
  BY <1>3, <1>4 DEF Delta
<1>10. SumFunction(plan) = total
  <2> HIDE DEF plan, left, given, rest
  <2>1. /\ SumFunction(plan) = SumFunctionOnSet(plan, Keys)
        /\ SumFunction(limit) = SumFunctionOnSet(limit, Keys)
        /\ SumFunction(Steals) = SumFunctionOnSet(Steals, Keys)
        /\ SumFunction(Shares(w)) = SumFunctionOnSet(Shares(w), Keys)
    BY DEF SumFunction, Steals, Shares, plan, LimitsOK
  <2>2. SumFunctionOnSet(left, Keys) \in Int
    BY <1>9, SumOfKeys
  <2>3. /\ Stolen \in Int /\ ToGive \in Int /\ total \in Int /\ SumFunction(limit) \in Int
        /\ SumFunction(Shares(w)) \in Int
        /\ Stolen = SumFunction(Steals) /\ ToGive = Stolen + (total - SumFunction(limit))
    BY <1>1
  <2>4. SumFunction(plan) = SumFunctionOnSet(left, Keys) + ToGive
    BY <1>3, <1>5, <1>7, <1>8, <2>1, <2>2, <2>3
  <2> QED  BY <1>6, <2>1, <2>2, <2>3, <2>4
<1> QED  BY <1>3, <1>9, <1>10

(* With positive weights nothing is given but what there is to give. *)
LEMMA SharesPositive ==
  ASSUME LimitsOK, NEW w, IsWeights(w), \A k \in Keys : w.num[k] >= 0, ToGive >= 0, NEW k \in Keys
  PROVE  Share(w, k) \in Nat /\ Share(w, k) * w.den <= w.num[k] * ToGive
<1>1. w.num[k] \in Nat /\ w.den \in Nat \ {0} /\ ToGive \in Nat
  BY SharesType DEF IsWeights
<1> DEFINE p == w.num[k] * ToGive
           q == p \div w.den
<1>2. p \in Nat
  BY <1>1
<1> HIDE DEF p
<1>3. q \in Nat /\ q * w.den <= p
  BY <1>1, <1>2
<1>4. Share(w, k) = q
  BY <1>2 DEF Share, p
<1> QED  BY <1>3, <1>4 DEF p

LEMMA FairNeverOverallocated ==
  ASSUME LimitsOK, NEW w, Fair(w), ToGive >= 0
  PROVE  ~Overallocated(w)
<1>1. IsWeights(w) /\ (\A k \in Keys : w.num[k] >= 0) /\ SumFunction(w.num) <= w.den
  BY DEF Fair
<1>2. w.num \in [Keys -> Int] /\ w.den \in Nat \ {0} /\ ToGive \in Nat
  BY <1>1, SharesType DEF IsWeights
<1>3. \A k \in Keys : Share(w, k) \in Nat /\ Share(w, k) * w.den <= w.num[k] * ToGive
  BY <1>1, SharesPositive
<1> DEFINE scaled == [k \in Keys |-> w.den * Share(w, k)]
           worth == [k \in Keys |-> ToGive * w.num[k]]
           sum == SumFunctionOnSet(Shares(w), Keys)
<1>4. SumFunctionOnSet(scaled, Keys) = w.den * sum
  <2>1. \A k \in Keys : Shares(w)[k] \in Int /\ scaled[k] = w.den * Shares(w)[k]
    BY <1>3 DEF Shares
  <2> HIDE DEF scaled
  <2> QED  BY <1>2, <2>1, KeysFinite, SumScale
<1>5. SumFunctionOnSet(worth, Keys) = ToGive * SumFunctionOnSet(w.num, Keys)
  <2>1. \A k \in Keys : w.num[k] \in Int /\ worth[k] = ToGive * w.num[k]
    BY <1>2
  <2> HIDE DEF worth
  <2> QED  BY <1>2, <2>1, KeysFinite, SumScale
<1>6. SumFunctionOnSet(scaled, Keys) <= SumFunctionOnSet(worth, Keys)
  <2>1. \A k \in Keys : scaled[k] \in Int /\ worth[k] \in Int /\ scaled[k] <= worth[k]
    <3> SUFFICES ASSUME NEW k \in Keys
                 PROVE  scaled[k] \in Int /\ worth[k] \in Int /\ scaled[k] <= worth[k]
      OBVIOUS
    <3>1. Share(w, k) \in Int /\ w.num[k] \in Int /\ w.den \in Int /\ ToGive \in Int
      BY <1>2, <1>3
    <3>2. Share(w, k) * w.den <= w.num[k] * ToGive
      BY <1>3
    <3>3. scaled[k] = w.den * Share(w, k) /\ worth[k] = ToGive * w.num[k]
      OBVIOUS
    <3> HIDE DEF scaled, worth
    <3> QED  BY <3>1, <3>2, <3>3
  <2> HIDE DEF scaled, worth
  <2> QED  BY <2>1, KeysFinite, SumCompare
<1>7. \A k \in Keys : Shares(w)[k] \in Int /\ Shares(w)[k] >= 0
  BY <1>3 DEF Shares
<1>8. sum \in Nat
  BY <1>7, KeysFinite, SumNonNegative
<1>9. SumFunctionOnSet(w.num, Keys) \in Int /\ SumFunctionOnSet(w.num, Keys) <= w.den
  BY <1>1, <1>2, SumOfKeys
<1>10. sum <= ToGive
  <2> DEFINE n == SumFunctionOnSet(w.num, Keys)
  <2> HIDE DEF scaled, worth, sum, n
  <2>1. w.den * sum <= ToGive * n
    BY <1>4, <1>5, <1>6 DEF n
  <2>2. ToGive * n <= ToGive * w.den
    BY <1>2, <1>9 DEF n
  <2>3. n \in Int
    BY <1>9 DEF n
  <2>4. w.den * sum <= w.den * ToGive
    BY <1>2, <1>8, <2>1, <2>2, <2>3
  <2> QED  BY <1>2, <1>8, <2>4
<1>11. ASSUME NEW m \in 1 .. Len(Order) PROVE Remaining(w, m) >= 0
  <2> DEFINE S == {Order[i] : i \in 1 .. m}
  <2>1. S \in SUBSET Keys
    BY OrderOfKeys
  <2>2. SumFunctionOnSet(Shares(w), S) <= sum /\ SumFunctionOnSet(Shares(w), S) \in Int
    <3> HIDE DEF S
    <3>1. \A k \in Keys \ S : Shares(w)[k] >= 0
      BY <1>7
    <3>2. Shares(w) \in [Keys -> Int]
      BY <1>3 DEF Shares
    <3> QED  BY <1>7, <2>1, <3>1, <3>2, KeysFinite, SumSubset, SumOfKeys
  <2>3. Remaining(w, m) = ToGive - SumFunctionOnSet(Shares(w), S)
    BY DEF Remaining, Shares
  <2> HIDE DEF sum, S
  <2> QED  BY <1>2, <1>8, <1>10, <2>2, <2>3
<1>12. \A m \in 1 .. Len(Order) : ~(Remaining(w, m) < 0)
  <2> SUFFICES ASSUME NEW m \in 1 .. Len(Order) PROVE ~(Remaining(w, m) < 0)
    OBVIOUS
  <2>1. Remaining(w, m) >= 0
    BY <1>11
  <2>2. Remaining(w, m) \in Int
    <3>1. {Order[i] : i \in 1 .. m} \in SUBSET Keys /\ Shares(w) \in [Keys -> Int]
      BY <1>3, OrderOfKeys DEF Shares
    <3>2. SumFunctionOnSet(Shares(w), {Order[i] : i \in 1 .. m}) \in Int
      BY <3>1, SumOfKeys
    <3> QED  BY <1>2, <3>2 DEF Remaining, Shares
  <2> QED  BY <2>1, <2>2
<1> QED  BY <1>12 DEF Overallocated
-----------------------------------------------------------------------------
(* The limits that the stages of offline_opt have come to. *)
LEMMA NoStageYet == \A k \in Keys : LimitOfStage(k, 0) = CacheSize[k]
BY DEF LimitOfStage

LEMMA NextStageLimit ==
  ASSUME NEW k \in Keys, NEW p \in 1 .. Len(Specs)
  PROVE  LimitOfStage(k, p) = IF k \in DOMAIN Specs[p] THEN Specs[p][k] ELSE LimitOfStage(k, p - 1)
<1> DEFINE naming(q) == {i \in 1 .. q : k \in DOMAIN Specs[i]}
<1>1. p \in Nat /\ p >= 1
  BY SpecAssumption
<1>2. CASE k \in DOMAIN Specs[p]
  <2>1. p \in naming(p) /\ \A i \in naming(p) : i \in Int /\ i <= p
    BY <1>1, <1>2
  <2>2. Max(naming(p)) = p
    <3>1. \E x \in naming(p) : \A y \in naming(p) : x >= y
      BY <1>1, <2>1
    <3>2. Max(naming(p)) \in naming(p) /\ \A y \in naming(p) : Max(naming(p)) >= y
      BY <3>1 DEF Max
    <3> QED  BY <1>1, <2>1, <3>2
  <2> QED  BY <1>2, <2>1, <2>2 DEF LimitOfStage
<1>3. CASE k \notin DOMAIN Specs[p]
  <2>1. naming(p) = naming(p - 1)
    BY <1>1, <1>3
  <2> QED  BY <1>3, <2>1 DEF LimitOfStage
<1> QED  BY <1>2, <1>3

LEMMA InitIInv == Init => IInv
<1> SUFFICES ASSUME Init PROVE IInv
  OBVIOUS
<1> USE DEF Init
<1>1. TypeOK
  <2>1. 0 \in 0 .. MaxDepth /\ 0 \in 0 .. MaxOver /\ 0 \in 0 .. Attempts
    BY DepthAssumption, BoundAssumption
  <2>2. Len(Stages) \in Nat /\ Len(Specs) \in Nat
    BY StageAssumption, SpecAssumption
  <2>3. 0 \in 0 .. Len(Stages) + Len(Specs)
    BY <2>2
  <2>4. CacheSize \in [Keys -> Nat] /\ 0 \in Int
    BY SizeAssumption
  <2> QED  BY <2>1, <2>3, <2>4 DEF TypeOK
<1>2. Phases
  BY DepthAssumption DEF Phases, Idle
<1>3. SafeDeltas /\ Balanced /\ Covered /\ Staged
  BY DEF SafeDeltas, Balanced, Covered, Staged
<1>4. StagesKept
  BY NoStageYet DEF StagesKept
<1> QED  BY <1>1, <1>2, <1>3, <1>4 DEF IInv

LEMMA TypeOKLimits == TypeOK => LimitsOK
BY DEF TypeOK, LimitsOK

(* What Reallocate plans. *)
LEMMA RoundPlanned ==
  ASSUME TypeOK, Reallocate
  PROVE  \E w \in Weights, fk \in Keys :
           /\ ~Overallocated(w) /\ IsWeights(w) /\ algorithm \in Weighted
           /\ delta' = Delta(w, fk) /\ delta' \in [Keys -> Int]
           /\ Rest(w) \in Nat
           /\ SumFunction([k \in Keys |-> limit[k] + delta'[k]]) = total
           /\ \A k \in Keys : thread'[k] = IF Acceptable(k, delta'[k]) THEN "set" ELSE "done"
           /\ thread' \in [Keys -> {"set", "done"}]
           /\ missed' = {k \in Keys : ~Acceptable(k, delta'[k])}
<1>1. PICK w \in Weights, fk \in Keys :
        LET d == [k \in Keys |-> Share(w, k) - Steal(k) + IF k = fk THEN Rest(w) ELSE 0]
            good == {k \in Keys : Acceptable(k, d[k])}
        IN /\ ~Overallocated(w)
           /\ delta' = d
           /\ thread' = [k \in Keys |-> IF k \in good THEN "set" ELSE "done"]
           /\ missed' = Keys \ good
  BY DEF Reallocate
<1>2. delta' = Delta(w, fk)
  BY <1>1 DEF Delta
<1>3. ~Overallocated(w) /\ IsWeights(w) /\ algorithm \in Weighted
  BY <1>1, WeightsType
<1>4. /\ delta' \in [Keys -> Int] /\ Rest(w) \in Nat
      /\ SumFunction([k \in Keys |-> limit[k] + delta'[k]]) = total
  BY <1>2, <1>3, PlanAddsUp, TypeOKLimits
<1>5. \E good \in SUBSET Keys :
        /\ good = {k \in Keys : Acceptable(k, delta'[k])}
        /\ thread' = [k \in Keys |-> IF k \in good THEN "set" ELSE "done"]
        /\ missed' = Keys \ good
  BY <1>1
<1>6. /\ \A k \in Keys : thread'[k] = IF Acceptable(k, delta'[k]) THEN "set" ELSE "done"
      /\ thread' \in [Keys -> {"set", "done"}]
      /\ missed' = {k \in Keys : ~Acceptable(k, delta'[k])}
  BY <1>5
<1> QED  BY <1>2, <1>3, <1>4, <1>6

(* What a thread does to a cache whose limit is set. *)
LEMMA EvictEffect ==
  ASSUME TypeOK, NEW k \in Keys, Evict(k)
  PROVE  /\ over' \in [Keys -> 0 .. MaxOver] /\ attempts' \in [Keys -> 0 .. Attempts]
         /\ thread' \in [Keys -> {"set", "evict", "done"}]
         /\ thread[k] = "evict" /\ thread'[k] # "set"
         /\ \A j \in Keys \ {k} : thread'[j] = thread[j]
         /\ UNCHANGED <<algorithm, limit, total, pc, delta, stageVars, depth, missed, aborted>>
<1>1. /\ over \in [Keys -> 0 .. MaxOver] /\ attempts \in [Keys -> 0 .. Attempts]
      /\ over[k] \in 0 .. MaxOver /\ attempts[k] \in 0 .. Attempts
      /\ MaxOver \in Nat /\ Attempts \in Nat
      /\ thread \in [Keys -> {"set", "evict", "done"}]
  BY BoundAssumption DEF TypeOK
<1>2. CASE FreePage(k)
  <2>1. over[k] - 1 \in 0 .. MaxOver /\ over' = [over EXCEPT ![k] = over[k] - 1]
    BY <1>1, <1>2 DEF FreePage
  <2>2. over' \in [Keys -> 0 .. MaxOver]
    BY <1>1, <2>1
  <2> QED  BY <1>1, <1>2, <2>2 DEF FreePage, roundVars
<1>3. CASE FreeFails(k)
  <2>1. PICK spent \in {1, 5, 10} :
          attempts' = [attempts EXCEPT ![k] = IF attempts[k] > spent THEN attempts[k] - spent ELSE 0]
    BY <1>3 DEF FreeFails
  <2>2. (IF attempts[k] > spent THEN attempts[k] - spent ELSE 0) \in 0 .. Attempts
    BY <1>1
  <2>3. attempts' \in [Keys -> 0 .. Attempts]
    BY <1>1, <2>1, <2>2
  <2> QED  BY <1>1, <1>3, <2>3 DEF FreeFails, cacheVars
<1>4. CASE EvictionEnds(k)
  <2>1. thread[k] = "evict" /\ thread' = [thread EXCEPT ![k] = "done"]
        /\ attempts' = [attempts EXCEPT ![k] = 0] /\ 0 \in 0 .. Attempts
    BY <1>1, <1>4 DEF EvictionEnds
  <2>2. attempts' \in [Keys -> 0 .. Attempts]
    BY <1>1, <2>1
  <2> QED  BY <1>1, <1>4, <2>1, <2>2 DEF EvictionEnds, cacheVars
<1> QED  BY <1>2, <1>3, <1>4 DEF Evict

LEMMA ThreadFailsEffect ==
  ASSUME TypeOK, NEW k \in Keys, ThreadFails(k)
  PROVE  /\ attempts' \in [Keys -> 0 .. Attempts] /\ pc = "enforce"
         /\ thread' \in [Keys -> {"set", "evict", "done"}]
         /\ thread'[k] = "done" /\ \A j \in Keys \ {k} : thread'[j] = thread[j]
         /\ missed' \subseteq Keys
         /\ \A j \in Keys : j \in missed' <=> j \in missed \/ (j = k /\ thread[k] = "set")
         /\ UNCHANGED <<algorithm, cacheVars, total, pc, delta, stageVars, depth, aborted>>
<1>1. /\ attempts \in [Keys -> 0 .. Attempts] /\ 0 \in 0 .. Attempts
      /\ thread \in [Keys -> {"set", "evict", "done"}] /\ missed \subseteq Keys
  BY BoundAssumption DEF TypeOK
<1>2. attempts' \in [Keys -> 0 .. Attempts]
  BY <1>1 DEF ThreadFails
<1>3. /\ thread' \in [Keys -> {"set", "evict", "done"}]
      /\ thread'[k] = "done" /\ \A j \in Keys \ {k} : thread'[j] = thread[j]
  BY <1>1 DEF ThreadFails
<1>4. /\ missed' \subseteq Keys
      /\ \A j \in Keys : j \in missed' <=> j \in missed \/ (j = k /\ thread[k] = "set")
  BY <1>1 DEF ThreadFails
<1> QED  BY <1>2, <1>3, <1>4 DEF ThreadFails

(* What a thread does to the limit. *)
LEMMA SetLimitEffect ==
  ASSUME TypeOK, SafeDeltas, NEW k \in Keys, SetLimit(k)
  PROVE  /\ limit' \in [Keys -> Nat] /\ thread[k] = "set"
         /\ limit'[k] = limit[k] + delta[k] /\ \A j \in Keys \ {k} : limit'[j] = limit[j]
         /\ thread' \in [Keys -> {"set", "evict", "done"}]
         /\ thread'[k] # "set" /\ \A j \in Keys \ {k} : thread'[j] = thread[j]
         /\ UNCHANGED <<algorithm, total, pc, delta, stageVars, depth, missed, aborted>>
<1>1. /\ limit \in [Keys -> Nat] /\ delta[k] \in Int /\ limit[k] \in Nat
      /\ thread \in [Keys -> {"set", "evict", "done"}]
  BY DEF TypeOK
<1>2. thread[k] = "set" /\ limit' = [limit EXCEPT ![k] = limit[k] + delta[k]]
  BY DEF SetLimit
<1>3. limit[k] + delta[k] \in Nat
  BY <1>1, <1>2 DEF SafeDeltas
<1>4. /\ limit' \in [Keys -> Nat]
      /\ limit'[k] = limit[k] + delta[k] /\ \A j \in Keys \ {k} : limit'[j] = limit[j]
  BY <1>1, <1>2, <1>3
<1>5. /\ thread' \in [Keys -> {"set", "evict", "done"}]
      /\ thread'[k] # "set" /\ \A j \in Keys \ {k} : thread'[j] = thread[j]
  BY <1>1 DEF SetLimit
<1> QED  BY <1>2, <1>4, <1>5 DEF SetLimit

LEMMA TypeStep == IInv /\ [Next]_vars => TypeOK'
<1> SUFFICES ASSUME IInv, [Next]_vars PROVE TypeOK'
  OBVIOUS
<1> USE SizeAssumption, BoundAssumption
<1>0. TypeOK /\ Phases /\ SafeDeltas
  BY DEF IInv
<1>1. CASE ConnectFails
  <2>1. total' \in Nat
    <3>1. PICK n \in 0 .. Len(Order) : total' = total + SizeOfFirst(n)
      BY <1>1 DEF ConnectFails
    <3>2. SizeOfFirst(n) \in Nat
      BY SizeOfFirstType
    <3>3. total \in Nat
      BY <1>0 DEF TypeOK
    <3> QED  BY <3>1, <3>2, <3>3
  <2> QED  BY <1>0, <1>1, <2>1, SMTT(30) DEF ConnectFails, TypeOK, cacheVars, roundVars, stageVars
<1>2. CASE Connect
  <2>1. Len(Order) \in 0 .. Len(Order)
    BY OrderOfKeys
  <2>2. total' \in Nat
    BY <1>0, <1>2, <2>1, SizeOfFirstType, SMTT(30) DEF Connect, TypeOK
  <2> QED  BY <1>0, <1>2, <2>2 DEF Connect, TypeOK, cacheVars, roundVars, stageVars
<1>3. CASE Reallocate
  <2>1. /\ delta' \in [Keys -> Int] /\ thread' \in [Keys -> {"set", "done"}] /\ missed' \subseteq Keys
    BY <1>0, <1>3, RoundPlanned
  <2>2. /\ depth' = 0 /\ pc' = "enforce"
        /\ UNCHANGED <<algorithm, cacheVars, total, attempts, stageVars, aborted>>
    BY <1>3 DEF Reallocate
  <2> QED  BY <1>0, <2>1, <2>2, DepthAssumption, SMTT(30) DEF TypeOK, cacheVars, stageVars
<1>4. CASE Abort \/ NoReallocation
  <2>1. 0 \in 0 .. MaxDepth
    BY DepthAssumption
  <2> QED  BY <1>0, <1>4, <2>1 DEF Abort, NoReallocation, TypeOK, cacheVars, roundVars, stageVars
<1>5. CASE ReadFails
  <2>1. depth' \in 0 .. MaxDepth
    BY <1>0, <1>5, DepthAssumption DEF ReadFails, TypeOK, Phases
  <2> QED  BY <1>0, <1>5, <2>1 DEF ReadFails, TypeOK, cacheVars, roundVars, stageVars
<1>6. ASSUME NEW k \in Keys, SetLimit(k) PROVE TypeOK'
  <2>1. /\ limit' \in [Keys -> Nat] /\ thread' \in [Keys -> {"set", "evict", "done"}]
        /\ UNCHANGED <<algorithm, total, pc, delta, stageVars, depth, missed, aborted>>
    BY <1>0, <1>6, SetLimitEffect
  <2>2. over' \in [Keys -> 0 .. MaxOver]
    <3>1. over[k] \in 0 .. MaxOver /\ delta[k] \in Int /\ over \in [Keys -> 0 .. MaxOver]
      BY <1>0 DEF TypeOK
    <3>2. CASE delta[k] < 0
      <4>1. PICK n \in {0, -delta[k]} :
              over' = [over EXCEPT ![k] = IF @ + n < MaxOver THEN @ + n ELSE MaxOver]
        BY <1>6, <3>2 DEF SetLimit
      <4> QED  BY <3>1, <3>2, <4>1
    <3>3. CASE ~(delta[k] < 0)
      BY <1>6, <3>1, <3>3 DEF SetLimit
    <3> QED  BY <3>2, <3>3
  <2>3. attempts' \in [Keys -> 0 .. Attempts]
    BY <1>0, <1>6, SMTT(30) DEF SetLimit, TypeOK
  <2> QED  BY <1>0, <2>1, <2>2, <2>3 DEF TypeOK, stageVars
<1>7. ASSUME NEW k \in Keys, Evict(k) PROVE TypeOK'
  <2>1. /\ over' \in [Keys -> 0 .. MaxOver] /\ attempts' \in [Keys -> 0 .. Attempts]
        /\ thread' \in [Keys -> {"set", "evict", "done"}]
        /\ UNCHANGED <<algorithm, limit, total, pc, delta, stageVars, depth, missed, aborted>>
    BY <1>0, <1>7, EvictEffect
  <2> QED  BY <1>0, <2>1 DEF TypeOK, stageVars
<1>8. ASSUME NEW k \in Keys, ThreadFails(k) PROVE TypeOK'
  <2>1. /\ attempts' \in [Keys -> 0 .. Attempts] /\ thread' \in [Keys -> {"set", "evict", "done"}]
        /\ missed' \subseteq Keys
        /\ UNCHANGED <<algorithm, cacheVars, total, pc, delta, stageVars, depth, aborted>>
    BY <1>0, <1>8, ThreadFailsEffect
  <2> QED  BY <1>0, <2>1 DEF TypeOK, cacheVars, stageVars
<1>9. CASE Join
  BY <1>0, <1>9 DEF Join, TypeOK, cacheVars, stageVars
<1>10. CASE NextStage
  <2>1. Len(Stages) \in Nat /\ Len(Specs) \in Nat /\ ptr' \in 0 .. Len(Stages) + Len(Specs)
    BY <1>0, <1>10, StageAssumption, SpecAssumption, SMTT(30) DEF NextStage, TypeOK
  <2>2. ptr + 1 \in 1 .. Len(Stages)
    BY <1>0, <1>10, <2>1 DEF NextStage, TypeOK
  <2>3. total' \in Nat
    BY <1>10, <2>2, StageAssumption DEF NextStage
  <2> QED  BY <1>0, <1>10, <2>1, <2>3 DEF NextStage, TypeOK, cacheVars, roundVars
<1>11. CASE SameStage
  BY <1>0, <1>11 DEF SameStage, TypeOK, cacheVars, roundVars
<1>12. CASE OfflineStage
  <2>1. Len(Stages) \in Nat /\ Len(Specs) \in Nat /\ ptr' \in 0 .. Len(Stages) + Len(Specs)
    BY <1>0, <1>12, StageAssumption, SpecAssumption DEF OfflineStage, TypeOK
  <2>2. ptr + 1 \in 1 .. Len(Specs)
    BY <1>0, <1>12, <2>1 DEF OfflineStage, TypeOK
  <2>3. todo' \subseteq Keys
    BY <1>12, <2>2, SpecAssumption DEF OfflineStage
  <2> QED  BY <1>0, <1>12, <2>1, <2>3 DEF OfflineStage, TypeOK, cacheVars, roundVars
<1>13. ASSUME NEW k \in Keys, OfflineChange(k) PROVE TypeOK'
  <2>1. k \in DOMAIN Specs[ptr] /\ ptr \in 1 .. Len(Specs)
    BY <1>0, <1>13 DEF OfflineChange, Phases, IInv, Staged
  <2>2. Specs[ptr][k] \in Nat
    BY <2>1, SpecAssumption
  <2>3. delta' \in [Keys -> Int]
    BY <1>0, <1>13, <2>2, SMTT(30) DEF OfflineChange, TypeOK
  <2> QED  BY <1>0, <1>13, <2>3 DEF OfflineChange, TypeOK, cacheVars
<1>14. CASE OfflineEnds
  BY <1>0, <1>14 DEF OfflineEnds, TypeOK, cacheVars, stageVars
<1>15. CASE OfflineFails
  BY <1>0, <1>15 DEF OfflineFails, TypeOK, cacheVars, stageVars
<1>16. CASE UNCHANGED vars
  BY <1>0, <1>16 DEF TypeOK, vars, cacheVars, roundVars, stageVars
<1> QED
  BY <1>1, <1>2, <1>3, <1>4, <1>5, <1>6, <1>7, <1>8, <1>9, <1>10, <1>11, <1>12, <1>13, <1>14, <1>15, <1>16
  DEF Next, Stage, Offline

LEMMA WeightsWeighted == (\E w \in Weights : TRUE) => algorithm \in Weighted
BY DEF Weights, Weighted

(* A thread that is not done is one of the round or of the stage. *)
LEMMA BusyPhase ==
  ASSUME Phases, NEW k \in Keys, thread[k] # "done"
  PROVE  pc \in {"enforce", "offline"}
BY DEF Phases, Idle

LEMMA PhasesStep == IInv /\ [Next]_vars => Phases'
<1> SUFFICES ASSUME IInv, [Next]_vars PROVE Phases'
  OBVIOUS
<1>0. TypeOK /\ Phases /\ SafeDeltas
  BY DEF IInv
<1> USE DEF Phases, Idle
<1>1. CASE ConnectFails
  BY <1>0, <1>1 DEF ConnectFails, cacheVars, roundVars, stageVars
<1>2. CASE Connect
  BY <1>0, <1>2 DEF Connect, cacheVars, roundVars, stageVars
<1>3. CASE Reallocate
  <2>1. algorithm \in Weighted
    BY <1>0, <1>3, RoundPlanned
  <2> QED  BY <1>0, <1>3, <2>1, DepthAssumption DEF Reallocate
<1>4. CASE Abort
  <2>1. algorithm \in Weighted
    BY <1>4, WeightsWeighted DEF Abort
  <2> QED  BY <1>0, <1>4, <2>1, DepthAssumption DEF Abort, roundVars
<1>5. CASE NoReallocation
  BY <1>0, <1>5, DepthAssumption DEF NoReallocation, roundVars
<1>6. CASE ReadFails
  <2>1. depth \in 0 .. MaxDepth /\ depth < MaxDepth /\ MaxDepth \in Nat
    BY <1>0, <1>6, DepthAssumption DEF TypeOK, ReadFails
  <2>2. depth' = depth + 1 /\ (depth' = MaxDepth \/ depth' < MaxDepth)
    BY <1>6, <2>1 DEF ReadFails
  <2> QED  BY <1>0, <1>6, <2>2 DEF ReadFails, roundVars
<1>7. ASSUME NEW k \in Keys, SetLimit(k) PROVE Phases'
  <2>1. /\ thread[k] = "set"
        /\ UNCHANGED <<algorithm, total, pc, delta, stageVars, depth, missed, aborted>>
    BY <1>0, <1>7, SetLimitEffect
  <2>2. pc \in {"enforce", "offline"}
    BY <1>0, <2>1, BusyPhase
  <2> QED  BY <1>0, <2>1, <2>2 DEF stageVars
<1>8. ASSUME NEW k \in Keys, Evict(k) PROVE Phases'
  <2>1. /\ thread[k] = "evict"
        /\ UNCHANGED <<algorithm, limit, total, pc, delta, stageVars, depth, missed, aborted>>
    BY <1>0, <1>8, EvictEffect
  <2>2. pc \in {"enforce", "offline"}
    BY <1>0, <2>1, BusyPhase
  <2> QED  BY <1>0, <2>1, <2>2 DEF stageVars
<1>9. ASSUME NEW k \in Keys, ThreadFails(k) PROVE Phases'
  BY <1>0, <1>9 DEF ThreadFails, stageVars
<1>10. CASE Join
  BY <1>0, <1>10 DEF Join, stageVars
<1>11. CASE Stage
  BY <1>0, <1>11 DEF Stage, NextStage, SameStage, roundVars
<1>12. CASE OfflineStage
  <2>1. ptr \in Int /\ ptr >= 0 /\ Len(Specs) \in Nat /\ ptr < Len(Specs) /\ ptr' = ptr + 1
    BY <1>0, <1>12, SpecAssumption DEF OfflineStage, TypeOK
  <2>2. ptr' \in 1 .. Len(Specs)
    BY <2>1
  <2> QED  BY <1>0, <1>12, <2>2 DEF OfflineStage
<1>13. ASSUME NEW k \in Keys, OfflineChange(k) PROVE Phases'
  BY <1>0, <1>13 DEF OfflineChange
<1>14. CASE OfflineEnds
  BY <1>0, <1>14 DEF OfflineEnds, stageVars
<1>15. CASE OfflineFails
  BY <1>0, <1>15 DEF OfflineFails, stageVars
<1>16. CASE UNCHANGED vars
  BY <1>0, <1>16 DEF vars, cacheVars, roundVars, stageVars
<1> QED
  BY <1>1, <1>2, <1>3, <1>4, <1>5, <1>6, <1>7, <1>8, <1>9, <1>10, <1>11, <1>12, <1>13, <1>14, <1>15, <1>16
  DEF Next, Offline

(* A round starts threads for acceptable deltas only, and no limit changes *)
(* while its thread has still to set it.                                   *)
LEMMA SafeDeltasStep == IInv /\ [Next]_vars => SafeDeltas'
<1> SUFFICES ASSUME IInv, [Next]_vars PROVE SafeDeltas'
  OBVIOUS
<1>0. TypeOK /\ Phases /\ SafeDeltas
  BY DEF IInv
<1>1. ASSUME \A k \in Keys : thread'[k] # "set" PROVE SafeDeltas'
  BY <1>1 DEF SafeDeltas
<1>2. ASSUME \A k \in Keys : thread'[k] = "set" =>
               thread[k] = "set" /\ limit'[k] = limit[k] /\ delta'[k] = delta[k],
             algorithm' = algorithm
      PROVE  SafeDeltas'
  BY <1>0, <1>2 DEF SafeDeltas, Acceptable
<1>3. CASE ConnectFails \/ Connect \/ Abort \/ NoReallocation \/ ReadFails \/ Stage \/ OfflineStage
  <2>1. pc \notin {"enforce", "offline"} /\ UNCHANGED thread
    BY <1>3 DEF ConnectFails, Connect, Abort, NoReallocation, ReadFails, Stage, NextStage, SameStage,
         OfflineStage, roundVars
  <2> QED  BY <1>0, <1>1, <2>1 DEF Phases, Idle
<1>4. CASE Reallocate
  <2>1. /\ delta' \in [Keys -> Int]
        /\ \A k \in Keys : thread'[k] = IF Acceptable(k, delta'[k]) THEN "set" ELSE "done"
    BY <1>0, <1>4, RoundPlanned
  <2>2. UNCHANGED <<algorithm, limit>>
    BY <1>4 DEF Reallocate, cacheVars
  <2>3. ASSUME NEW k \in Keys, thread'[k] = "set"
        PROVE  limit'[k] + delta'[k] >= 0 /\ (delta'[k] >= 0 \/ limit'[k] + delta'[k] > MinSize)
    <3>1. Acceptable(k, delta'[k]) /\ limit[k] \in Nat /\ delta'[k] \in Int /\ MinSize \in Nat
      BY <1>0, <2>1, <2>3, SizeAssumption DEF TypeOK
    <3> QED  BY <2>2, <3>1 DEF Acceptable
  <2> QED  BY <2>3 DEF SafeDeltas, Acceptable
<1>5. ASSUME NEW k \in Keys, SetLimit(k) PROVE SafeDeltas'
  BY <1>0, <1>2, <1>5, SetLimitEffect
<1>6. ASSUME NEW k \in Keys, Evict(k) PROVE SafeDeltas'
  BY <1>0, <1>2, <1>6, EvictEffect
<1>7. ASSUME NEW k \in Keys, ThreadFails(k) PROVE SafeDeltas'
  BY <1>0, <1>2, <1>7, ThreadFailsEffect DEF cacheVars
<1>8. CASE Join \/ OfflineEnds \/ OfflineFails
  BY <1>0, <1>1, <1>8 DEF Join, OfflineEnds, OfflineFails, Idle
<1>9. ASSUME NEW k \in Keys, OfflineChange(k) PROVE SafeDeltas'
  <2>1. k \in DOMAIN Specs[ptr] /\ ptr \in 1 .. Len(Specs) /\ algorithm = "offline_opt"
    BY <1>0, <1>9 DEF OfflineChange, Phases, IInv, Staged
  <2>2. Specs[ptr][k] \in Nat /\ limit[k] \in Nat
    BY <1>0, <2>1, SpecAssumption DEF TypeOK
  <2>3. /\ delta'[k] = Specs[ptr][k] - limit[k]
        /\ \A j \in Keys \ {k} : thread'[j] = "done"
        /\ UNCHANGED <<algorithm, limit>>
    BY <1>0, <1>9 DEF OfflineChange, TypeOK, Idle, cacheVars
  <2> QED  BY <2>1, <2>2, <2>3 DEF SafeDeltas, Weighted
<1>10. CASE UNCHANGED vars
  BY <1>0, <1>2, <1>10 DEF vars, cacheVars, roundVars
<1> QED
  BY <1>3, <1>4, <1>5, <1>6, <1>7, <1>8, <1>9, <1>10 DEF Next, Offline

(* What is planned adds up from the start, and setting a limit or missing  *)
(* it only moves it from what is planned to what is.                       *)
LEMMA BalancedStep == IInv /\ [Next]_vars => Balanced'
<1> SUFFICES ASSUME IInv, [Next]_vars, pc' = "enforce"
             PROVE  SumFunction(Planned') = total' /\ \A k \in missed' : thread'[k] # "set"
  BY DEF Balanced
<1>0. TypeOK /\ Phases /\ SafeDeltas /\ Balanced
  BY DEF IInv
<1>1. ASSUME pc = "enforce", UNCHANGED total,
             \A k \in Keys : Planned'[k] = Planned[k],
             \A k \in missed' : thread'[k] # "set"
      PROVE  SumFunction(Planned') = total' /\ \A k \in missed' : thread'[k] # "set"
  <2>1. Planned' = Planned
    BY <1>1 DEF Planned
  <2> QED  BY <1>0, <1>1, <2>1 DEF Balanced
<1>2. CASE Reallocate
  <2>1. /\ SumFunction([k \in Keys |-> limit[k] + delta'[k]]) = total
        /\ \A k \in Keys : thread'[k] = IF Acceptable(k, delta'[k]) THEN "set" ELSE "done"
        /\ missed' = {k \in Keys : ~Acceptable(k, delta'[k])}
    BY <1>0, <1>2, RoundPlanned
  <2>2. UNCHANGED <<limit, total>>
    BY <1>2 DEF Reallocate, cacheVars
  <2>3. \A k \in Keys : thread'[k] = "set" \/ k \in missed'
    BY <2>1
  <2>4. Planned' = [k \in Keys |-> limit[k] + delta'[k]]
    BY <2>2, <2>3 DEF Planned
  <2>5. \A k \in missed' : thread'[k] # "set"
    BY <2>1
  <2> QED  BY <2>1, <2>2, <2>4, <2>5
<1>3. ASSUME NEW k \in Keys, SetLimit(k)
      PROVE  SumFunction(Planned') = total' /\ \A j \in missed' : thread'[j] # "set"
  <2>1. /\ thread[k] = "set" /\ thread'[k] # "set" /\ limit'[k] = limit[k] + delta[k]
        /\ \A j \in Keys \ {k} : thread'[j] = thread[j] /\ limit'[j] = limit[j]
        /\ UNCHANGED <<total, pc, delta, missed>>
    BY <1>0, <1>3, SetLimitEffect
  <2>2. pc = "enforce" /\ \A j \in missed : thread[j] # "set"
    BY <1>0, <2>1 DEF Balanced
  <2>3. \A j \in Keys : Planned'[j] = Planned[j]
    BY <2>1, <2>2 DEF Planned
  <2>4. \A j \in missed' : thread'[j] # "set"
    BY <1>0, <2>1, <2>2 DEF TypeOK
  <2> QED  BY <1>1, <2>1, <2>2, <2>3, <2>4
<1>4. ASSUME NEW k \in Keys, Evict(k)
      PROVE  SumFunction(Planned') = total' /\ \A j \in missed' : thread'[j] # "set"
  <2>1. /\ thread[k] = "evict" /\ thread'[k] # "set"
        /\ \A j \in Keys \ {k} : thread'[j] = thread[j]
        /\ UNCHANGED <<limit, total, pc, delta, missed>>
    BY <1>0, <1>4, EvictEffect
  <2>2. pc = "enforce" /\ \A j \in missed : thread[j] # "set"
    BY <1>0, <2>1 DEF Balanced
  <2>3. \A j \in Keys : Planned'[j] = Planned[j]
    BY <2>1, <2>2 DEF Planned
  <2>4. \A j \in missed' : thread'[j] # "set"
    BY <1>0, <2>1, <2>2 DEF TypeOK
  <2> QED  BY <1>1, <2>1, <2>2, <2>3, <2>4
<1>5. ASSUME NEW k \in Keys, ThreadFails(k)
      PROVE  SumFunction(Planned') = total' /\ \A j \in missed' : thread'[j] # "set"
  <2>1. /\ thread'[k] = "done" /\ missed' \subseteq Keys
        /\ \A j \in Keys \ {k} : thread'[j] = thread[j]
        /\ \A j \in Keys : j \in missed' <=> j \in missed \/ (j = k /\ thread[k] = "set")
        /\ UNCHANGED <<limit, total, pc, delta>>
    BY <1>0, <1>5, ThreadFailsEffect DEF cacheVars
  <2>2. pc = "enforce" /\ \A j \in missed : thread[j] # "set"
    BY <1>0, <2>1 DEF Balanced
  <2>3. \A j \in Keys : Planned'[j] = Planned[j]
    BY <2>1, <2>2 DEF Planned
  <2>4. \A j \in missed' : thread'[j] # "set"
    BY <2>1, <2>2
  <2> QED  BY <1>1, <2>1, <2>2, <2>3, <2>4
<1>6. CASE UNCHANGED vars
  <2>1. UNCHANGED <<limit, total, pc, delta, thread, missed>>
    BY <1>6 DEF vars, cacheVars, roundVars
  <2> QED  BY <1>0, <2>1 DEF Balanced, Planned
<1>7. pc' # "enforce" \/ Reallocate \/ (\E k \in Keys : SetLimit(k) \/ Evict(k) \/ ThreadFails(k))
        \/ UNCHANGED vars
  BY DEF Next, Offline, Stage, ConnectFails, Connect, Abort, NoReallocation, ReadFails, Join, NextStage,
         SameStage, OfflineStage, OfflineChange, OfflineEnds, OfflineFails
<1> QED  BY <1>2, <1>3, <1>4, <1>5, <1>6, <1>7

(* Between rounds nothing is still to be set. *)
LEMMA IdleBound ==
  ASSUME TypeOK, Idle
  PROVE  /\ SumFunction(limit) \in Int /\ Stolen \in Int
         /\ SumFunction(Bound) = SumFunction(limit) - Stolen
         /\ \A t \in Int : SumFunction(Bound) <= t <=> ~Excess(t)
<1>1. \A k \in Keys : limit[k] \in Nat /\ Steal(k) \in Nat
  BY StealType DEF TypeOK
<1>2. SumFunction(limit) \in Int /\ Stolen \in Int /\ Stolen = SumFunction(Steals)
  <2>1. limit \in [Keys -> Int] /\ Steals \in [Keys -> Int]
    BY <1>1 DEF TypeOK, Steals
  <2> QED  BY <2>1, SumOfKeys DEF Stolen, Steals
<1>3. \A k \in Keys : Bound[k] \in Int /\ Steals[k] \in Int /\ limit[k] = Bound[k] + Steals[k]
  BY <1>1 DEF Bound, Steals, Idle
<1>4. SumFunctionOnSet(limit, Keys) = SumFunctionOnSet(Bound, Keys) + SumFunctionOnSet(Steals, Keys)
  BY <1>3, KeysFinite, SumAdd
<1>5. /\ SumFunction(limit) = SumFunctionOnSet(limit, Keys)
      /\ SumFunction(Steals) = SumFunctionOnSet(Steals, Keys)
      /\ SumFunction(Bound) = SumFunctionOnSet(Bound, Keys)
      /\ SumFunctionOnSet(Bound, Keys) \in Int
  <2>1. Bound \in [Keys -> Int]
    BY <1>3 DEF Bound
  <2> QED  BY <2>1, SumOfKeys DEF SumFunction, Steals, Bound, TypeOK
<1>6. SumFunction(Bound) = SumFunction(limit) - Stolen
  BY <1>2, <1>4, <1>5
<1> QED  BY <1>2, <1>6 DEF Excess

(* A step that raises no bound keeps to the total. *)
LEMMA BoundFalls ==
  ASSUME NEW f \in [Keys -> Int], NEW g \in [Keys -> Int], NEW t \in Int,
         \A k \in Keys : g[k] <= f[k], SumFunction(f) <= t
  PROVE  SumFunction(g) <= t
<1>1. SumFunctionOnSet(g, Keys) <= SumFunctionOnSet(f, Keys)
  <2>1. \A k \in Keys : g[k] \in Int /\ f[k] \in Int /\ g[k] <= f[k]
    OBVIOUS
  <2> QED  BY <2>1, KeysFinite, SumCompare
<1> QED  BY <1>1, SumOfKeys

LEMMA BoundType ==
  TypeOK =>
    /\ Bound \in [Keys -> Int]
    /\ \A k \in Keys : limit[k] \in Nat /\ delta[k] \in Int /\ Steal(k) \in Nat
<1> SUFFICES ASSUME TypeOK
             PROVE  /\ Bound \in [Keys -> Int]
                    /\ \A k \in Keys : limit[k] \in Nat /\ delta[k] \in Int /\ Steal(k) \in Nat
  OBVIOUS
<1>1. \A k \in Keys : limit[k] \in Nat /\ delta[k] \in Int /\ Steal(k) \in Nat
  BY StealType DEF TypeOK
<1> QED  BY <1>1 DEF Bound

(* With positive weights a round keeps of each cache at least what it      *)
(* cannot steal, if there is not less than nothing to give.                *)
LEMMA RoundKeeps ==
  ASSUME TypeOK, Reallocate, algorithm \in Positive, ToGive >= 0
  PROVE  \A k \in Keys : limit[k] - Steal(k) <= limit[k] + delta'[k]
<1>1. PICK w \in Weights, fk \in Keys :
        IsWeights(w) /\ delta' = Delta(w, fk) /\ Rest(w) \in Nat
  BY RoundPlanned
<1>2. \A k \in Keys : w.num[k] >= 0
  BY WeightsPositive, TypeOKLimits DEF Positive
<1> SUFFICES ASSUME NEW k \in Keys PROVE limit[k] - Steal(k) <= limit[k] + delta'[k]
  OBVIOUS
<1>3. Share(w, k) \in Nat
  BY <1>1, <1>2, SharesPositive, TypeOKLimits
<1>4. limit[k] \in Nat /\ Steal(k) \in Nat
  BY BoundType
<1>5. delta'[k] = Share(w, k) - Steal(k) + (IF k = fk THEN Rest(w) ELSE 0)
  BY <1>1 DEF Delta
<1> QED  BY <1>1, <1>3, <1>4, <1>5

(* What a round cannot steal stays within the total: a round plans no      *)
(* less, a thread that sets its limit or fails to leaves no more, and a    *)
(* stage that lowers the total too far is accounted for by short.          *)
LEMMA CoveredStep == IInv /\ [Next]_vars => Covered'
<1> DEFINE InTotal == /\ SumFunction(Bound) <= total
                      /\ \A k \in Keys : thread[k] = "set" => limit[k] - Steal(k) <= limit[k] + delta[k]
           Watched == pc \in {"sleep", "enforce", "stage"} /\ algorithm \in Positive
<1> SUFFICES ASSUME IInv, [Next]_vars, Watched', ~short' PROVE InTotal'
  BY DEF Covered
<1>0. TypeOK /\ Phases /\ SafeDeltas /\ Covered
  BY DEF IInv
<1>00. (/\ Bound \in [Keys -> Int]
        /\ \A k \in Keys : limit[k] \in Nat /\ delta[k] \in Int /\ Steal(k) \in Nat)'
  <2>1. TypeOK'
    BY TypeStep
  <2> QED  BY <2>1, BoundType, PTL
<1>1. Watched /\ ~short => InTotal
  BY <1>0 DEF Covered
<1>2. ASSUME UNCHANGED <<limit, delta, thread>> PROVE UNCHANGED Bound
  BY <1>2 DEF Bound, Steal
<1>3. ASSUME Watched, ~short, UNCHANGED <<limit, delta, thread, total>> PROVE InTotal'
  BY <1>1, <1>2, <1>3 DEF Steal
<1>4. ASSUME Watched, ~short, UNCHANGED total, \A k \in Keys : Bound'[k] <= Bound[k],
             \A k \in Keys : thread'[k] = "set" =>
               thread[k] = "set" /\ limit'[k] = limit[k] /\ delta'[k] = delta[k]
      PROVE  InTotal'
  <2>1. Bound \in [Keys -> Int] /\ Bound' \in [Keys -> Int] /\ total \in Int
    <3>1. Bound \in [Keys -> Int]
      BY <1>0, BoundType
    <3>2. Bound' \in [Keys -> Int]
      BY <1>00
    <3> QED  BY <1>0, <3>1, <3>2 DEF TypeOK
  <2>2. SumFunction(Bound') <= total
    BY <1>1, <1>4, <2>1, BoundFalls
  <2>3. \A k \in Keys : thread'[k] = "set" => (limit[k] - Steal(k) <= limit[k] + delta[k])'
    BY <1>1, <1>4 DEF Steal
  <2> QED  BY <1>4, <2>2, <2>3
<1>5. ASSUME UNCHANGED thread, Idle PROVE \A k \in Keys : thread'[k] # "set"
  BY <1>5 DEF Idle
<1>6. CASE Connect
  <2>1. /\ limit = CacheSize /\ Idle /\ UNCHANGED <<limit, delta, thread>>
        /\ total' = total + SizeOfFirst(Len(Order)) /\ total \in Nat
    BY <1>0, <1>6 DEF Connect, Phases, TypeOK, cacheVars, roundVars
  <2>2. SizeOfFirst(Len(Order)) = SumFunction(limit)
    BY <2>1, OrderOfKeys, SizeAssumption DEF SizeOfFirst, SumFunction
  <2>3. SumFunction(Bound) = SumFunction(limit) - Stolen /\ SumFunction(limit) \in Int /\ Stolen \in Nat
    <3>1. Stolen \in Nat
      <4>1. \A k \in Keys : Steals[k] \in Int /\ Steals[k] >= 0
        BY <1>0, BoundType DEF Steals
      <4>2. SumFunctionOnSet(Steals, Keys) \in Nat
        BY <4>1, KeysFinite, SumNonNegative
      <4> QED  BY <4>2 DEF Stolen, Steals, SumFunction
    <3> QED  BY <1>0, <2>1, <3>1, IdleBound
  <2>4. SumFunction(Bound) <= total'
    BY <2>1, <2>2, <2>3
  <2> QED  BY <1>2, <1>5, <2>1, <2>4
<1>7. CASE Reallocate
  <2>1. /\ pc = "sleep" /\ Idle /\ UNCHANGED <<algorithm, limit, total, short>>
    BY <1>0, <1>7 DEF Reallocate, Phases, cacheVars, stageVars
  <2>2. Watched /\ ~short /\ algorithm \in Positive
    BY <2>1
  <2>3. ToGive >= 0
    <3>1. SumFunction(Bound) <= total /\ total \in Int
      BY <1>0, <1>1, <2>2 DEF TypeOK
    <3> QED  BY <1>0, <2>1, <3>1, IdleBound DEF ToGive
  <2>4. \A k \in Keys : limit[k] - Steal(k) <= limit[k] + delta'[k]
    BY <1>0, <1>7, <2>2, <2>3, RoundKeeps
  <2> DEFINE plan == [k \in Keys |-> limit[k] + delta'[k]]
  <2>5. SumFunction(plan) = total /\ delta' \in [Keys -> Int]
    BY <1>0, <1>7, RoundPlanned
  <2>6. plan \in [Keys -> Int] /\ total \in Int
    BY <1>0, <2>5 DEF TypeOK
  <2>7. Bound' \in [Keys -> Int]
    BY <1>00
  <2>8. \A k \in Keys : Steal(k)' = Steal(k)
    BY <2>1 DEF Steal
  <2>9. \A k \in Keys : Bound'[k] <= plan[k]
    <3> SUFFICES ASSUME NEW k \in Keys PROVE Bound'[k] <= plan[k]
      OBVIOUS
    <3>1. limit[k] \in Int /\ delta'[k] \in Int /\ Steal(k) \in Int
      BY <1>0, <2>5, BoundType
    <3>2. Bound'[k] = IF thread'[k] = "set" THEN limit[k] + delta'[k] ELSE limit[k] - Steal(k)
      BY <2>1, <2>8 DEF Bound
    <3> QED  BY <2>4, <3>1, <3>2
  <2>10. SumFunction(Bound') <= total
    <3> HIDE DEF plan
    <3>1. SumFunction(plan) <= total
      BY <2>5, <2>6
    <3> QED  BY <2>6, <2>7, <2>9, <3>1, BoundFalls
  <2>11. \A k \in Keys : (limit[k] - Steal(k) <= limit[k] + delta[k])'
    BY <2>1, <2>4, <2>8
  <2> QED  BY <2>1, <2>10, <2>11
<1>8. ASSUME NEW k \in Keys, SetLimit(k) PROVE InTotal'
  <2>1. /\ thread[k] = "set" /\ thread'[k] # "set" /\ limit'[k] = limit[k] + delta[k]
        /\ \A j \in Keys \ {k} : thread'[j] = thread[j] /\ limit'[j] = limit[j]
        /\ UNCHANGED <<algorithm, total, pc, delta, stageVars>>
    BY <1>0, <1>8, SetLimitEffect
  <2>2. \A j \in Keys \ {k} : Bound'[j] = Bound[j] /\ Bound[j] \in Int
    <3>1. \A j \in Keys \ {k} : Bound'[j] = Bound[j]
      BY <2>1 DEF Bound, Steal
    <3> QED  BY <1>0, <3>1, BoundType
  <2>3. Bound'[k] <= Bound[k]
    <3>1. Steal(k)' \in Nat /\ limit'[k] \in Nat
      BY <1>00
    <3>2. Bound[k] = limit'[k] /\ Bound'[k] = limit'[k] - Steal(k)'
      BY <2>1 DEF Bound
    <3> QED  BY <3>1, <3>2
  <2>4. \A j \in Keys : Bound'[j] <= Bound[j]
    BY <2>2, <2>3
  <2> QED  BY <1>4, <2>1, <2>4 DEF stageVars
<1>9. ASSUME NEW k \in Keys, Evict(k) PROVE InTotal'
  <2>1. /\ thread[k] = "evict" /\ thread'[k] # "set"
        /\ \A j \in Keys \ {k} : thread'[j] = thread[j]
        /\ UNCHANGED <<algorithm, limit, total, pc, delta, stageVars>>
    BY <1>0, <1>9, EvictEffect
  <2>2. \A j \in Keys : Bound'[j] = Bound[j] /\ Bound[j] \in Int
    <3>1. \A j \in Keys : Bound'[j] = Bound[j]
      BY <2>1 DEF Bound, Steal
    <3> QED  BY <1>0, <3>1, BoundType
  <2>3. \A j \in Keys : Bound'[j] <= Bound[j]
    BY <2>2
  <2> QED  BY <1>4, <2>1, <2>3 DEF stageVars
<1>10. ASSUME NEW k \in Keys, ThreadFails(k) PROVE InTotal'
  <2>1. /\ thread'[k] = "done" /\ \A j \in Keys \ {k} : thread'[j] = thread[j]
        /\ UNCHANGED <<algorithm, limit, total, pc, delta, stageVars>>
    BY <1>0, <1>10, ThreadFailsEffect DEF cacheVars
  <2>2. \A j \in Keys : Bound[j] \in Int
    BY <1>0, BoundType
  <2>3. \A j \in Keys \ {k} : Bound'[j] = Bound[j]
    BY <2>1 DEF Bound, Steal
  <2>4. Bound'[k] = limit[k] - Steal(k)
    BY <2>1 DEF Bound, Steal
  <2>5. Bound[k] = limit[k] - Steal(k) \/ limit[k] - Steal(k) <= Bound[k]
    <3>1. Watched /\ ~short
      BY <2>1 DEF stageVars
    <3> QED  BY <1>1, <3>1 DEF Bound
  <2>6. \A j \in Keys : Bound'[j] <= Bound[j]
    BY <2>2, <2>3, <2>4, <2>5
  <2> QED  BY <1>4, <2>1, <2>6 DEF stageVars
<1>11. CASE Join
  <2>1. Idle /\ UNCHANGED <<algorithm, limit, thread, total, short>> /\ Watched /\ ~short
    BY <1>11 DEF Join, cacheVars, stageVars
  <2>2. UNCHANGED Bound
    BY <2>1 DEF Bound, Steal, Idle
  <2>3. InTotal
    BY <1>1, <2>1
  <2> QED  BY <1>5, <2>1, <2>2, <2>3
<1>12. CASE Stage
  <2>1. /\ pc = "stage" /\ UNCHANGED <<algorithm, limit, delta, thread>>
    BY <1>12 DEF Stage, NextStage, SameStage, cacheVars, roundVars
  <2>2. Idle /\ algorithm \in Positive
    BY <1>0, <2>1 DEF Phases
  <2>3. total \in Int /\ total' \in Int /\ SumFunction(Bound) \in Int
    <3>1. TypeOK'
      BY TypeStep
    <3>2. Bound \in [Keys -> Int]
      BY <1>0, BoundType
    <3> QED  BY <1>0, <3>1, <3>2, SumOfKeys DEF TypeOK
  <2>4. ~Excess(total') \/ (~short /\ total' >= total)
    <3>1. CASE NextStage
      <4>1. total' < total \/ total' >= total
        BY <2>3
      <4> QED  BY <3>1, <4>1 DEF NextStage
    <3>2. CASE SameStage
      <4>1. total' = total
        BY <3>2 DEF SameStage
      <4>2. ~short \/ ~Excess(total)
        BY <3>2 DEF SameStage
      <4>3. total' >= total
        BY <2>3, <4>1
      <4>4. ~Excess(total) => ~Excess(total')
        BY <4>1 DEF Excess
      <4> QED  BY <4>2, <4>3, <4>4
    <3> QED  BY <1>12, <3>1, <3>2 DEF Stage
  <2>5. SumFunction(Bound) <= total'
    <3>1. ~Excess(total') => SumFunction(Bound) <= total'
      BY <1>0, <2>2, <2>3, IdleBound
    <3>2. ~short => SumFunction(Bound) <= total
      BY <1>1, <2>1, <2>2
    <3> QED  BY <2>3, <2>4, <3>1, <3>2
  <2> QED  BY <1>2, <1>5, <2>1, <2>2, <2>5
<1>13. CASE Abort \/ NoReallocation \/ ReadFails \/ UNCHANGED vars
  <2>1. UNCHANGED <<algorithm, limit, delta, thread, total, short>> /\ Watched
    BY <1>13 DEF Abort, NoReallocation, ReadFails, vars, cacheVars, roundVars, stageVars
  <2> QED  BY <1>3, <2>1
<1>14. CASE ConnectFails \/ Offline \/ OfflineFails
  BY <1>0, <1>14 DEF ConnectFails, Offline, OfflineStage, OfflineChange, OfflineEnds, OfflineFails,
     Phases, Positive, Weighted
<1> QED  BY <1>6, <1>7, <1>8, <1>9, <1>10, <1>11, <1>12, <1>13, <1>14 DEF Next

LEMMA StagedStep == IInv /\ [Next]_vars => Staged'
<1> DEFINE Reached(k) == limit[k] + (IF thread[k] = "set" THEN delta[k] ELSE 0) = Specs[ptr][k]
<1> SUFFICES ASSUME IInv, [Next]_vars, pc' = "offline"
             PROVE  /\ todo' \subseteq DOMAIN Specs[ptr']
                    /\ \A k \in Keys : thread'[k] = "set" => k \in DOMAIN Specs[ptr'] \ todo'
                    /\ \A k \in DOMAIN Specs[ptr'] \ todo' : Reached(k)'
  BY DEF Staged
<1>0. TypeOK /\ Phases /\ SafeDeltas /\ Staged
  BY DEF IInv
<1>1. ASSUME pc = "offline"
      PROVE  /\ DOMAIN Specs[ptr] \subseteq Keys /\ todo \subseteq DOMAIN Specs[ptr]
             /\ \A k \in DOMAIN Specs[ptr] : Specs[ptr][k] \in Nat
             /\ \A k \in Keys : thread[k] = "set" => k \in DOMAIN Specs[ptr] \ todo
             /\ \A k \in DOMAIN Specs[ptr] \ todo : Reached(k)
  BY <1>0, <1>1, SpecAssumption DEF Phases, Staged
<1>2. ASSUME pc = "offline", UNCHANGED <<todo, ptr>>,
             \A k \in Keys : (thread'[k] = "set" => thread[k] = "set") /\ (Reached(k) => Reached(k)')
      PROVE  /\ todo' \subseteq DOMAIN Specs[ptr']
             /\ \A k \in Keys : thread'[k] = "set" => k \in DOMAIN Specs[ptr'] \ todo'
             /\ \A k \in DOMAIN Specs[ptr'] \ todo' : Reached(k)'
  <2> HIDE DEF Reached
  <2> QED  BY <1>1, <1>2
<1>3. CASE OfflineStage
  <2>1. Idle /\ UNCHANGED thread
    BY <1>0, <1>3 DEF OfflineStage, Phases, roundVars
  <2> QED  BY <1>3, <2>1 DEF OfflineStage, Idle
<1>4. ASSUME NEW k \in Keys, OfflineChange(k)
      PROVE  /\ todo' \subseteq DOMAIN Specs[ptr']
             /\ \A j \in Keys : thread'[j] = "set" => j \in DOMAIN Specs[ptr'] \ todo'
             /\ \A j \in DOMAIN Specs[ptr'] \ todo' : Reached(j)'
  <2>1. /\ pc = "offline" /\ k \in todo /\ \A j \in Keys : thread[j] = "done"
        /\ todo' = todo \ {k} /\ UNCHANGED <<limit, ptr>>
        /\ delta'[k] = Specs[ptr][k] - limit[k] /\ \A j \in Keys \ {k} : delta'[j] = delta[j]
        /\ thread'[k] = "set" /\ \A j \in Keys \ {k} : thread'[j] = thread[j]
    BY <1>0, <1>4 DEF OfflineChange, Idle, TypeOK, cacheVars
  <2>2. limit[k] \in Int /\ Specs[ptr][k] \in Int
    BY <1>0, <1>1, <2>1 DEF TypeOK
  <2>3. Reached(k)'
    BY <2>1, <2>2
  <2>4. \A j \in Keys \ {k} : Reached(j) => Reached(j)'
    BY <2>1
  <2> HIDE DEF Reached
  <2> QED  BY <1>1, <2>1, <2>3, <2>4
<1>5. ASSUME NEW k \in Keys, SetLimit(k)
      PROVE  /\ todo' \subseteq DOMAIN Specs[ptr']
             /\ \A j \in Keys : thread'[j] = "set" => j \in DOMAIN Specs[ptr'] \ todo'
             /\ \A j \in DOMAIN Specs[ptr'] \ todo' : Reached(j)'
  <2>1. /\ thread[k] = "set" /\ thread'[k] # "set" /\ limit'[k] = limit[k] + delta[k]
        /\ limit' \in [Keys -> Nat]
        /\ \A j \in Keys \ {k} : thread'[j] = thread[j] /\ limit'[j] = limit[j]
        /\ UNCHANGED <<pc, delta, stageVars>>
    BY <1>0, <1>5, SetLimitEffect
  <2>2. limit'[k] \in Int
    BY <2>1
  <2>3. \A j \in Keys : (thread'[j] = "set" => thread[j] = "set") /\ (Reached(j) => Reached(j)')
    BY <2>1, <2>2 DEF stageVars
  <2>4. pc = "offline" /\ UNCHANGED <<todo, ptr>>
    BY <2>1 DEF stageVars
  <2> QED  BY <1>2, <2>3, <2>4
<1>6. ASSUME NEW k \in Keys, Evict(k)
      PROVE  /\ todo' \subseteq DOMAIN Specs[ptr']
             /\ \A j \in Keys : thread'[j] = "set" => j \in DOMAIN Specs[ptr'] \ todo'
             /\ \A j \in DOMAIN Specs[ptr'] \ todo' : Reached(j)'
  <2>1. /\ thread[k] = "evict" /\ thread'[k] # "set"
        /\ \A j \in Keys \ {k} : thread'[j] = thread[j]
        /\ UNCHANGED <<limit, pc, delta, stageVars>>
    BY <1>0, <1>6, EvictEffect
  <2>2. \A j \in Keys : (thread'[j] = "set" => thread[j] = "set") /\ (Reached(j) => Reached(j)')
    BY <2>1 DEF stageVars
  <2>3. pc = "offline" /\ UNCHANGED <<todo, ptr>>
    BY <2>1 DEF stageVars
  <2> QED  BY <1>2, <2>2, <2>3
<1>7. CASE UNCHANGED vars
  BY <1>0, <1>7 DEF Staged, vars, cacheVars, roundVars, stageVars
<1>8. OfflineStage \/ (\E k \in Keys : OfflineChange(k) \/ SetLimit(k) \/ Evict(k)) \/ UNCHANGED vars
  BY DEF Next, Offline, Stage, ConnectFails, Connect, Reallocate, Abort, NoReallocation, ReadFails,
         ThreadFails, Join, NextStage, SameStage, OfflineEnds, OfflineFails
<1> QED  BY <1>3, <1>4, <1>5, <1>6, <1>7, <1>8

(* A stage begins with what the last one has come to, and ends with what   *)
(* it names changed to what it has for it.                                 *)
LEMMA StagesKeptStep == IInv /\ [Next]_vars => StagesKept'
<1> SUFFICES ASSUME IInv, [Next]_vars, algorithm' = "offline_opt", NEW k \in Keys
             PROVE  \/ limit'[k] = LimitOfStage(k, ptr')
                    \/ pc' \in {"offline", "dead"} /\ limit'[k] = LimitOfStage(k, ptr' - 1)
  BY DEF StagesKept, LimitOfStage
<1>0. TypeOK /\ Phases /\ SafeDeltas /\ Staged /\ StagesKept
  BY DEF IInv
<1>1. algorithm = "offline_opt"
  BY DEF Next, Offline, Stage, Evict, ConnectFails, Connect, Reallocate, Abort, NoReallocation, ReadFails,
         SetLimit, FreePage, FreeFails, EvictionEnds, ThreadFails, Join, NextStage, SameStage, OfflineStage,
         OfflineChange, OfflineEnds, OfflineFails, vars
<1>2. \/ limit[k] = LimitOfStage(k, ptr)
      \/ pc \in {"offline", "dead"} /\ limit[k] = LimitOfStage(k, ptr - 1)
  BY <1>0, <1>1 DEF StagesKept
<1>3. CASE OfflineStage
  <2>1. /\ pc = "sleep" /\ pc' = "offline" /\ limit' = limit
        /\ ptr \in Int /\ ptr' = ptr + 1 /\ ptr' - 1 = ptr
    BY <1>0, <1>3 DEF OfflineStage, TypeOK, cacheVars
  <2> QED  BY <1>2, <2>1
<1>4. CASE OfflineEnds
  <2>1. pc = "offline" /\ Idle /\ todo = {} /\ UNCHANGED <<limit, ptr>>
    BY <1>4 DEF OfflineEnds, cacheVars, stageVars
  <2>2. LimitOfStage(k, ptr) = IF k \in DOMAIN Specs[ptr] THEN Specs[ptr][k] ELSE LimitOfStage(k, ptr - 1)
    BY <1>0, <2>1, NextStageLimit DEF Phases
  <2>3. ASSUME k \in DOMAIN Specs[ptr] PROVE limit[k] = Specs[ptr][k]
    <3>1. limit[k] + (IF thread[k] = "set" THEN delta[k] ELSE 0) = Specs[ptr][k]
      BY <1>0, <2>1, <2>3 DEF Staged
    <3>2. thread[k] = "done" /\ limit[k] \in Int
      BY <1>0, <2>1 DEF TypeOK, Idle
    <3> QED  BY <3>1, <3>2
  <2> QED  BY <1>2, <2>1, <2>2, <2>3
<1>5. ASSUME NEW j \in Keys, SetLimit(j)
      PROVE  \/ limit'[k] = LimitOfStage(k, ptr')
             \/ pc' \in {"offline", "dead"} /\ limit'[k] = LimitOfStage(k, ptr' - 1)
  <2>1. /\ thread[j] = "set" /\ limit'[j] = limit[j] + delta[j]
        /\ \A i \in Keys \ {j} : limit'[i] = limit[i]
        /\ UNCHANGED <<pc, ptr>>
    BY <1>0, <1>5, SetLimitEffect DEF stageVars
  <2>2. CASE k = j
    <3>1. pc = "offline" /\ ptr \in 1 .. Len(Specs)
      BY <1>0, <1>1, <2>1, BusyPhase DEF Phases, Weighted
    <3>2. k \in DOMAIN Specs[ptr] \ todo
      BY <1>0, <2>1, <2>2, <3>1 DEF Staged
    <3>3. limit[k] + delta[k] = Specs[ptr][k]
      BY <1>0, <2>1, <2>2, <3>1, <3>2 DEF Staged
    <3>4. limit'[k] = Specs[ptr][k]
      BY <2>1, <2>2, <3>3
    <3>5. LimitOfStage(k, ptr) = Specs[ptr][k]
      BY <3>1, <3>2, NextStageLimit
    <3> QED  BY <2>1, <3>4, <3>5
  <2>3. CASE k # j
    BY <1>2, <2>1, <2>3
  <2> QED  BY <2>2, <2>3
<1>6. CASE UNCHANGED <<limit, ptr>> /\ (pc \in {"offline", "dead"} => pc' \in {"offline", "dead"})
  BY <1>2, <1>6
<1>7. pc # "stage" /\ pc # "enforce"
  BY <1>0, <1>1 DEF Phases, Weighted
<1>8. \/ OfflineStage \/ OfflineEnds \/ \E j \in Keys : SetLimit(j)
      \/ UNCHANGED <<limit, ptr>> /\ (pc \in {"offline", "dead"} => pc' \in {"offline", "dead"})
  BY <1>7 DEF Next, Offline, Stage, Evict, ConnectFails, Connect, Reallocate, Abort, NoReallocation, ReadFails,
         FreePage, FreeFails, EvictionEnds, ThreadFails, Join, NextStage, SameStage,
         OfflineChange, OfflineFails, vars, cacheVars, stageVars
<1> QED  BY <1>3, <1>4, <1>5, <1>6, <1>8

(* With what the last round left behind within what can be stolen there is *)
(* not less than nothing to give, and fair shares of that do not exceed it. *)
LEMMA NotAbortedStep == IInv /\ NeverAborted /\ [Next]_vars => NeverAborted'
<1> SUFFICES ASSUME IInv, NeverAborted, [Next]_vars, aborted'
             PROVE  \/ short' \/ algorithm' = "crit_path_w_delta"
                    \/ algorithm' = "robinhood" /\ \E k \in Keys : limit'[k] <= MinSize
  BY DEF NeverAborted
<1>0. TypeOK /\ Phases /\ SafeDeltas /\ Covered
  BY DEF IInv
<1>1. CASE UNCHANGED <<algorithm, limit, aborted, short>>
  BY <1>1 DEF NeverAborted
<1>2. CASE Abort
  <2>1. /\ pc = "sleep" /\ UNCHANGED <<algorithm, limit, short>>
    BY <1>2 DEF Abort, cacheVars, stageVars
  <2>2. PICK w \in Weights : Overallocated(w)
    BY <1>2 DEF Abort
  <2> SUFFICES ASSUME ~short, algorithm # "crit_path_w_delta",
                      algorithm = "robinhood" => \A k \in Keys : ~(limit[k] <= MinSize)
               PROVE  FALSE
    BY <2>1
  <2>3. algorithm \in Positive
    BY WeightsType DEF Positive
  <2>4. SumFunction(Bound) <= total /\ total \in Int
    BY <1>0, <2>1, <2>3 DEF Covered, TypeOK
  <2>5. ToGive >= 0
    <3>1. Idle
      BY <1>0, <2>1 DEF Phases
    <3> QED  BY <1>0, <2>4, <3>1, IdleBound DEF ToGive
  <2>6. limit \in [Keys -> Nat] /\ (algorithm = "robinhood" => \A k \in Keys : limit[k] > MinSize)
    BY <1>0, SizeAssumption DEF TypeOK
  <2>7. Fair(w)
    BY <2>3, <2>6, WeightsPositive
  <2> QED  BY <1>0, <2>2, <2>5, <2>7, FairNeverOverallocated, TypeOKLimits
<1>3. ASSUME NEW k \in Keys, SetLimit(k) PROVE FALSE
  <2>1. aborted /\ pc \in {"enforce", "offline"}
    BY <1>0, <1>3, BusyPhase DEF SetLimit
  <2> QED  BY <1>0, <2>1 DEF Phases
<1>4. \/ ~aborted' \/ UNCHANGED <<algorithm, limit, aborted, short>> \/ Abort
      \/ \E k \in Keys : SetLimit(k)
  BY DEF Next, Offline, Stage, Evict, ConnectFails, Connect, Reallocate, NoReallocation, ReadFails,
         FreePage, FreeFails, EvictionEnds, ThreadFails, Join, NextStage, SameStage, OfflineStage,
         OfflineChange, OfflineEnds, OfflineFails, vars, cacheVars, stageVars
<1> QED  BY <1>1, <1>2, <1>3, <1>4
-----------------------------------------------------------------------------
(* Whatever the statistics and the threads do, IInv holds. *)
THEOREM Invariant == Spec => []IInv
<1>1. IInv /\ [Next]_vars => IInv'
  BY TypeStep, PhasesStep, SafeDeltasStep, BalancedStep, CoveredStep, StagedStep, StagesKeptStep DEF IInv
<1> QED  BY InitIInv, <1>1, PTL DEF Spec, Safety

(* Every variable has its type; no limit becomes negative. *)
THEOREM TypeCorrect == Spec => []TypeOK
<1>1. IInv => TypeOK
  BY DEF IInv
<1> QED  BY <1>1, Invariant, PTL

(* A round whose threads all set their limits ends with limits that add up *)
(* to the total.                                                           *)
THEOREM RoundConserves == Spec => Conserved
<1>1. IInv /\ [Next]_vars =>
        (pc = "enforce" /\ pc' = "stage" /\ missed = {} => SumFunction(limit') = total)
  <2> SUFFICES ASSUME IInv, [Next]_vars, pc = "enforce", pc' = "stage", missed = {}
               PROVE  SumFunction(limit') = total
    OBVIOUS
  <2>1. Idle /\ UNCHANGED limit
    <3>1. Join
      BY DEF Next, Offline, Stage, Evict, ConnectFails, Connect, Reallocate, Abort, NoReallocation,
             ReadFails, SetLimit, FreePage, FreeFails, EvictionEnds, ThreadFails, NextStage, SameStage,
             OfflineStage, OfflineChange, OfflineEnds, OfflineFails, vars
    <3> QED  BY <3>1 DEF Join, cacheVars
  <2>2. SumFunction(Planned) = total
    BY DEF IInv, Balanced
  <2>3. Planned = limit
    <3>1. limit \in [Keys -> Nat] /\ \A k \in Keys : Planned[k] = limit[k]
      BY <2>1 DEF IInv, TypeOK, Idle, Planned
    <3> QED  BY <3>1 DEF Planned
  <2> QED  BY <2>1, <2>2, <2>3
<1> QED  BY <1>1, Invariant, PTL DEF Spec, Safety, Conserved

(* No weighted round shrinks a cache to MinSize or below: a thread sets    *)
(* the limit that was found acceptable, whatever happened since.           *)
THEOREM KeepsMinSize == Spec => NeverBelowMin
<1>1. IInv /\ [Next]_vars =>
        (\A k \in Keys : algorithm \in Weighted /\ limit'[k] < limit[k] => limit'[k] > MinSize)
  <2> SUFFICES ASSUME IInv, [Next]_vars, NEW k \in Keys, algorithm \in Weighted, limit'[k] < limit[k]
               PROVE  limit'[k] > MinSize
    OBVIOUS
  <2>0. TypeOK /\ SafeDeltas
    BY DEF IInv
  <2>1. limit[k] \in Nat /\ delta[k] \in Int /\ MinSize \in Nat
    BY <2>0, SizeAssumption DEF TypeOK
  <2>2. SetLimit(k)
    <3>1. limit'[k] # limit[k]
      BY <2>1
    <3>2. ~UNCHANGED limit
      BY <3>1
    <3>3. PICK j \in Keys : SetLimit(j)
      BY <3>2 DEF Next, Offline, Stage, Evict, ConnectFails, Connect, Reallocate, Abort, NoReallocation,
         ReadFails, FreePage, FreeFails, EvictionEnds, ThreadFails, Join, NextStage, SameStage,
         OfflineStage, OfflineChange, OfflineEnds, OfflineFails, vars, cacheVars
    <3>4. j = k
      BY <2>0, <3>1, <3>3, SetLimitEffect
    <3> QED  BY <3>3, <3>4
  <2>3. thread[k] = "set" /\ limit'[k] = limit[k] + delta[k]
    BY <2>0, <2>2, SetLimitEffect
  <2>4. delta[k] >= 0 \/ limit[k] + delta[k] > MinSize
    BY <2>0, <2>3 DEF SafeDeltas, Acceptable
  <2> QED  BY <2>1, <2>3, <2>4
<1> QED  BY <1>1, Invariant, PTL DEF Spec, Safety, NeverBelowMin

(* Whatever threads fail, the next round has the means to bring the limits *)
(* back to the total, unless a stage lowered it by too much.               *)
THEOREM NextRoundRepairs == Spec => []Repairable
<1>1. IInv => Repairable
  <2> SUFFICES ASSUME IInv, pc \in {"sleep", "stage"}, algorithm \in Positive, ~short
               PROVE  ~Excess(total)
    BY DEF Repairable, Positive
  <2>1. TypeOK /\ Idle /\ total \in Int
    BY DEF IInv, Phases, TypeOK
  <2>2. SumFunction(Bound) <= total
    BY DEF IInv, Covered
  <2> QED  BY <2>1, <2>2, IdleBound
<1> QED  BY <1>1, Invariant, PTL

(* No round is given up as OVERALLOCATED, unless a stage lowered the total *)
(* by too much, the weights are negative, or Robinhood meets a cache of    *)
(* MinSize or less.                                                        *)
THEOREM RoundsAreCarriedOut == Spec => []NeverAborted
<1>1. Init => NeverAborted
  BY DEF Init, NeverAborted
<1>2. IInv /\ NeverAborted /\ [Next]_vars => NeverAborted'
  BY NotAbortedStep
<1> QED  BY <1>1, <1>2, Invariant, PTL DEF Spec, Safety

(* Whatever fails, and whatever evictions do not manage, the stages of     *)
(* offline_opt leave each cache with a limit of this stage or the last.    *)
THEOREM StagesAreKept == Spec => []StagesKept
<1>1. IInv => StagesKept
  BY DEF IInv
<1> QED  BY <1>1, Invariant, PTL
=============================================================================
